\* Two clients, one key: every Put may be resent, delayed and overtaken.
SPECIFICATION ClientsSpec
CONSTANTS
    Client = {c1, c2}
    Key = {k}
    Value = {Empty}
    Empty = Empty
    MaxPuts = 2
    MaxAsked = 1
SYMMETRY Symmetry
INVARIANT PutAtMostOnce OutcomeIsTruthful
