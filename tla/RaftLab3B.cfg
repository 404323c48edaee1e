SPECIFICATION Spec
CONSTANTS
    a = a
    b = b
    c = c
    Server = {a, b, c}
    NoOne = NoOne
    Bounds <- Cases
SYMMETRY Symmetry
INVARIANT MatchIndexTrue CommittedHeld OneLeader
\* Once every bound is used up nothing happens any more.
CHECK_DEADLOCK FALSE
