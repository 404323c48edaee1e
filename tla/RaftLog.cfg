SPECIFICATION Spec
CONSTANTS
    a = a
    b = b
    c = c
    Server = {a, b, c}
    NoOne = NoOne
    Bounds <- Cases
SYMMETRY Symmetry
INVARIANT LogMatching MatchIndexTrue NextIndexInLog StateMachineSafety
PROPERTY CommittedStay CommitNeverBack
\* Once every bound is used up nothing happens any more.
CHECK_DEADLOCK FALSE
