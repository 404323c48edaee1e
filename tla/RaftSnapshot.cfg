SPECIFICATION Spec
CONSTANTS
    a = a
    b = b
    c = c
    Server = {a, b, c}
    NoOne = NoOne
    SnapShotInterval = 1
    Bounds <- Cases
SYMMETRY Symmetry
INVARIANT LogMatching MatchIndexTrue CommittedAgree ChosenOnDisk
PROPERTY KeepsPromise
\* Once every bound is used up nothing happens any more, nor when the program has ended.
CHECK_DEADLOCK FALSE
