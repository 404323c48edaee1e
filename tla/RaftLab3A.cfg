\* Two elections in a cluster of three.
SPECIFICATION Spec
CONSTANTS
    Server = {s1, s2, s3}
    NoOne = NoOne
    MaxElections = 2
SYMMETRY Symmetry
INVARIANT OneLeader
\* A server whose elections are used up only waits for messages that never come.
CHECK_DEADLOCK FALSE
