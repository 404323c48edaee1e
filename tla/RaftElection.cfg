\* Two elections in a cluster of three: every server may crash once, or the leaders
\* they elect or depose replicate, one call at a time.
SPECIFICATION Spec
CONSTANTS
    Server = {s1, s2, s3}
    NoOne = NoOne
    MaxElections = 2
    MaxIndex = 1
    MaxRestarts = 1
    MaxAppends = 1
SYMMETRY Symmetry
CONSTRAINT OneAtATime
INVARIANT ElectionSafety ElectionInv
PROPERTY LeaderKeepsTerm VoteIsFinal
\* A server whose elections are used up only waits for messages that never come.
CHECK_DEADLOCK FALSE
