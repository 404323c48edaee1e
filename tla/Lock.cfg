\* Two clients that race for the lock, acquire and release it; calls are resent, delayed,
\* overtaken.
SPECIFICATION FairSpec
CONSTANTS
    Client = {c1, c2}
    Key = {lock}
    Value = {Empty, c1, c2}
    Empty = Empty
    LockName = lock
    MaxVersion = 2
INVARIANT MutualExclusion NoOrphan LockInv
PROPERTY CallsReturn
\* Once MaxVersion is reached and the lock is free nobody acquires it any more.
CHECK_DEADLOCK FALSE
