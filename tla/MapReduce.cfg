\* Two workers; a crash, two reports of failure and three timeouts of a worker that lives.
SPECIFICATION FairSpec
CONSTANTS
    Worker = {w1, w2}
    nTask = 2
    nReduce = 2
    MaxCrashes = 1
    MaxErrors = 2
    MaxSlow = 3
INVARIANT JobInv
PROPERTY JobPromise JobEnds
\* When all have exited nothing happens any more.
CHECK_DEADLOCK FALSE
