SPECIFICATION Spec
CONSTANTS
    t1 = t1
    t2 = t2
    f1 = f1
    f2 = f2
    Client = {t1, t2}
    Frame = {f1, f2}
    Buffer = {f1, f2}
    Frames <- TwoFrames
    Page <- Pages
    Value <- Values
    Zero = 0
    NoRequest = NoRequest
    NullOpt = NullOpt
    NoThread = NoThread
    Destroyed = Destroyed
    NoPage = NoPage
    Flushers = {t1}
    Written = {0}
    MaxHeld = 2
INVARIANT FramesConsistent HeldStays
PROPERTY IsPageStore WaitsEnd
\* Once the pool is destroyed nothing happens any more.
CHECK_DEADLOCK FALSE
