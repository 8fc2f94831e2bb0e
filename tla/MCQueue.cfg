\* Threads that keep the queue at least until their calls have returned.
CONSTANTS
    a = a
    b = b
    c = c
    d = d
    main = main
    other = other
    Worker = worker
    NoCall = NoCall
    NoThread = NoThread
    Calls = {a, b, c, d}
    Threads <- TwoThreads
    Creator = main
    Caller <- CallerOfEach
    Awaits <- AwaitsOfEach
    ReleaseAfter = "call"
SPECIFICATION FairSpec
INVARIANTS
    UsedWhileAlive
PROPERTIES
    InOrder
    CallsFinish
    DestructorReturns
\* The queue is destroyed in the end.
CHECK_DEADLOCK FALSE
