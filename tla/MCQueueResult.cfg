\* Threads that keep the queue until their results are there.
CONSTANTS
    a = a
    b = b
    c = c
    d = d
    main = main
    other = other
    Worker = worker
    NoCall = NoCall
    NoThread = NoThread
    Calls = {a, b, c, d}
    Threads <- TwoThreads
    Creator = main
    Caller <- CallerOfEach
    Awaits <- AwaitsOfEach
    ReleaseAfter = "result"
SPECIFICATION Spec
INVARIANTS
    NeverJoinsItself
\* The queue is destroyed in the end.
CHECK_DEADLOCK FALSE
