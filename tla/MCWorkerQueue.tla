--------------------------- MODULE MCWorkerQueue ---------------------------
(***************************************************************************)
(* Small instances of WorkerQueue: three calls of the thread that created  *)
(* the queue and one of another thread, which await it once or twice.      *)
(***************************************************************************)
EXTENDS WorkerQueue

CONSTANTS a, b, c, d, main, other

TwoThreads == {main, other}

CallerOfEach == [x \in Calls |-> IF x = d THEN other ELSE main]

AwaitsOfEach == [x \in Calls |-> IF x = b THEN 1 ELSE 2]

=============================================================================
