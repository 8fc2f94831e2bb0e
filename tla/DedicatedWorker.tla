-------------------------- MODULE DedicatedWorker --------------------------
(***************************************************************************)
(* What await_worker_queue promises: "Queue coroutine execution on a       *)
(* single dedicated worker thread any time co_await is called from the     *)
(* thread which created it."  A call is handed over at most once, calls    *)
(* are taken up in the order in which they were handed over, and the       *)
(* worker runs one of them at a time, to its end.                          *)
(***************************************************************************)
EXTENDS Sequences

CONSTANTS Calls, Caller, Creator

VARIABLES
    where,    \* "idle", on its "caller" thread, "waiting", on the "worker", "done"
    waiting   \* the calls that were handed over and not yet taken up

dvars == <<where, waiting>>

Init ==
    /\ where = [c \in Calls |-> "idle"]
    /\ waiting = <<>>

Start(c) ==
    /\ where[c] = "idle"
    /\ where' = [where EXCEPT ![c] = "caller"]
    /\ UNCHANGED waiting

HandOver(c) ==
    /\ where[c] = "caller"
    /\ Caller[c] = Creator
    /\ where' = [where EXCEPT ![c] = "waiting"]
    /\ waiting' = Append(waiting, c)

TakeUp ==
    /\ waiting # <<>>
    /\ \A c \in Calls : where[c] # "worker"
    /\ where' = [where EXCEPT ![Head(waiting)] = "worker"]
    /\ waiting' = Tail(waiting)

Finish(c) ==
    /\ where[c] \in {"caller", "worker"}
    /\ where' = [where EXCEPT ![c] = "done"]
    /\ UNCHANGED waiting

Next ==
    \/ TakeUp
    \/ \E c \in Calls : Start(c) \/ HandOver(c) \/ Finish(c)

Spec == Init /\ [][Next]_dvars
=============================================================================
