---------------------------- MODULE WorkerQueue ----------------------------
(***************************************************************************)
(* await_worker_queue, the launch policy that continues coroutines on one  *)
(* worker thread, with the coroutines that use it and the shared pointers  *)
(* that keep it alive.                                                     *)
(*                                                                         *)
(* A call is a coroutine of the service, like Request::resolve, that is    *)
(* given the queue as params.launch.  It starts on its caller's thread,    *)
(* awaits the queue Awaits[c] times, sets its promise and is destroyed.    *)
(* Each of these holds a reference to the queue: a thread that has the     *)
(* await_async or the queue in a variable, the parameter object of a call  *)
(* that has not returned to its caller, and the frame of a coroutine.      *)
(* Whoever drops the last one runs the destructor, on its own thread.      *)
(*                                                                         *)
(* A section of code between lock and unlock is one action.  Calls that a  *)
(* callback makes on the worker never suspend: they are part of a call.    *)
(***************************************************************************)
EXTENDS Naturals, Sequences

CONSTANTS
    Calls,         \* calls of the service that are given the queue
    Threads,       \* the application's threads
    Creator,       \* the one that constructed the queue: _startId
    Worker,        \* the queue's own thread: _worker
    NoCall, NoThread,
    Caller,        \* the thread each call is made on
    Awaits,        \* how often a call awaits the queue
    ReleaseAfter   \* when a thread lets go of the queue: after its calls have
                   \* returned ("call"), or after their promises are set ("result")

ASSUME ThreadsDistinct ==
    /\ Creator \in Threads
    /\ Worker \notin Threads
    /\ NoThread \notin Threads \cup {Worker}
    /\ NoCall \notin Calls

ASSUME CallData ==
    /\ Caller \in [Calls -> Threads]
    /\ Awaits \in [Calls -> Nat]

ASSUME Policies == ReleaseAfter \in {"call", "result"}

VARIABLES
    pending,      \* _pending
    shutdown,     \* _shutdown
    worker,       \* where _worker is in resumePending
    batch,        \* its local list pending
    state,        \* how far the coroutine of each call got
    thread,       \* the thread it runs on, or ran on last
    awaits,       \* how often it has still to await the queue
    calling,      \* the call each thread has not returned from
    notifying,    \* await_suspend has unlocked _mutex, but not notified _cv
    handles,      \* the threads that hold the queue
    destructor,   \* how far ~await_worker_queue got
    destroyer     \* the thread it runs on

vars == <<pending, shutdown, worker, batch, state, thread, awaits, calling,
          notifying, handles, destructor, destroyer>>

States == {"idle", "running", "suspended", "returned", "destroyed"}

\* The states of a coroutine that a thread is executing.
Active == {"running", "returned"}

-----------------------------------------------------------------------------
(* References to the queue                                                 *)

\* The coroutines that exist, with their copy of params.launch.
Frames == {c \in Calls : state[c] \in Active \cup {"suspended"}}

\* Mutant of Referenced: the queue is its creator's, the others borrow it.
ReferencedByCreator == Creator \in handles

Referenced ==
    \/ handles # {}
    \/ \E t \in Threads : calling[t] # NoCall
    \/ Frames # {}

\* Thread t dropped a reference: if that was the last one, it destroys the queue.
Drop(t) ==
    IF Referenced' \/ destructor # "none"
    THEN UNCHANGED <<destructor, destroyer>>
    ELSE destructor' = "locking" /\ destroyer' = t

\* notify_one wakes the worker if it waits.
Notified == worker' = IF worker = "waiting" THEN "woken" ELSE worker

-----------------------------------------------------------------------------
(* A call                                                                  *)

\* Thread t calls the service with a copy of its await_async.
Call(t, c) ==
    /\ state[c] = "idle"
    /\ t = Caller[c]
    /\ t \in handles
    /\ calling[t] = NoCall
    /\ state' = [state EXCEPT ![c] = "running"]
    /\ thread' = [thread EXCEPT ![c] = t]
    /\ calling' = [calling EXCEPT ![t] = c]
    /\ UNCHANGED <<pending, shutdown, worker, batch, awaits, notifying, handles,
                   destructor, destroyer>>

\* Mutant of Ready: suspend on every thread.
ReadyNever(t) == FALSE

\* await_ready
Ready(t) == t # Creator

\* co_await goes on at once on any thread but the creator's.
Continue(c) ==
    /\ state[c] = "running"
    /\ awaits[c] > 0
    /\ Ready(thread[c])
    /\ awaits' = [awaits EXCEPT ![c] = @ - 1]
    /\ UNCHANGED <<pending, shutdown, worker, batch, state, thread, calling,
                   notifying, handles, destructor, destroyer>>

\* Mutant of Queued: put the coroutine first.
QueuedFirst(c) == <<c>> \o pending

Queued(c) == Append(pending, c)

\* await_suspend up to lock.unlock().
Suspend(c) ==
    /\ state[c] = "running"
    /\ awaits[c] > 0
    /\ ~Ready(thread[c])
    /\ awaits' = [awaits EXCEPT ![c] = @ - 1]
    /\ pending' = Queued(c)
    /\ state' = [state EXCEPT ![c] = "suspended"]
    /\ notifying' = TRUE
    /\ UNCHANGED <<shutdown, worker, batch, thread, calling, handles, destructor,
                   destroyer>>

\* Mutant of SuspendNotify: forget to notify.
SuspendForgets ==
    /\ notifying
    /\ notifying' = FALSE
    /\ calling' = [calling EXCEPT ![Creator] = NoCall]
    /\ UNCHANGED <<pending, shutdown, worker, batch, state, thread, awaits, handles>>
    /\ Drop(Creator)

\* await_suspend notifies, and the call returns its Awaitable to the creator.
SuspendNotify ==
    /\ notifying
    /\ notifying' = FALSE
    /\ Notified
    /\ calling' = [calling EXCEPT ![Creator] = NoCall]
    /\ UNCHANGED <<pending, shutdown, batch, state, thread, awaits, handles>>
    /\ Drop(Creator)

\* co_return or an exception: the promise is set, the caller's get() returns.
Return(c) ==
    /\ state[c] = "running"
    /\ awaits[c] = 0
    /\ state' = [state EXCEPT ![c] = "returned"]
    /\ UNCHANGED <<pending, shutdown, worker, batch, thread, awaits, calling,
                   notifying, handles, destructor, destroyer>>

\* final_suspend does not suspend: the frame is destroyed with its parameters,
\* and a call that never suspended returns to its caller.
Destroy(c) ==
    /\ state[c] = "returned"
    /\ state' = [state EXCEPT ![c] = "destroyed"]
    /\ calling' = [t \in Threads |-> IF calling[t] = c /\ thread[c] = t
                                     THEN NoCall ELSE calling[t]]
    /\ UNCHANGED <<pending, shutdown, worker, batch, thread, awaits, notifying, handles>>
    /\ Drop(thread[c])

-----------------------------------------------------------------------------
(* The application's threads                                               *)

\* The states of a call at which its thread may let go of the queue.
Released ==
    {"idle", "returned", "destroyed"}
        \cup (IF ReleaseAfter = "call" THEN {"running", "suspended"} ELSE {})

\* Thread t lets go of its await_async when its calls are far enough.
Release(t) ==
    /\ t \in handles
    /\ calling[t] = NoCall
    /\ \A c \in Calls : Caller[c] = t => state[c] \in Released
    /\ handles' = handles \ {t}
    /\ UNCHANGED <<pending, shutdown, worker, batch, state, thread, awaits, calling,
                   notifying>>
    /\ Drop(t)

-----------------------------------------------------------------------------
(* resumePending, on the worker                                            *)

\* The list of the worker is swapped with _pending, and _mutex released.
Take ==
    /\ batch' = pending
    /\ pending' = <<>>
    /\ worker' = "resuming"

\* while (!_shutdown), and the first test of the predicate of _cv.wait.
Loop ==
    /\ worker = "looping"
    /\ IF shutdown
       THEN worker' = "exited" /\ UNCHANGED <<pending, batch>>
       ELSE IF pending = <<>>
       THEN worker' = "waiting" /\ UNCHANGED <<pending, batch>>
       ELSE Take
    /\ UNCHANGED <<shutdown, state, thread, awaits, calling, notifying, handles,
                   destructor, destroyer>>

\* _cv.wait was notified, or woke spuriously, and tests its predicate again.
Woken ==
    /\ worker = "woken"
    /\ IF shutdown \/ pending # <<>>
       THEN Take
       ELSE worker' = "waiting" /\ UNCHANGED <<pending, batch>>
    /\ UNCHANGED <<shutdown, state, thread, awaits, calling, notifying, handles,
                   destructor, destroyer>>

SpuriousWakeup ==
    /\ worker = "waiting"
    /\ worker' = "woken"
    /\ UNCHANGED <<pending, shutdown, batch, state, thread, awaits, calling,
                   notifying, handles, destructor, destroyer>>

\* The worker is in the resume() of a coroutine it has not returned from.
Busy == \E c \in Calls : thread[c] = Worker /\ state[c] \in Active

\* h.resume() for the first one in the list.
Resume ==
    /\ worker = "resuming"
    /\ batch # <<>>
    /\ ~Busy
    /\ state' = [state EXCEPT ![Head(batch)] = "running"]
    /\ thread' = [thread EXCEPT ![Head(batch)] = Worker]
    /\ batch' = Tail(batch)
    /\ UNCHANGED <<pending, shutdown, worker, awaits, calling, notifying, handles,
                   destructor, destroyer>>

BatchDone ==
    /\ worker = "resuming"
    /\ batch = <<>>
    /\ ~Busy
    /\ destroyer # Worker
    /\ worker' = "looping"
    /\ UNCHANGED <<pending, shutdown, batch, state, thread, awaits, calling,
                   notifying, handles, destructor, destroyer>>

-----------------------------------------------------------------------------
(* ~await_worker_queue                                                     *)

ShutDown ==
    /\ destructor = "locking"
    /\ shutdown' = TRUE
    /\ destructor' = "notifying"
    /\ UNCHANGED <<pending, worker, batch, state, thread, awaits, calling,
                   notifying, handles, destroyer>>

\* Mutant of ShutDownNotify: join without notifying.
ShutDownForgets ==
    /\ destructor = "notifying"
    /\ destructor' = "joining"
    /\ UNCHANGED <<pending, shutdown, worker, batch, state, thread, awaits, calling,
                   notifying, handles, destroyer>>

ShutDownNotify ==
    /\ destructor = "notifying"
    /\ Notified
    /\ destructor' = "joining"
    /\ UNCHANGED <<pending, shutdown, batch, state, thread, awaits, calling,
                   notifying, handles, destroyer>>

\* _worker.join() waits for the worker, which cannot wait for itself: that
\* throws in a destructor, and the program is terminated.
Join ==
    /\ destructor = "joining"
    /\ \/ destroyer = Worker /\ destructor' = "terminated"
       \/ destroyer # Worker /\ worker = "exited" /\ destructor' = "joined"
    /\ UNCHANGED <<pending, shutdown, worker, batch, state, thread, awaits, calling,
                   notifying, handles, destroyer>>

-----------------------------------------------------------------------------
(* The queue and its users                                                 *)

\* Every thread of the application was given the queue.
Init ==
    /\ pending = <<>>
    /\ shutdown = FALSE
    /\ worker = "looping"
    /\ batch = <<>>
    /\ state = [c \in Calls |-> "idle"]
    /\ thread = Caller
    /\ awaits = Awaits
    /\ calling = [t \in Threads |-> NoCall]
    /\ notifying = FALSE
    /\ handles = Threads
    /\ destructor = "none"
    /\ destroyer = NoThread

CallStep(c) == Continue(c) \/ Suspend(c) \/ Return(c) \/ Destroy(c)

WorkerStep == Loop \/ Woken \/ Resume \/ BatchDone

DestructorStep == ShutDown \/ ShutDownNotify \/ Join

ApplicationStep(t) == (\E c \in Calls : Call(t, c)) \/ Release(t)

\* A terminated program takes no step.
Next ==
    /\ destructor # "terminated"
    /\ \/ \E c \in Calls : CallStep(c)
       \/ SuspendNotify
       \/ WorkerStep
       \/ SpuriousWakeup
       \/ DestructorStep
       \/ \E t \in Threads : ApplicationStep(t)

Spec == Init /\ [][Next]_vars

\* Threads are scheduled, and a mutex that is free now and again is granted.
Fairness ==
    /\ \A c \in Calls : WF_vars(CallStep(c))
    /\ WF_vars(SuspendNotify)
    /\ WF_vars(WorkerStep)
    /\ WF_vars(DestructorStep)

FairSpec == Spec /\ Fairness

-----------------------------------------------------------------------------
(* Invariants                                                              *)

Handed == batch \o pending

TypeOK ==
    /\ pending \in Seq(Calls)
    /\ shutdown \in BOOLEAN
    /\ worker \in {"looping", "waiting", "woken", "resuming", "exited"}
    /\ batch \in Seq(Calls)
    /\ state \in [Calls -> States]
    /\ thread \in [Calls -> Threads \cup {Worker}]
    /\ awaits \in [Calls -> Nat]
    /\ calling \in [Threads -> Calls \cup {NoCall}]
    /\ notifying \in BOOLEAN
    /\ handles \in SUBSET Threads
    /\ destructor \in {"none", "locking", "notifying", "joining", "joined", "terminated"}
    /\ destroyer \in Threads \cup {Worker, NoThread}

\* The queue is destroyed when nobody uses it any more: no coroutine is left in
\* its lists, where it would never be resumed, none is running that may await
\* it again, and await_suspend is not about to notify its condition variable.
UsedWhileAlive ==
    destructor # "none" =>
        /\ Frames = {}
        /\ Handed = <<>>
        /\ ~notifying

\* "Queue coroutine execution on a single dedicated worker thread": a thread that
\* waits for the result of each of its calls, as the tests do, may then let go of
\* the queue.  The destructor does not run on the worker, which it joins.
NeverJoinsItself == destroyer # Worker

\* The queue holds the suspended coroutines, each of them once.
HandedInv ==
    /\ \A i \in 1..Len(Handed) : state[Handed[i]] = "suspended"
    /\ \A i, j \in 1..Len(Handed) : Handed[i] = Handed[j] => i = j
    /\ \A c \in Calls : state[c] = "suspended" => \E i \in 1..Len(Handed) : Handed[i] = c

\* A coroutine is on its caller's thread, in the middle of the call, or was
\* moved from the creator's thread to the worker.
ThreadInv ==
    \A c \in Calls :
        /\ thread[c] \in {Caller[c], Worker}
        /\ thread[c] = Worker => Caller[c] = Creator
        /\ state[c] \in {"idle", "suspended"} => thread[c] = Caller[c]
        /\ state[c] = "suspended" => Caller[c] = Creator
        /\ state[c] \in Active /\ thread[c] # Worker => calling[thread[c]] = c

\* While await_suspend has to notify, the call it is part of has not returned,
\* and the creator runs no other one.
NotifyInv ==
    notifying =>
        /\ calling[Creator] # NoCall
        /\ \A c \in Calls : thread[c] = Creator => state[c] \notin Active

\* The worker runs one coroutine at a time and keeps a list only to resume it.
WorkerInv ==
    /\ Busy \/ batch # <<>> => worker = "resuming"
    /\ \A c, d \in Calls :
        /\ thread[c] = Worker /\ state[c] \in Active
        /\ thread[d] = Worker /\ state[d] \in Active
        => c = d

\* The queue is destroyed, once, after the last reference was dropped.
LifetimeInv ==
    /\ destructor = "none" <=> destroyer = NoThread
    /\ destructor # "none" => ~Referenced
    /\ shutdown => destructor \notin {"none", "locking"}
    /\ worker = "exited" => shutdown

IndInv ==
    /\ TypeOK
    /\ HandedInv
    /\ ThreadInv
    /\ NotifyInv
    /\ WorkerInv
    /\ LifetimeInv

-----------------------------------------------------------------------------
(* What the queue promises                                                 *)

Where ==
    [c \in Calls |->
        CASE state[c] = "idle" -> "idle"
          [] state[c] = "suspended" -> "waiting"
          [] state[c] = "destroyed" -> "done"
          [] OTHER -> IF thread[c] = Worker THEN "worker" ELSE "caller"]

Dedicated == INSTANCE DedicatedWorker WITH where <- Where, waiting <- Handed

\* Although the worker swaps its list with the queue, coroutines are resumed in
\* the order in which the creator suspended them, none is lost or resumed
\* twice, and only coroutines of the creator run on the worker, one at a time.
InOrder == Dedicated!Spec

-----------------------------------------------------------------------------
(* Liveness                                                                *)

\* No wakeup is lost: every call ends, wherever it was suspended.
CallsFinish == \A c \in Calls : state[c] = "running" ~> state[c] = "destroyed"

\* An application's thread that destroys the queue gets out of the destructor.
DestructorReturns ==
    destructor = "locking" /\ destroyer # Worker ~> destructor = "joined"
=============================================================================
