------------------------- MODULE WorkerQueueProofs -------------------------
(***************************************************************************)
(* Proofs about WorkerQueue for any number of calls and threads: IndInv is *)
(* an inductive invariant, and the queue implements DedicatedWorker.       *)
(***************************************************************************)
EXTENDS WorkerQueue, SequenceTheorems, TLAPS

-----------------------------------------------------------------------------
(* The worker's list and the queue, one after the other                    *)

LEMMA HandedType ==
    ASSUME TypeOK
    PROVE  Handed \in Seq(Calls) /\ Len(Handed) \in Nat
BY ConcatProperties, LenProperties DEF TypeOK, Handed

LEMMA HandedAppend ==
    ASSUME TypeOK, NEW c \in Calls
    PROVE  batch \o Append(pending, c) = Append(Handed, c)
<1>1. batch \in Seq(Calls) /\ pending \in Seq(Calls) /\ <<c>> \in Seq(Calls)
  BY DEF TypeOK
<1>2. Append(pending, c) = pending \o <<c>> /\ Append(Handed, c) = Handed \o <<c>>
  BY <1>1, HandedType, AppendIsConcat
<1> QED BY <1>1, <1>2, ConcatAssociative DEF Handed

LEMMA HandedTail ==
    ASSUME TypeOK, batch # <<>>
    PROVE  /\ Handed # <<>>
           /\ Head(batch) = Handed[1]
           /\ Head(batch) = Head(Handed)
           /\ Tail(batch) \o pending = Tail(Handed)
<1>1. batch \in Seq(Calls) /\ pending \in Seq(Calls) /\ Len(batch) \in Nat \ {0}
      /\ Len(pending) \in Nat
  BY EmptySeq, LenProperties DEF TypeOK
<1>2. /\ Handed \in Seq(Calls) /\ Len(Handed) = Len(batch) + Len(pending)
      /\ \A i \in 1..Len(batch) + Len(pending) :
            Handed[i] = IF i <= Len(batch) THEN batch[i] ELSE pending[i - Len(batch)]
  BY <1>1, ConcatProperties DEF Handed
<1>3. Handed # <<>> /\ Head(batch) = Handed[1] /\ Head(batch) = Head(Handed)
  BY <1>1, <1>2, EmptySeq
<1>4. /\ Tail(batch) \in Seq(Calls) /\ Len(Tail(batch)) = Len(batch) - 1
      /\ \A i \in 1..Len(Tail(batch)) : Tail(batch)[i] = batch[i + 1]
  BY <1>1, HeadTailProperties DEF TypeOK
<1>5. /\ Tail(Handed) \in Seq(Calls) /\ Len(Tail(Handed)) = Len(Handed) - 1
      /\ \A i \in 1..Len(Tail(Handed)) : Tail(Handed)[i] = Handed[i + 1]
  BY <1>2, <1>3, HeadTailProperties
<1> DEFINE s == Tail(batch) \o pending
<1>6. /\ s \in Seq(Calls) /\ Len(s) = Len(batch) - 1 + Len(pending)
      /\ \A i \in 1..Len(batch) - 1 + Len(pending) :
            s[i] = IF i <= Len(batch) - 1 THEN Tail(batch)[i]
                   ELSE pending[i - (Len(batch) - 1)]
  BY <1>1, <1>4, ConcatProperties
<1> HIDE DEF s
<1>7. Len(s) = Len(Tail(Handed)) /\ \A i \in 1..Len(s) : s[i] = Tail(Handed)[i]
  BY <1>1, <1>2, <1>4, <1>5, <1>6
<1>8. s = Tail(Handed)
  BY <1>5, <1>6, <1>7, SeqEqual
<1> QED BY <1>3, <1>8 DEF s

LEMMA HandedTake ==
    ASSUME TypeOK, batch = <<>>
    PROVE  pending \o <<>> = Handed
BY ConcatEmptySeq DEF TypeOK, Handed

-----------------------------------------------------------------------------
(* IndInv is inductive                                                     *)

LEMMA InitInd == Init => IndInv
<1> SUFFICES ASSUME Init PROVE IndInv
  OBVIOUS
<1> USE ThreadsDistinct, CallData
<1>1. TypeOK
  BY EmptySeq DEF Init, TypeOK, States
<1>2. Handed = <<>> /\ Len(Handed) = 0
  BY EmptySeq, ConcatEmptySeq DEF Init, Handed
<1>3. HandedInv
  BY <1>2 DEF Init, HandedInv
<1>4. ThreadInv /\ NotifyInv /\ WorkerInv /\ LifetimeInv
  BY DEF Init, ThreadInv, NotifyInv, WorkerInv, LifetimeInv, Busy,
         Active, Frames
<1> QED BY <1>1, <1>3, <1>4 DEF IndInv

\* A step that leaves coroutines and lists alone keeps what they are subject to.
LEMMA HandedSame ==
    ASSUME HandedInv, UNCHANGED <<batch, pending, state>>
    PROVE  HandedInv'
BY DEF HandedInv, Handed

LEMMA CallInd ==
    ASSUME IndInv, NEW t \in Threads, NEW c \in Calls, Call(t, c)
    PROVE  IndInv'
<1> USE ThreadsDistinct, CallData DEF IndInv
<1>1. TypeOK'
  BY DEF Call, TypeOK, States
<1>2. /\ state[c] = "idle" /\ state' = [state EXCEPT ![c] = "running"]
      /\ state'[c] = "running" /\ \A d \in Calls \ {c} : state'[d] = state[d]
      /\ thread'[c] = t /\ \A d \in Calls \ {c} : thread'[d] = thread[d]
      /\ calling'[t] = c /\ \A u \in Threads \ {t} : calling'[u] = calling[u]
      /\ calling[t] = NoCall /\ t = Caller[c] /\ t \in handles
      /\ UNCHANGED <<pending, shutdown, worker, batch, awaits, notifying, handles,
                     destructor, destroyer>>
  BY DEF Call, TypeOK
<1>3. HandedInv'
  <2>1. Handed' = Handed
    BY <1>2 DEF Handed
  <2>2. \A i \in 1..Len(Handed) : Handed[i] \in Calls /\ Handed[i] # c
    BY <1>2, HandedType, ElementOfSeq DEF HandedInv
  <2> QED BY <1>2, <2>1, <2>2 DEF HandedInv
<1>4. ThreadInv'
  BY <1>2 DEF ThreadInv, Active
<1>5. NotifyInv'
  BY <1>2 DEF NotifyInv
<1>6. WorkerInv'
  BY <1>2 DEF WorkerInv, Busy
<1>7. LifetimeInv'
  BY <1>2 DEF LifetimeInv, Referenced
<1> QED BY <1>1, <1>3, <1>4, <1>5, <1>6, <1>7

LEMMA ContinueInd ==
    ASSUME IndInv, NEW c \in Calls, Continue(c)
    PROVE  IndInv'
<1> USE DEF IndInv
<1>1. TypeOK'
  BY DEF Continue, TypeOK
<1>2. UNCHANGED <<pending, shutdown, worker, batch, state, thread, calling,
                  notifying, handles, destructor, destroyer>>
  BY DEF Continue
<1>3. HandedInv'
  BY <1>2, HandedSame
<1>4. ThreadInv' /\ NotifyInv' /\ WorkerInv' /\ LifetimeInv'
  BY <1>2 DEF ThreadInv, NotifyInv, WorkerInv, LifetimeInv, Busy, Frames,
              Referenced
<1> QED BY <1>1, <1>3, <1>4

LEMMA SuspendInd ==
    ASSUME IndInv, NEW c \in Calls, Suspend(c)
    PROVE  IndInv'
<1> USE ThreadsDistinct, CallData DEF IndInv
<1>1. TypeOK'
  BY DEF Suspend, Queued, TypeOK, States
<1>2. /\ state[c] = "running" /\ thread[c] = Creator
      /\ state'[c] = "suspended" /\ \A d \in Calls \ {c} : state'[d] = state[d]
      /\ pending' = Append(pending, c) /\ notifying' = TRUE
      /\ UNCHANGED <<shutdown, worker, batch, thread, calling, handles, destructor,
                     destroyer>>
  BY DEF Suspend, Queued, Ready, TypeOK
<1>3. Caller[c] = Creator /\ calling[Creator] = c
  BY <1>2 DEF ThreadInv, Active
<1>4. HandedInv'
  <2>1. Handed' = Append(Handed, c)
    BY <1>2, HandedAppend DEF Handed
  <2>2. Handed \in Seq(Calls) /\ Len(Handed) \in Nat
    BY HandedType
  <2>3. /\ Len(Handed') = Len(Handed) + 1
        /\ \A i \in 1..Len(Handed) : Handed'[i] = Handed[i]
        /\ Handed'[Len(Handed) + 1] = c
    BY <2>1, <2>2, AppendProperties
  <2>4. \A i \in 1..Len(Handed) : Handed[i] \in Calls /\ Handed[i] # c
    BY <1>2, <2>2, ElementOfSeq DEF HandedInv
  <2>5. \A i \in 1..Len(Handed') : state'[Handed'[i]] = "suspended"
    BY <1>2, <2>2, <2>3, <2>4 DEF HandedInv
  <2>6. \A i, j \in 1..Len(Handed') : Handed'[i] = Handed'[j] => i = j
    BY <2>2, <2>3, <2>4 DEF HandedInv
  <2>7. \A d \in Calls : state'[d] = "suspended" => \E i \in 1..Len(Handed') : Handed'[i] = d
    <3> SUFFICES ASSUME NEW d \in Calls, state'[d] = "suspended"
                 PROVE  \E i \in 1..Len(Handed') : Handed'[i] = d
      OBVIOUS
    <3>1. CASE d = c
      BY <2>2, <2>3, <3>1
    <3>2. CASE d # c
      <4>1. PICK i \in 1..Len(Handed) : Handed[i] = d
        BY <1>2, <3>2 DEF HandedInv
      <4>2. i \in 1..Len(Handed') /\ Handed'[i] = d
        BY <2>2, <2>3, <4>1
      <4> QED BY <4>2
    <3> QED BY <3>1, <3>2
  <2> QED BY <2>5, <2>6, <2>7 DEF HandedInv
<1>5. ThreadInv'
  BY <1>2, <1>3 DEF ThreadInv, Active
<1>6. NotifyInv'
  <2>1. \A d \in Calls : thread[d] = Creator /\ state[d] \in Active => d = c
    BY <1>3 DEF ThreadInv
  <2> QED BY <1>2, <1>3, <2>1 DEF NotifyInv, Active
<1>7. WorkerInv'
  BY <1>2 DEF WorkerInv, Busy, Active
<1>8. LifetimeInv'
  BY <1>2, <1>3 DEF LifetimeInv, Referenced
<1> QED BY <1>1, <1>4, <1>5, <1>6, <1>7, <1>8

\* Dropping a reference: the destructor starts if it was the last one, and
\* once the queue is without references it stays so.
LEMMA DropLifetime ==
    ASSUME TypeOK, LifetimeInv, NEW t \in Threads \cup {Worker}, Drop(t),
           ~Referenced => ~Referenced', shutdown' = shutdown,
           worker' = "exited" => worker = "exited"
    PROVE  /\ LifetimeInv'
           /\ destructor' \in {"none", "locking", "notifying", "joining", "joined", "terminated"}
           /\ destroyer' \in Threads \cup {Worker, NoThread}
BY ThreadsDistinct DEF LifetimeInv, Drop, TypeOK

LEMMA SuspendNotifyInd ==
    ASSUME IndInv, SuspendNotify
    PROVE  IndInv'
<1> USE ThreadsDistinct, CallData DEF IndInv
<1>1. /\ notifying /\ notifying' = FALSE
      /\ calling'[Creator] = NoCall
      /\ \A t \in Threads \ {Creator} : calling'[t] = calling[t]
      /\ worker' \in {worker, "woken"} /\ (worker' # worker => worker = "waiting")
      /\ UNCHANGED <<pending, shutdown, batch, state, thread, awaits, handles>>
      /\ Drop(Creator)
  BY DEF SuspendNotify, Notified, TypeOK
<1>2. calling' \in [Threads -> Calls \cup {NoCall}]
  BY DEF SuspendNotify, TypeOK
<1>3. ~Referenced => ~Referenced'
  BY <1>1 DEF Referenced, Frames
<1>4. LifetimeInv' /\ TypeOK'
  BY <1>1, <1>2, <1>3, DropLifetime DEF TypeOK
<1>5. HandedInv'
  BY <1>1, HandedSame
<1>6. ThreadInv'
  BY <1>1 DEF ThreadInv, NotifyInv
<1>7. NotifyInv' /\ WorkerInv'
  BY <1>1 DEF NotifyInv, WorkerInv, Busy, Frames
<1> QED BY <1>4, <1>5, <1>6, <1>7

LEMMA ReturnInd ==
    ASSUME IndInv, NEW c \in Calls, Return(c)
    PROVE  IndInv'
<1> USE DEF IndInv
<1>1. TypeOK'
  BY DEF Return, TypeOK, States
<1>2. /\ state[c] = "running" /\ state'[c] = "returned"
      /\ \A d \in Calls \ {c} : state'[d] = state[d]
      /\ UNCHANGED <<pending, shutdown, worker, batch, thread, awaits, calling,
                     notifying, handles, destructor, destroyer>>
  BY DEF Return, TypeOK
<1>3. HandedInv'
  <2>1. Handed' = Handed
    BY <1>2 DEF Handed
  <2>2. \A i \in 1..Len(Handed) : Handed[i] \in Calls /\ Handed[i] # c
    BY <1>2, HandedType, ElementOfSeq DEF HandedInv
  <2> QED BY <1>2, <2>1, <2>2 DEF HandedInv
<1>4. \A d \in Calls : state'[d] \in Active <=> state[d] \in Active
  BY <1>2 DEF Active
<1>5. Frames' = Frames
  BY <1>2, <1>4 DEF Frames
<1>6. ThreadInv' /\ NotifyInv' /\ WorkerInv' /\ LifetimeInv'
  BY <1>2, <1>4, <1>5 DEF ThreadInv, NotifyInv, WorkerInv, LifetimeInv,
                          Busy, Referenced
<1> QED BY <1>1, <1>3, <1>6

LEMMA DestroyInd ==
    ASSUME IndInv, NEW c \in Calls, Destroy(c)
    PROVE  IndInv'
<1> USE ThreadsDistinct, CallData DEF IndInv
<1>1. /\ state[c] = "returned" /\ state'[c] = "destroyed"
      /\ \A d \in Calls \ {c} : state'[d] = state[d]
      /\ \A t \in Threads : calling'[t] = IF calling[t] = c /\ thread[c] = t
                                           THEN NoCall ELSE calling[t]
      /\ UNCHANGED <<pending, shutdown, worker, batch, thread, awaits, notifying, handles>>
      /\ Drop(thread[c]) /\ thread[c] \in Threads \cup {Worker}
  BY DEF Destroy, TypeOK
<1>2. state' \in [Calls -> States] /\ calling' \in [Threads -> Calls \cup {NoCall}]
  BY DEF Destroy, TypeOK, States
<1>3. ~Referenced => ~Referenced'
  BY <1>1 DEF Referenced, Frames, Active
<1>4. LifetimeInv' /\ TypeOK'
  BY <1>1, <1>2, <1>3, DropLifetime DEF TypeOK
<1>5. HandedInv'
  <2>1. Handed' = Handed
    BY <1>1 DEF Handed
  <2>2. \A i \in 1..Len(Handed) : Handed[i] \in Calls /\ Handed[i] # c
    BY <1>1, HandedType, ElementOfSeq DEF HandedInv
  <2> QED BY <1>1, <2>1, <2>2 DEF HandedInv
<1>6. ThreadInv'
  BY <1>1 DEF ThreadInv, Active
<1>7. NotifyInv'
  <2>1. notifying => thread[c] # Creator
    BY <1>1 DEF NotifyInv, Active
  <2> QED BY <1>1, <2>1 DEF NotifyInv, Active
<1>8. WorkerInv'
  BY <1>1 DEF WorkerInv, Busy, Active, Frames
<1> QED BY <1>4, <1>5, <1>6, <1>7, <1>8

LEMMA ReleaseInd ==
    ASSUME IndInv, NEW t \in Threads, Release(t)
    PROVE  IndInv'
<1> USE ThreadsDistinct, CallData DEF IndInv
<1>1. /\ handles' = handles \ {t} /\ handles' \in SUBSET Threads
      /\ UNCHANGED <<pending, shutdown, worker, batch, state, thread, awaits, calling,
                     notifying>>
      /\ Drop(t)
  BY DEF Release, TypeOK
<1>2. ~Referenced => ~Referenced'
  BY <1>1 DEF Referenced, Frames
<1>3. LifetimeInv' /\ TypeOK'
  BY <1>1, <1>2, DropLifetime DEF TypeOK
<1>4. HandedInv'
  BY <1>1, HandedSame
<1>5. ThreadInv' /\ NotifyInv' /\ WorkerInv'
  BY <1>1 DEF ThreadInv, NotifyInv, WorkerInv, Busy
<1> QED BY <1>3, <1>4, <1>5

\* The worker's steps around its wait do not touch the coroutines.
LEMMA TakeInd ==
    ASSUME IndInv, Loop \/ Woken
    PROVE  IndInv'
<1> USE DEF IndInv
<1>1. /\ worker \in {"looping", "woken"}
      /\ worker' \in {"exited", "waiting", "resuming"}
      /\ worker' = "exited" => shutdown
      /\ \/ UNCHANGED <<batch, pending>>
         \/ batch' = pending /\ pending' = <<>> /\ worker' = "resuming"
      /\ UNCHANGED <<shutdown, state, thread, awaits, calling, notifying, handles,
                     destructor, destroyer>>
  BY DEF Loop, Woken, Take
<1>2. batch = <<>> /\ ~Busy
  BY <1>1 DEF WorkerInv
<1>3. TypeOK'
  BY <1>1, EmptySeq DEF TypeOK
<1>4. Handed' = Handed
  BY <1>1, <1>2, HandedTake DEF Handed
<1>5. HandedInv'
  BY <1>1, <1>4 DEF HandedInv
<1>6. WorkerInv'
  BY <1>1, <1>2 DEF WorkerInv, Busy
<1>7. ThreadInv' /\ NotifyInv' /\ LifetimeInv'
  BY <1>1 DEF ThreadInv, NotifyInv, LifetimeInv, Frames, Referenced
<1> QED BY <1>3, <1>5, <1>6, <1>7

LEMMA ResumeInd ==
    ASSUME IndInv, Resume
    PROVE  IndInv'
<1> USE ThreadsDistinct, CallData DEF IndInv
<1> DEFINE c == Head(batch)
<1>1. c \in Calls /\ Tail(batch) \in Seq(Calls)
  BY HeadTailProperties DEF Resume, TypeOK
<1>2. /\ Handed # <<>> /\ c = Handed[1] /\ Handed' = Tail(Handed)
      /\ Handed \in Seq(Calls) /\ Len(Handed) \in Nat
      /\ Len(Handed') = Len(Handed) - 1
      /\ \A i \in 1..Len(Handed') : Handed'[i] = Handed[i + 1]
  <2>1. TypeOK /\ batch # <<>> /\ batch' = Tail(batch) /\ pending' = pending
    BY DEF Resume
  <2>2. /\ Handed # <<>> /\ c = Handed[1] /\ Tail(batch) \o pending = Tail(Handed)
        /\ Handed \in Seq(Calls) /\ Len(Handed) \in Nat
    BY <2>1, HandedTail, HandedType
  <2>3. Handed' = Tail(Handed)
    BY <2>1, <2>2 DEF Handed
  <2> QED BY <2>2, <2>3, HeadTailProperties
<1>3. Len(Handed) > 0
  BY <1>2, EmptySeq
<1> HIDE DEF c
<1>4. /\ worker = "resuming" /\ batch # <<>> /\ ~Busy
      /\ state'[c] = "running" /\ \A d \in Calls \ {c} : state'[d] = state[d]
      /\ thread'[c] = Worker /\ \A d \in Calls \ {c} : thread'[d] = thread[d]
      /\ UNCHANGED <<pending, shutdown, worker, awaits, calling, notifying, handles,
                     destructor, destroyer>>
      /\ batch' = Tail(batch)
  BY <1>1 DEF Resume, TypeOK, c
<1>5. state[c] = "suspended"
  BY <1>2, <1>3 DEF HandedInv
<1>6. TypeOK'
  BY <1>1 DEF Resume, TypeOK, States, c
<1>7. HandedInv'
  <2>1. \A i \in 1..Len(Handed') : Handed'[i] \in Calls /\ Handed'[i] # c
    <3> SUFFICES ASSUME NEW i \in 1..Len(Handed')
                 PROVE  Handed'[i] \in Calls /\ Handed'[i] # c
      OBVIOUS
    <3>1. i + 1 \in 1..Len(Handed) /\ 1 \in 1..Len(Handed) /\ i + 1 # 1
      BY <1>2, <1>3
    <3>2. Handed[i + 1] \in Calls /\ Handed[i + 1] # Handed[1]
      BY <1>2, <3>1, ElementOfSeq DEF HandedInv
    <3> QED BY <1>2, <3>2
  <2>2. \A i \in 1..Len(Handed') : state'[Handed'[i]] = "suspended"
    <3>1. \A i \in 1..Len(Handed') : i + 1 \in 1..Len(Handed)
      BY <1>2
    <3>2. \A i \in 1..Len(Handed') : state[Handed'[i]] = "suspended"
      BY <1>2, <3>1 DEF HandedInv
    <3> QED BY <1>4, <2>1, <3>2
  <2>3. \A i, j \in 1..Len(Handed') : Handed'[i] = Handed'[j] => i = j
    BY <1>2, <1>3 DEF HandedInv
  <2>4. \A d \in Calls : state'[d] = "suspended" => \E i \in 1..Len(Handed') : Handed'[i] = d
    <3> SUFFICES ASSUME NEW d \in Calls, state'[d] = "suspended"
                 PROVE  \E i \in 1..Len(Handed') : Handed'[i] = d
      OBVIOUS
    <3>1. d # c /\ state[d] = "suspended"
      BY <1>4
    <3>2. PICK i \in 1..Len(Handed) : Handed[i] = d
      BY <3>1 DEF HandedInv
    <3>3. i # 1
      BY <1>2, <3>1, <3>2
    <3>4. i - 1 \in 1..Len(Handed') /\ Handed'[i - 1] = d
      BY <1>2, <3>2, <3>3
    <3> QED BY <3>4
  <2> QED BY <2>2, <2>3, <2>4 DEF HandedInv
<1>8. ThreadInv'
  BY <1>1, <1>4, <1>5 DEF ThreadInv, Active
<1>9. NotifyInv'
  BY <1>1, <1>4 DEF NotifyInv
<1>10. WorkerInv'
  BY <1>1, <1>4 DEF WorkerInv, Busy
<1>11. Frames' = Frames
  BY <1>1, <1>4, <1>5 DEF Frames, Active
<1>12. LifetimeInv'
  BY <1>4, <1>11 DEF LifetimeInv, Referenced
<1> QED BY <1>6, <1>7, <1>8, <1>9, <1>10, <1>12

\* The worker's other steps, and those of the destructor.
LEMMA QueueInd ==
    ASSUME IndInv, SpuriousWakeup \/ BatchDone \/ DestructorStep
    PROVE  IndInv'
<1> USE DEF IndInv
<1>1. /\ UNCHANGED <<pending, batch, state, thread, awaits, calling, notifying,
                     handles, destroyer>>
      /\ worker' # worker => worker' \in {"woken", "looping"} /\ ~Busy /\ batch = <<>>
  BY DEF SpuriousWakeup, BatchDone, DestructorStep, ShutDown, ShutDownNotify, Join,
         Notified, WorkerInv
<1>2. TypeOK'
  BY <1>1 DEF SpuriousWakeup, BatchDone, DestructorStep, ShutDown, ShutDownNotify,
              Join, TypeOK
<1>3. HandedInv'
  BY <1>1, HandedSame
<1>4. LifetimeInv'
  BY <1>1 DEF SpuriousWakeup, BatchDone, DestructorStep, ShutDown, ShutDownNotify,
              Join, Notified, LifetimeInv, Referenced, Frames
<1>5. ThreadInv' /\ NotifyInv' /\ WorkerInv'
  BY <1>1 DEF ThreadInv, NotifyInv, WorkerInv, Busy, Frames
<1> QED BY <1>2, <1>3, <1>4, <1>5

LEMMA NextInd ==
    ASSUME IndInv, [Next]_vars
    PROVE  IndInv'
<1>1. CASE Next
  BY <1>1, CallInd, ContinueInd, SuspendInd, SuspendNotifyInd, ReturnInd, DestroyInd,
     ReleaseInd, TakeInd, ResumeInd, QueueInd
     DEF Next, CallStep, WorkerStep, ApplicationStep
<1>2. CASE UNCHANGED vars
  BY <1>2 DEF vars, IndInv, TypeOK, HandedInv, Handed, ThreadInv, NotifyInv, WorkerInv,
              LifetimeInv, Busy, Frames, Referenced
<1> QED BY <1>1, <1>2

\* The inductive invariant of the queue and its users holds in every reachable
\* state, for any number of calls on any number of threads.
THEOREM QueueInvariance == Spec => []IndInv
<1>1. Init => IndInv
  BY InitInd
<1>2. IndInv /\ [Next]_vars => IndInv'
  BY NextInd
<1> QED BY <1>1, <1>2, PTL DEF Spec

-----------------------------------------------------------------------------
(* The lifetime of the queue                                               *)

LEMMA IndImpliesAlive == IndInv => UsedWhileAlive
<1> SUFFICES ASSUME IndInv, destructor # "none"
             PROVE  Frames = {} /\ Handed = <<>> /\ ~notifying
  BY DEF UsedWhileAlive
<1> USE ThreadsDistinct DEF IndInv
<1>1. Frames = {} /\ \A t \in Threads : calling[t] = NoCall
  BY DEF LifetimeInv, Referenced
<1>2. ~notifying
  BY <1>1 DEF NotifyInv
<1>3. Handed = <<>>
  <2> SUFFICES ASSUME Handed # <<>> PROVE FALSE
    OBVIOUS
  <2>1. 1 \in 1..Len(Handed) /\ Handed[1] \in Calls
    BY HandedType, EmptySeq, ElementOfSeq
  <2>2. Handed[1] \in Frames
    BY <2>1 DEF HandedInv, Frames
  <2> QED BY <1>1, <2>2
<1> QED BY <1>1, <1>2, <1>3

\* The destructor never abandons a coroutine, nor runs while await_suspend or a
\* coroutine is about to use the queue.
THEOREM QueueIsUsedWhileAlive == Spec => []UsedWhileAlive
<1>1. IndInv => UsedWhileAlive
  BY IndImpliesAlive
<1> QED BY <1>1, QueueInvariance, PTL

-----------------------------------------------------------------------------
(* Wakeups                                                                 *)

\* The worker sleeps only if there is nothing to resume and no shutdown, or if
\* whoever changed that has still to notify it.
WakeupInv ==
    /\ worker = "waiting" /\ pending # <<>> => notifying
    /\ worker = "waiting" /\ shutdown => destructor = "notifying"
    /\ destructor \notin {"none", "locking"} => shutdown

LEMMA NextWakeup ==
    ASSUME IndInv, WakeupInv, [Next]_vars
    PROVE  WakeupInv'
<1>0. shutdown => destructor \notin {"none", "locking"}
  BY DEF IndInv, LifetimeInv
<1>1. CASE SuspendNotify
  <2>1. worker' # "waiting" /\ shutdown' = shutdown
    BY <1>1 DEF SuspendNotify, Notified
  <2>2. destructor' = destructor \/ destructor' = "locking"
    BY <1>1 DEF SuspendNotify, Drop
  <2> QED BY <2>1, <2>2 DEF WakeupInv
<1>2. CASE \E c \in Calls : Suspend(c)
  BY <1>2 DEF Suspend, WakeupInv
<1>3. ASSUME \/ \E t \in Threads : ApplicationStep(t)
             \/ \E c \in Calls : Continue(c) \/ Return(c) \/ Destroy(c)
      PROVE  WakeupInv'
  <2>1. UNCHANGED <<pending, shutdown, worker, notifying>>
    BY <1>3 DEF ApplicationStep, Call, Release, Continue, Return, Destroy
  <2>2. destructor' = destructor \/ \E t : Drop(t)
    BY <1>3 DEF ApplicationStep, Call, Release, Continue, Return, Destroy
  <2>3. destructor' = destructor \/ (destructor = "none" /\ destructor' = "locking")
    BY <2>2 DEF Drop
  <2> QED BY <1>0, <2>1, <2>3 DEF WakeupInv
<1>4. CASE Loop \/ Woken
  BY <1>0, <1>4 DEF Loop, Woken, Take, WakeupInv
<1>5. CASE SpuriousWakeup \/ Resume \/ BatchDone
  BY <1>5 DEF SpuriousWakeup, Resume, BatchDone, WakeupInv
<1>6. CASE ShutDown
  BY <1>6 DEF ShutDown, WakeupInv
<1>7. CASE ShutDownNotify
  BY <1>7 DEF ShutDownNotify, Notified, WakeupInv
<1>8. CASE Join
  BY <1>8 DEF Join, WakeupInv
<1>9. CASE UNCHANGED vars
  BY <1>9 DEF vars, WakeupInv
<1> QED
  BY <1>1, <1>2, <1>3, <1>4, <1>5, <1>6, <1>7, <1>8, <1>9
     DEF Next, CallStep, WorkerStep, DestructorStep

\* A coroutine that is suspended is with a worker that has not left its loop,
\* and that is awake or about to be notified.
Served ==
    \A c \in Calls : state[c] = "suspended" =>
        /\ worker # "exited" /\ ~shutdown
        /\ worker = "waiting" => notifying

\* The destructor waits for a worker that is awake and will see _shutdown.
JoinsAwake == destructor = "joining" => shutdown /\ worker # "waiting"

\* Although await_suspend and the destructor notify after they have released
\* the mutex, and the worker may have been woken or gone back to sleep since, no
\* wakeup is lost: the safety that resuming every coroutine and joining the
\* worker rest on.
THEOREM NoWakeupIsLost == Spec => [](Served /\ JoinsAwake)
<1>1. Init => WakeupInv
  BY DEF Init, WakeupInv
<1>2. IndInv /\ WakeupInv /\ [Next]_vars => WakeupInv'
  BY NextWakeup
<1>3. IndInv /\ WakeupInv => Served
  <2> SUFFICES ASSUME IndInv, WakeupInv, NEW c \in Calls, state[c] = "suspended"
               PROVE  worker # "exited" /\ ~shutdown /\ (worker = "waiting" => notifying)
    BY DEF Served
  <2>1. Frames # {}
    BY DEF Frames
  <2>2. destructor = "none"
    BY <2>1, IndImpliesAlive DEF UsedWhileAlive
  <2>3. ~shutdown /\ worker # "exited"
    BY <2>2 DEF IndInv, LifetimeInv
  <2>4. ASSUME worker = "waiting"
        PROVE  pending # <<>>
    <3>1. batch = <<>> /\ Handed # <<>>
      BY <2>4, EmptySeq, HandedType DEF IndInv, WorkerInv, HandedInv
    <3> QED BY <3>1, EmptySeq, ConcatEmptySeq DEF Handed
  <2> QED BY <2>3, <2>4 DEF WakeupInv
<1>4. WakeupInv => JoinsAwake
  BY DEF WakeupInv, JoinsAwake
<1> QED BY <1>1, <1>2, <1>3, <1>4, QueueInvariance, PTL DEF Spec

\* What is left to do of calls that were made and of the destructor.
UnderWay == Frames # {} \/ destructor \in {"locking", "notifying", "joining"}

\* Somebody may do it: a coroutine that a thread runs, who is to notify, the
\* worker, unless it sleeps or waits for itself, or the thread that destroys.
MayGoOn ==
    \/ \E c \in Calls : state[c] \in Active
    \/ notifying
    \/ worker \in {"looping", "woken"}
    \/ worker = "resuming" /\ ~Busy /\ (batch # <<>> \/ destroyer # Worker)
    \/ destructor \in {"locking", "notifying"}
    \/ destructor = "joining" /\ (destroyer = Worker \/ worker = "exited")

\* The creator, the worker and the thread that destroys the queue never all wait
\* for each other: while a coroutine exists or the queue is being destroyed,
\* somebody may go on without a spurious wakeup or a new call.
THEOREM SomebodyGoesOn == Spec => [](UnderWay => MayGoOn)
<1>1. IndInv /\ Served /\ JoinsAwake => (UnderWay => MayGoOn)
  <2> SUFFICES ASSUME IndInv, Served, JoinsAwake, UnderWay, ~MayGoOn
               PROVE  FALSE
    OBVIOUS
  <2>1. ~Busy /\ ~notifying
    BY DEF MayGoOn, Busy
  <2>2. worker \in {"waiting", "resuming", "exited"}
    BY DEF MayGoOn, IndInv, TypeOK
  <2>3. CASE Frames # {}
    <3>1. PICK c \in Calls : state[c] = "suspended"
      BY <2>3 DEF Frames, MayGoOn
    <3>2. destroyer # Worker
      BY <2>3, ThreadsDistinct DEF IndInv, LifetimeInv, Referenced
    <3>3. worker # "exited" /\ worker # "waiting"
      BY <2>1, <3>1 DEF Served
    <3> QED BY <2>1, <2>2, <3>2, <3>3 DEF MayGoOn
  <2>4. CASE destructor = "joining"
    <3>1. worker # "waiting"
      BY <2>4 DEF JoinsAwake
    <3> QED BY <2>1, <2>2, <2>4, <3>1 DEF MayGoOn
  <2> QED BY <2>3, <2>4 DEF UnderWay, MayGoOn
<1>2. Spec => [](Served /\ JoinsAwake)
  BY NoWakeupIsLost
<1> QED BY <1>1, <1>2, QueueInvariance, PTL

-----------------------------------------------------------------------------
(* The queue implements DedicatedWorker                                    *)

\* Where a call is, arm by arm.
LEMMA WhereIs ==
    ASSUME NEW c \in Calls
    PROVE  /\ state[c] = "idle" => Where[c] = "idle"
           /\ state[c] = "suspended" => Where[c] = "waiting"
           /\ state[c] = "destroyed" => Where[c] = "done"
           /\ state[c] \in Active /\ thread[c] = Worker => Where[c] = "worker"
           /\ state[c] \in Active /\ thread[c] # Worker => Where[c] = "caller"
BY DEF Where, Active

\* A step that moves one call makes an EXCEPT of Where.
LEMMA WhereMoves ==
    ASSUME TypeOK, TypeOK', NEW c \in Calls, NEW w, Where'[c] = w,
           \A d \in Calls \ {c} : state'[d] = state[d] /\ thread'[d] = thread[d]
    PROVE  Where' = [Where EXCEPT ![c] = w]
<1>1. \A d \in Calls \ {c} : Where'[d] = Where[d]
  BY DEF Where
<1>2. Where = [d \in Calls |-> Where[d]] /\ Where' = [d \in Calls |-> Where'[d]]
  BY DEF Where
<1> QED BY <1>1, <1>2

LEMMA InitDedicated == Init => Dedicated!Init
<1> SUFFICES ASSUME Init PROVE Dedicated!Init
  OBVIOUS
<1>1. Handed = <<>>
  BY EmptySeq, ConcatEmptySeq DEF Init, Handed
<1>2. Where = [c \in Calls |-> "idle"]
  BY DEF Init, Where
<1> QED BY <1>1, <1>2 DEF Dedicated!Init

LEMMA StepDedicated ==
    ASSUME IndInv, IndInv', [Next]_vars
    PROVE  [Dedicated!Next]_(Dedicated!dvars)
<1> USE ThreadsDistinct, CallData
<1>0. TypeOK /\ TypeOK'
  BY DEF IndInv
<1>1. ASSUME NEW t \in Threads, NEW c \in Calls, Call(t, c)
      PROVE  Dedicated!Start(c)
  <2>1. Where[c] = "idle" /\ Handed' = Handed
    BY <1>1, WhereIs DEF Call, Handed
  <2>2. /\ state'[c] = "running" /\ thread'[c] # Worker
        /\ \A d \in Calls \ {c} : state'[d] = state[d] /\ thread'[d] = thread[d]
    BY <1>0, <1>1 DEF Call, TypeOK
  <2>3. Where'[c] = "caller"
    BY <2>2 DEF Where
  <2> QED BY <1>0, <2>1, <2>2, <2>3, WhereMoves DEF Dedicated!Start
<1>2. ASSUME NEW c \in Calls, Suspend(c)
      PROVE  Dedicated!HandOver(c)
  <2>1. /\ state[c] = "running" /\ thread[c] = Creator /\ state'[c] = "suspended"
        /\ \A d \in Calls \ {c} : state'[d] = state[d] /\ thread'[d] = thread[d]
    BY <1>0, <1>2 DEF Suspend, Ready, TypeOK
  <2>2. Caller[c] = Creator
    BY <2>1 DEF IndInv, ThreadInv
  <2>3. Where[c] = "caller"
    BY <2>1, WhereIs DEF Active
  <2>4. Handed' = Append(Handed, c)
    BY <1>0, <1>2, HandedAppend DEF Suspend, Queued, Handed
  <2>5. Where'[c] = "waiting"
    BY <2>1 DEF Where
  <2> QED BY <1>0, <2>1, <2>2, <2>3, <2>4, <2>5, WhereMoves DEF Dedicated!HandOver
<1>3. ASSUME NEW c \in Calls, Destroy(c)
      PROVE  Dedicated!Finish(c)
  <2>1. /\ state[c] = "returned" /\ state'[c] = "destroyed" /\ thread' = thread
        /\ \A d \in Calls \ {c} : state'[d] = state[d]
        /\ UNCHANGED <<batch, pending>>
    BY <1>0, <1>3 DEF Destroy, TypeOK
  <2>2. Where[c] \in {"caller", "worker"} /\ Handed' = Handed
    BY <2>1, WhereIs DEF Active, Handed
  <2>3. Where'[c] = "done"
    BY <2>1 DEF Where
  <2> QED BY <1>0, <2>1, <2>2, <2>3, WhereMoves DEF Dedicated!Finish
<1>4. CASE Resume
  <2> DEFINE c == Head(batch)
  <2>1. /\ c \in Calls /\ Handed # <<>> /\ c = Head(Handed)
        /\ Tail(batch) \o pending = Tail(Handed)
    BY <1>0, <1>4, HandedTail, HeadTailProperties DEF Resume, TypeOK
  <2> HIDE DEF c
  <2>2. /\ state'[c] = "running" /\ thread'[c] = Worker
        /\ \A d \in Calls \ {c} : state'[d] = state[d] /\ thread'[d] = thread[d]
        /\ ~Busy /\ batch' = Tail(batch) /\ pending' = pending
    BY <1>0, <1>4, <2>1 DEF Resume, TypeOK, c
  <2>3. \A d \in Calls : Where[d] # "worker"
    BY <1>0, <2>2 DEF Where, Busy, Active, TypeOK, States
  <2>4. Handed' = Tail(Handed)
    BY <2>1, <2>2 DEF Handed
  <2>5. Where'[c] = "worker"
    BY <2>1, <2>2 DEF Where
  <2>6. Where' = [Where EXCEPT ![c] = "worker"]
    BY <1>0, <2>1, <2>2, <2>5, WhereMoves
  <2> QED BY <2>1, <2>3, <2>4, <2>6 DEF Dedicated!TakeUp, Dedicated!Next
<1>5. ASSUME NEW c \in Calls, Return(c)
      PROVE  UNCHANGED Dedicated!dvars
  <2>1. /\ state[c] = "running" /\ state'[c] = "returned"
        /\ \A d \in Calls \ {c} : state'[d] = state[d]
        /\ UNCHANGED <<batch, pending, thread>>
    BY <1>0, <1>5 DEF Return, TypeOK
  <2>2. Where' = Where /\ Handed' = Handed
    BY <2>1 DEF Where, Handed
  <2> QED BY <2>2 DEF Dedicated!dvars
<1>6. CASE Loop \/ Woken
  <2>1. batch = <<>>
    BY <1>6 DEF IndInv, WorkerInv, Loop, Woken
  <2>2. Handed' = Handed
    BY <1>0, <1>6, <2>1, HandedTake DEF Loop, Woken, Take, Handed
  <2>3. Where' = Where
    BY <1>6 DEF Loop, Woken, Where
  <2> QED BY <2>2, <2>3 DEF Dedicated!dvars
<1>7. CASE UNCHANGED <<batch, pending, state, thread>>
  BY <1>7 DEF Dedicated!dvars, Where, Handed
<1>8. CASE Next
  <2>1. ASSUME NEW c \in Calls, CallStep(c)
        PROVE  [Dedicated!Next]_(Dedicated!dvars)
    <3>1. CASE Continue(c)
      BY <3>1, <1>7 DEF Continue
    <3> QED BY <2>1, <3>1, <1>2, <1>3, <1>5 DEF CallStep, Dedicated!Next
  <2>2. CASE SuspendNotify \/ SpuriousWakeup \/ DestructorStep
    BY <2>2, <1>7 DEF SuspendNotify, SpuriousWakeup, DestructorStep, ShutDown,
                      ShutDownNotify, Join
  <2>3. CASE WorkerStep
    <3>1. CASE BatchDone
      BY <3>1, <1>7 DEF BatchDone
    <3> QED BY <2>3, <3>1, <1>4, <1>6 DEF WorkerStep
  <2>4. ASSUME NEW t \in Threads, ApplicationStep(t)
        PROVE  [Dedicated!Next]_(Dedicated!dvars)
    <3>1. CASE Release(t)
      BY <3>1, <1>7 DEF Release
    <3> QED BY <2>4, <3>1, <1>1 DEF ApplicationStep, Dedicated!Next
  <2> QED BY <1>8, <2>1, <2>2, <2>3, <2>4 DEF Next
<1>9. CASE UNCHANGED vars
  BY <1>9, <1>7 DEF vars
<1> QED BY <1>8, <1>9

\* Coroutines are resumed on the worker once each and in the order in which
\* the creator suspended them, for any number of calls on any threads.
THEOREM QueueImplementsDedicatedWorker == Spec => InOrder
<1>1. Init => Dedicated!Init
  BY InitDedicated
<1>2. IndInv /\ IndInv' /\ [Next]_vars => [Dedicated!Next]_(Dedicated!dvars)
  BY StepDedicated
<1> QED BY <1>1, <1>2, QueueInvariance, PTL DEF Spec, InOrder, Dedicated!Spec
=============================================================================
