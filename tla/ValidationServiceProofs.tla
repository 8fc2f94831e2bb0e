----------------------- MODULE ValidationServiceProofs -----------------------
(***************************************************************************)
(* If collecting the errors of a query leaves the visitor as it was        *)
(* constructed, then every call of every thread answers as a validator of  *)
(* its own would, for any number of threads, queries and calls and any     *)
(* rules.  The visitor of the code restores itself except after an         *)
(* operation of a type that the schema does not support.                   *)
(***************************************************************************)
EXTENDS ValidationService, TLAPS

\* A new service has a new visitor and no marks.
LEMMA InitIndInv == Restored /\ Init => IndInv
  BY NobodyAssumption
  DEF Init, Restored, IndInv, TypeOK, MutexHeld, CalledForQueries, ValidationAsNew, AnswersAsFresh,
      MarkedQueriesAreValid

\* Call reads the flag without the mutex, and takes only a mark of a query
\* without errors for an answer.
LEMMA CallInv ==
  ASSUME IndInv, NEW t \in Threads, NEW q \in Queries(t), Call(t, q)
  PROVE  IndInv'
<1>1. q \in AllQueries
  BY DEF AllQueries
<1>2. TypeOK'
  BY <1>1 DEF IndInv, TypeOK, Call
<1>3. pc[t] \notin {"visited", "collected"} /\ pc'[t] \notin {"visited", "collected"}
  BY DEF IndInv, TypeOK, Call
<1>4. \A u \in Threads \ {t} : pc'[u] = pc[u] /\ query'[u] = query[u] /\ errors'[u] = errors[u]
  BY DEF IndInv, TypeOK, Call
<1>5. MutexHeld'
  BY <1>3, <1>4 DEF IndInv, MutexHeld, Call
<1>6. CalledForQueries'
  BY <1>1, <1>4 DEF IndInv, TypeOK, CalledForQueries, Call
<1>7. ValidationAsNew'
  BY <1>3, <1>4 DEF IndInv, ValidationAsNew, Call
<1>8. AnswersAsFresh'
  <2> SUFFICES ASSUME NEW u \in Threads, pc'[u] = "returned"
               PROVE  errors'[u] = ErrorsAfresh(query'[u])
    BY DEF AnswersAsFresh, ErrorsAfresh
  <2>1. CASE u = t
    <3>1. q \in validated /\ query'[t] = q /\ errors'[t] = NoErrors
      BY <2>1 DEF IndInv, TypeOK, Call
    <3> QED  BY <2>1, <3>1 DEF IndInv, MarkedQueriesAreValid
  <2>2. CASE u # t
    BY <2>2, <1>4 DEF IndInv, AnswersAsFresh
  <2> QED  BY <2>1, <2>2
<1>9. MarkedQueriesAreValid'
  BY DEF IndInv, MarkedQueriesAreValid, ErrorsAfresh, Call
<1> QED  BY <1>2, <1>5, <1>6, <1>7, <1>8, <1>9 DEF IndInv

\* The thread that takes the mutex finds the visitor as new.
LEMMA LockAndVisitInv ==
  ASSUME Restored, IndInv, NEW t \in Threads, LockAndVisit(t)
  PROVE  IndInv'
<1>1. TypeOK'
  BY DEF IndInv, TypeOK, LockAndVisit
<1>2. \A u \in Threads : pc[u] \notin {"visited", "collected"}
  BY NobodyAssumption DEF IndInv, MutexHeld, LockAndVisit
<1>3. pc'[t] = "visited" /\ \A u \in Threads \ {t} : pc'[u] = pc[u]
  BY DEF IndInv, TypeOK, LockAndVisit
<1>4. MutexHeld'
  BY <1>2, <1>3 DEF MutexHeld, LockAndVisit
<1>5. CalledForQueries'
  BY <1>3 DEF IndInv, CalledForQueries, LockAndVisit
<1>6. ValidationAsNew'
  <2>1. AsNew(validation) /\ query[t] \in AllQueries
    BY DEF IndInv, ValidationAsNew, CalledForQueries, LockAndVisit
  <2>2. ErrorsIn(validation') = ErrorsAfresh(query[t]) /\ AsNew(Collected(validation'))
    BY <2>1 DEF Restored, LockAndVisit
  <2> QED  BY <1>2, <1>3, <2>2, NobodyAssumption DEF ValidationAsNew, ErrorsAfresh, LockAndVisit
<1>7. AnswersAsFresh'
  BY <1>3 DEF IndInv, AnswersAsFresh, ErrorsAfresh, LockAndVisit
<1>8. MarkedQueriesAreValid'
  BY DEF IndInv, MarkedQueriesAreValid, ErrorsAfresh, LockAndVisit
<1> QED  BY <1>1, <1>4, <1>5, <1>6, <1>7, <1>8 DEF IndInv

\* Collecting gives the thread its own errors and leaves the visitor as new.
LEMMA CollectInv ==
  ASSUME IndInv, NEW t \in Threads, Collect(t)
  PROVE  IndInv'
<1>1. TypeOK'
  BY DEF IndInv, TypeOK, Collect
<1>2. pc'[t] = "collected" /\ mutex = t /\ \A u \in Threads \ {t} : pc'[u] = pc[u]
  BY DEF IndInv, TypeOK, MutexHeld, Collect
<1>3. \A u \in Threads \ {t} : pc[u] \notin {"visited", "collected"} /\ errors'[u] = errors[u]
  BY <1>2 DEF IndInv, TypeOK, MutexHeld, Collect
<1>4. ErrorsIn(validation) = ErrorsAfresh(query[t]) /\ AsNew(Collected(validation))
  BY DEF IndInv, ValidationAsNew, Collect
<1>5. AsNew(validation') /\ errors'[t] = ErrorsAfresh(query[t])
  BY <1>4 DEF IndInv, TypeOK, Collect
<1>6. MutexHeld'
  BY <1>2, <1>3 DEF MutexHeld, Collect
<1>7. CalledForQueries'
  BY <1>2 DEF IndInv, CalledForQueries, Collect
<1>8. ValidationAsNew'
  BY <1>2, <1>3, <1>5 DEF ValidationAsNew, ErrorsAfresh, Collect
<1>9. AnswersAsFresh'
  BY <1>2, <1>3 DEF IndInv, AnswersAsFresh, ErrorsAfresh, Collect
<1>10. MarkedQueriesAreValid'
  BY DEF IndInv, MarkedQueriesAreValid, ErrorsAfresh, Collect
<1> QED  BY <1>1, <1>6, <1>7, <1>8, <1>9, <1>10 DEF IndInv

\* The mark that is set is that of a query which had no errors.
LEMMA MarkAndUnlockInv ==
  ASSUME IndInv, NEW t \in Threads, MarkAndUnlock(t)
  PROVE  IndInv'
<1>1. query[t] \in AllQueries /\ AsNew(validation) /\ errors[t] = ErrorsAfresh(query[t])
  BY DEF IndInv, CalledForQueries, ValidationAsNew, MarkAndUnlock
<1>2. TypeOK'
  BY <1>1 DEF IndInv, TypeOK, MarkAndUnlock
<1>3. pc'[t] = "returned" /\ mutex = t /\ \A u \in Threads \ {t} : pc'[u] = pc[u]
  BY DEF IndInv, TypeOK, MutexHeld, MarkAndUnlock
<1>4. MutexHeld'
  BY <1>3, NobodyAssumption DEF IndInv, MutexHeld, MarkAndUnlock
<1>5. CalledForQueries'
  BY <1>1, <1>3 DEF IndInv, CalledForQueries, MarkAndUnlock
<1>6. \A u \in Threads : pc'[u] \notin {"visited", "collected"}
  BY <1>3 DEF IndInv, MutexHeld
<1>7. ValidationAsNew'
  BY <1>1, <1>6 DEF ValidationAsNew, MarkAndUnlock
<1>8. AnswersAsFresh'
  BY <1>1, <1>3 DEF IndInv, AnswersAsFresh, ErrorsAfresh, MarkAndUnlock
<1>9. MarkedQueriesAreValid'
  BY <1>1 DEF IndInv, MarkedQueriesAreValid, ErrorsAfresh, MarkAndUnlock
<1> QED  BY <1>2, <1>4, <1>5, <1>7, <1>8, <1>9 DEF IndInv

LEMMA NextIndInv == Restored /\ IndInv /\ [Next]_vars => IndInv'
<1> SUFFICES ASSUME Restored, IndInv, [Next]_vars  PROVE IndInv'
  OBVIOUS
<1>1. ASSUME NEW t \in Threads, NEW q \in Queries(t), Call(t, q)  PROVE IndInv'
  BY <1>1, CallInv
<1>2. ASSUME NEW t \in Threads, LockAndVisit(t)  PROVE IndInv'
  BY <1>2, LockAndVisitInv
<1>3. ASSUME NEW t \in Threads, Collect(t)  PROVE IndInv'
  BY <1>3, CollectInv
<1>4. ASSUME NEW t \in Threads, MarkAndUnlock(t)  PROVE IndInv'
  BY <1>4, MarkAndUnlockInv
<1>5. CASE UNCHANGED vars
  BY <1>5 DEF vars, IndInv, TypeOK, MutexHeld, CalledForQueries, ValidationAsNew, AnswersAsFresh,
              MarkedQueriesAreValid, ErrorsAfresh
<1> QED  BY <1>1, <1>2, <1>3, <1>4, <1>5 DEF Next

\* The inductive invariant holds throughout (Request::validate).
THEOREM Invariant == Restored => (Spec => []IndInv)
<1> SUFFICES ASSUME Restored  PROVE Spec => []IndInv
  OBVIOUS
<1>1. IndInv /\ [Next]_vars => IndInv'
  BY NextIndInv
<1>2. Init => IndInv
  BY InitIndInv
<1> QED  BY <1>1, <1>2, PTL DEF Spec

\* Every call answers as a validator of its own would.
THEOREM AnswersAsFreshAlways == Restored => (Spec => []AnswersAsFresh)
<1> SUFFICES ASSUME Restored  PROVE Spec => []AnswersAsFresh
  OBVIOUS
<1>1. Spec => []IndInv
  BY Invariant
<1>2. IndInv => AnswersAsFresh
  BY DEF IndInv
<1> QED  BY <1>1, <1>2, PTL

\* A query with errors is never marked as validated.
THEOREM MarksAlwaysValid == Restored => (Spec => []MarkedQueriesAreValid)
<1> SUFFICES ASSUME Restored  PROVE Spec => []MarkedQueriesAreValid
  OBVIOUS
<1>1. Spec => []IndInv
  BY Invariant
<1>2. IndInv => MarkedQueriesAreValid
  BY DEF IndInv
<1> QED  BY <1>1, <1>2, PTL
=============================================================================
