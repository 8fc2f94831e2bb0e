-------------------------- MODULE ValidationService --------------------------
(***************************************************************************)
(* Request::validate called by several threads: one visitor for all the    *)
(* queries of the service behind a mutex, and in each query a flag that    *)
(* says that it needs no validation any more.  The flag is read before the *)
(* mutex is taken.                                                         *)
(***************************************************************************)
EXTENDS Naturals, FiniteSets

CONSTANTS
  Threads, Nobody, NoQuery,
  Queries(_),        \* the queries a thread may validate
  MaxCalls,          \* calls of each thread
  NewValidator,      \* a visitor that has just been constructed
  VisitQuery(_, _),  \* the visitor after visit(query)
  ErrorsIn(_),       \* what getStructuredErrors returns ...
  Collected(_),      \* ... and the visitor it leaves
  AsNew(_)           \* a visitor in which no query has left anything that matters

ASSUME NobodyAssumption == Nobody \notin Threads

VARIABLES
  pc,         \* thread -> "idle", "locking", "visited", "collected", "returned"
  query,      \* thread -> the query of its last call
  errors,     \* thread -> the errors it collected
  mutex,      \* the thread in the critical section, or Nobody
  validation, \* the visitor
  validated,  \* the queries whose flag is set
  calls       \* thread -> number of calls made, bounds the behaviours

vars == <<pc, query, errors, mutex, validation, validated, calls>>

AllQueries == UNION {Queries(t) : t \in Threads}
ErrorsAfresh(q) == ErrorsIn(VisitQuery(NewValidator, q))
NoErrors == <<>>

Init ==
  /\ pc = [t \in Threads |-> "idle"]
  /\ query = [t \in Threads |-> NoQuery]
  /\ errors = [t \in Threads |-> NoErrors]
  /\ mutex = Nobody
  /\ validation = NewValidator
  /\ validated = {}
  /\ calls = [t \in Threads |-> 0]

Call(t, q) ==
  /\ pc[t] \in {"idle", "returned"}
  /\ calls[t] < MaxCalls
  /\ calls' = [calls EXCEPT ![t] = @ + 1]
  /\ query' = [query EXCEPT ![t] = q]
  /\ errors' = [errors EXCEPT ![t] = NoErrors]
  /\ pc' = [pc EXCEPT ![t] = IF q \in validated THEN "returned" ELSE "locking"]
  /\ UNCHANGED <<mutex, validation, validated>>

LockAndVisit(t) ==
  /\ pc[t] = "locking"
  /\ mutex = Nobody
  /\ mutex' = t
  /\ validation' = VisitQuery(validation, query[t])
  /\ pc' = [pc EXCEPT ![t] = "visited"]
  /\ UNCHANGED <<query, errors, validated, calls>>

Collect(t) ==
  /\ pc[t] = "visited"
  /\ errors' = [errors EXCEPT ![t] = ErrorsIn(validation)]
  /\ validation' = Collected(validation)
  /\ pc' = [pc EXCEPT ![t] = "collected"]
  /\ UNCHANGED <<query, mutex, validated, calls>>

MarkAndUnlockAlways(t) ==
  /\ pc[t] = "collected"
  /\ validated' = validated \cup {query[t]}
  /\ mutex' = Nobody
  /\ pc' = [pc EXCEPT ![t] = "returned"]
  /\ UNCHANGED <<query, errors, validation, calls>>

\* query.validated = errors.empty() also takes the flag back, from a query
\* that another thread has validated in the meantime.
MarkAndUnlock(t) ==
  /\ pc[t] = "collected"
  /\ validated' = IF errors[t] = NoErrors THEN validated \cup {query[t]} ELSE validated \ {query[t]}
  /\ mutex' = Nobody
  /\ pc' = [pc EXCEPT ![t] = "returned"]
  /\ UNCHANGED <<query, errors, validation, calls>>

Next ==
  \E t \in Threads :
    \/ \E q \in Queries(t) : Call(t, q)
    \/ LockAndVisit(t) \/ Collect(t) \/ MarkAndUnlock(t)

Spec == Init /\ [][Next]_vars
-----------------------------------------------------------------------------
TypeOK ==
  /\ pc \in [Threads -> {"idle", "locking", "visited", "collected", "returned"}]
  /\ query \in [Threads -> AllQueries \cup {NoQuery}]
  /\ DOMAIN errors = Threads
  /\ mutex \in Threads \cup {Nobody}
  /\ validated \subseteq AllQueries
  /\ calls \in [Threads -> Nat]

\* A call returns the errors that a validator of its own would have found,
\* however many queries the service has validated before and whichever
\* thread validates at the same time (Request::validate, ValidateExecutableVisitor).
AnswersAsFresh ==
  \A t \in Threads : pc[t] = "returned" => errors[t] = ErrorsAfresh(query[t])

\* A query is marked as validated only when it has no errors, so that one
\* with errors can never skip its validation (Request::validate).
MarkedQueriesAreValid == \A q \in validated : ErrorsAfresh(q) = NoErrors

-----------------------------------------------------------------------------
(* The inductive invariant.  It holds for every schema and every visitor   *)
(* that is as new once the errors of a query are collected.                *)

Restored ==
  /\ AsNew(NewValidator)
  /\ \A v : AsNew(v) =>
       \A q \in AllQueries : /\ ErrorsIn(VisitQuery(v, q)) = ErrorsAfresh(q)
                             /\ AsNew(Collected(VisitQuery(v, q)))

MutexHeld == \A t \in Threads : pc[t] \in {"visited", "collected"} <=> mutex = t
CalledForQueries == \A t \in Threads : pc[t] # "idle" => query[t] \in AllQueries
ValidationAsNew ==
  /\ mutex = Nobody => AsNew(validation)
  /\ \A t \in Threads :
       /\ pc[t] = "visited" => /\ ErrorsIn(validation) = ErrorsAfresh(query[t])
                               /\ AsNew(Collected(validation))
       /\ pc[t] = "collected" => /\ AsNew(validation)
                                 /\ errors[t] = ErrorsAfresh(query[t])

\* Between two queries the shared visitor is as good as new, and while one
\* thread validates it holds that thread's query alone (Request::validate).
IndInv ==
  /\ TypeOK /\ MutexHeld /\ CalledForQueries /\ ValidationAsNew
  /\ AnswersAsFresh /\ MarkedQueriesAreValid
=============================================================================
