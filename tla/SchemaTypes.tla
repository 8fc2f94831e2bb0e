----------------------------- MODULE SchemaTypes -----------------------------
(***************************************************************************)
(* Schema::WrapType: the list and non-null types of a schema are made when *)
(* they are first asked for, maybe by several threads, and kept in a       *)
(* sorted_map from the types they wrap, one map and one shared_mutex for   *)
(* each of the two kinds.  Fields refer to them with weak pointers.        *)
(*                                                                         *)
(* A call looks for the wrapper while it shares the mutex.  If there is    *)
(* none it gives the mutex back, takes it alone and emplaces a new one.    *)
(* Either way it keeps the mutex until it has read the wrapper from its    *)
(* iterator, which is a place in a vector.                                 *)
(***************************************************************************)
EXTENDS Naturals, SequencesExt

CONSTANTS
  Threads, Nobody,
  Addresses,       \* of types, by which the maps are sorted
  NamedTypes,      \* the types that were added to the schema by name
  MaxCalls         \* how many calls are made in all

ASSUME Numbers == Addresses \subseteq Nat /\ NamedTypes \subseteq Addresses /\ MaxCalls \in Nat
ASSUME NobodyIsNoThread == Nobody \notin Threads

Kinds == {"LIST", "NON_NULL"}
Requests == [kind : Kinds, ofType : Addresses]
Pairs == [ofType : Addresses, wrapper : Addresses]

VARIABLES
  wrappers,    \* _listWrappers and _nonNullWrappers, vectors of pairs
  readers,     \* by kind, the threads that share its mutex
  writer,      \* by kind, the thread that has it alone
  pc,
  asked,       \* the last call of each thread
  itr,         \* and the index its iterator refers to
  returned,    \* what the calls returned
  calls

wrapVars == <<wrappers, readers, writer, pc, asked, itr, returned, calls>>

Kept == UNION {{wrappers[kind][i].wrapper : i \in DOMAIN wrappers[kind]} : kind \in Kinds}
Live == NamedTypes \cup Kept

\* sorted_map's binary search, which SortedMap is about.
Found(request) ==
  {i \in DOMAIN wrappers[request.kind] : wrappers[request.kind][i].ofType = request.ofType}
\* The end of the entries with smaller keys.
Places(request) ==
  LET entries == wrappers[request.kind]
  IN  {n \in 1..(Len(entries) + 1) : \A i \in DOMAIN entries : i < n <=> entries[i].ofType < request.ofType}

Goto(t, place) == pc' = [pc EXCEPT ![t] = place]
Share(t) == readers' = [readers EXCEPT ![asked[t].kind] = @ \cup {t}]
Unshare(t) == readers' = [readers EXCEPT ![asked[t].kind] = @ \ {t}]

-----------------------------------------------------------------------------
WrapInit ==
  /\ wrappers = [kind \in Kinds |-> <<>>]
  /\ readers = [kind \in Kinds |-> {}]
  /\ writer = [kind \in Kinds |-> Nobody]
  /\ pc = [t \in Threads |-> "idle"]
  /\ asked \in [Threads -> {[kind |-> "LIST", ofType |-> a] : a \in NamedTypes}]
  /\ itr = [t \in Threads |-> 0]
  /\ returned = {}
  /\ calls = 0

\* Types that were added, or returned by an earlier call, are wrapped.
Call(t, request) ==
  /\ pc[t] = "idle" /\ calls < MaxCalls
  /\ request.ofType \in Live
  /\ asked' = [asked EXCEPT ![t] = request]
  /\ calls' = calls + 1
  /\ Goto(t, "sharing")
  /\ UNCHANGED <<wrappers, readers, writer, itr, returned>>

\* Mutant of LookUp: the mutex is shared for the search only.
LookUpOnly(t) ==
  /\ pc[t] = "sharing" /\ writer[asked[t].kind] = Nobody
  /\ \/ \E i \in Found(asked[t]) : itr' = [itr EXCEPT ![t] = i] /\ Goto(t, "found")
     \/ Found(asked[t]) = {} /\ Goto(t, "missing") /\ UNCHANGED itr
  /\ UNCHANGED <<wrappers, readers, writer, asked, returned, calls>>

LookUp(t) ==
  /\ pc[t] = "sharing" /\ writer[asked[t].kind] = Nobody
  /\ Share(t)
  /\ \/ \E i \in Found(asked[t]) : itr' = [itr EXCEPT ![t] = i] /\ Goto(t, "found")
     \/ Found(asked[t]) = {} /\ Goto(t, "missing") /\ UNCHANGED itr
  /\ UNCHANGED <<wrappers, writer, asked, returned, calls>>

\* Mutant of GiveBack: the shared lock is kept while waiting for the other.
KeepSharing(t) ==
  /\ pc[t] = "missing" /\ Goto(t, "locking")
  /\ UNCHANGED <<wrappers, readers, writer, asked, itr, returned, calls>>

\* Trade the shared_lock for a unique_lock.
GiveBack(t) ==
  /\ pc[t] = "missing"
  /\ Unshare(t)
  /\ Goto(t, "locking")
  /\ UNCHANGED <<wrappers, writer, asked, itr, returned, calls>>

MakeAndAssign(t) ==
  /\ pc[t] = "locking"
  /\ readers[asked[t].kind] = {} /\ writer[asked[t].kind] = Nobody
  /\ writer' = [writer EXCEPT ![asked[t].kind] = t]
  /\ \E a \in Addresses \ Live :
       \/ \E i \in Found(asked[t]) : /\ itr' = [itr EXCEPT ![t] = i]
                                     /\ wrappers' = [wrappers EXCEPT ![asked[t].kind][i].wrapper = a]
       \/ /\ Found(asked[t]) = {}
          /\ \E n \in Places(asked[t]) :
               /\ itr' = [itr EXCEPT ![t] = n]
               /\ wrappers' = [wrappers EXCEPT ![asked[t].kind] =
                                 InsertAt(@, n, [ofType |-> asked[t].ofType, wrapper |-> a])]
  /\ Goto(t, "found")
  /\ UNCHANGED <<readers, asked, returned, calls>>

\* The new wrapper is dropped if another thread was faster.
MakeAndEmplace(t) ==
  /\ pc[t] = "locking"
  /\ readers[asked[t].kind] = {} /\ writer[asked[t].kind] = Nobody
  /\ writer' = [writer EXCEPT ![asked[t].kind] = t]
  /\ \E a \in Addresses \ Live :
       \/ \E i \in Found(asked[t]) : itr' = [itr EXCEPT ![t] = i] /\ UNCHANGED wrappers
       \/ /\ Found(asked[t]) = {}
          /\ \E n \in Places(asked[t]) :
               /\ itr' = [itr EXCEPT ![t] = n]
               /\ wrappers' = [wrappers EXCEPT ![asked[t].kind] =
                                 InsertAt(@, n, [ofType |-> asked[t].ofType, wrapper |-> a])]
  /\ Goto(t, "found")
  /\ UNCHANGED <<readers, asked, returned, calls>>

\* The iterator is read before the lock is released.
Return(t) ==
  /\ pc[t] = "found"
  /\ returned' = returned \cup
       {[kind |-> asked[t].kind, ofType |-> asked[t].ofType,
         wrapper |-> wrappers[asked[t].kind][itr[t]].wrapper]}
  /\ Unshare(t)
  /\ writer' = [writer EXCEPT ![asked[t].kind] = IF @ = t THEN Nobody ELSE @]
  /\ Goto(t, "idle")
  /\ UNCHANGED <<wrappers, asked, itr, calls>>

GoOn(t) == LookUp(t) \/ GiveBack(t) \/ MakeAndEmplace(t) \/ Return(t)

WrapNext == \E t \in Threads : GoOn(t) \/ \E request \in Requests : Call(t, request)

WrapSpec == WrapInit /\ [][WrapNext]_wrapVars

\* Threads are scheduled, and no call holds a mutex for ever.
WrapFairness == \A t \in Threads : WF_wrapVars(GoOn(t))

-----------------------------------------------------------------------------
\* The types of the variables; and a mutex has one writer or some readers.
WrapTypeOK ==
  /\ wrappers \in [Kinds -> Seq(Pairs)]
  /\ readers \in [Kinds -> SUBSET Threads]
  /\ writer \in [Kinds -> Threads \cup {Nobody}]
  /\ pc \in [Threads -> {"idle", "sharing", "missing", "locking", "found"}]
  /\ asked \in [Threads -> Requests]
  /\ itr \in [Threads -> Nat]
  /\ returned \subseteq [kind : Kinds, ofType : Addresses, wrapper : Addresses]
  /\ calls \in Nat

\* Whoever asks for the same wrapper of the same type gets the same one, and
\* two types or kinds never share one (WrapType).
OneWrapperEach ==
  \A r, s \in returned : r.wrapper = s.wrapper <=> r.kind = s.kind /\ r.ofType = s.ofType

\* A wrapper that was returned is the schema's, so that the weak pointers of
\* the fields to it never expire (WrapType, Field and InputValue).
WrappersAreKept ==
  \A r \in returned :
    \E i \in DOMAIN wrappers[r.kind] :
       wrappers[r.kind][i] = [ofType |-> r.ofType, wrapper |-> r.wrapper]

\* Every call returns (WrapType).
WrapsInTheEnd == \A t \in Threads : pc[t] = "sharing" ~> pc[t] = "idle"

-----------------------------------------------------------------------------
(* The inductive invariant                                                 *)

Mutexes ==
  /\ \A kind \in Kinds : writer[kind] = Nobody \/ readers[kind] = {}
  /\ \A t \in Threads : pc[t] = "found" => t \in readers[asked[t].kind] \/ writer[asked[t].kind] = t

\* An iterator stays good while its thread has the mutex.
IteratorsAreValid ==
  \A t \in Threads : pc[t] = "found" =>
     /\ itr[t] \in DOMAIN wrappers[asked[t].kind]
     /\ wrappers[asked[t].kind][itr[t]].ofType = asked[t].ofType

\* No type has two wrappers of a kind, no wrapper is that of two types.
Distinct ==
  \A kind, other \in Kinds : \A i \in DOMAIN wrappers[kind], j \in DOMAIN wrappers[other] :
     wrappers[kind][i].ofType = wrappers[other][j].ofType /\ kind = other
       <=> wrappers[kind][i].wrapper = wrappers[other][j].wrapper

WrapIndInv == WrapTypeOK /\ Mutexes /\ IteratorsAreValid /\ Distinct /\ WrappersAreKept
=============================================================================
