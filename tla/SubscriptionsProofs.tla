------------------------ MODULE SubscriptionsProofs ------------------------
(***************************************************************************)
(* Proofs about the subscription registry, for any number of calls.        *)
(***************************************************************************)
EXTENDS Subscriptions, WellFoundedInduction, TLAPS

\* A step that changes neither the registry nor who holds the mutex, and moves
\* no call into or out of the middle of a change.
Quiet ==
    /\ UNCHANGED <<registry, lock, key>>
    /\ \A c \in Calls :
        /\ pc'[c] = "listed" <=> pc[c] = "listed"
        /\ pc'[c] = "unlisted" <=> pc[c] = "unlisted"
    /\ \A u \in Unsubscribes : pc[u] = "unlisted" => target'[u] = target[u]
    /\ \A s \in Subscribes :
        pc[s] \in {"notifying", "active", "failed"} /\ Registered(s) =>
            pc'[s] \in {"notifying", "active", "failed"}
    /\ \A s \in Subscribes : pc[s] # "idle" => pc'[s] # "idle"
    /\ \A d \in Delivers : \A k \in DOMAIN todo'[d] :
        \/ k \in DOMAIN todo[d] /\ todo'[d][k] = todo[d][k]
        \/ k \in DOMAIN subscriptions /\ todo'[d][k] = subscriptions[k]

\* A quiet step preserves what relates the registry to the calls.
LEMMA QuietStep ==
    ASSUME IndInv, Quiet
    PROVE  LockInv' /\ KeysFresh' /\ OwnerInv' /\ IndexInv' /\ HalfWayInv' /\ TodoInv'
<1> USE DEF Quiet, registry
<1>0. /\ \A c \in Registrars : pc[c] = "unlisted" => KeyOf(c)' = KeyOf(c)
      /\ Registrars \subseteq Calls /\ Subscribes \subseteq Calls
      /\ Unsubscribes \subseteq Calls
  BY DEF KeyOf, Registrars, Calls
<1>1. LockInv'
  BY DEF IndInv, LockInv, Holding
<1>2. KeysFresh'
  BY DEF IndInv, KeysFresh
<1>3. OwnerInv'
  BY <1>0 DEF IndInv, OwnerInv, TypeOK, Registered
<1>4. IndexInv'
  BY <1>0 DEF IndInv, IndexInv, Listening
<1>5. HalfWayInv'
  BY <1>0 DEF IndInv, HalfWayInv
<1>6. TodoInv'
  BY DEF IndInv, TodoInv, OwnerInv, TypeOK
<1> QED BY <1>1, <1>2, <1>3, <1>4, <1>5, <1>6

-----------------------------------------------------------------------------
(* The steps of a call that does not change the registry                   *)

LEMMA DistinctCalls ==
    /\ Subscribes \subseteq Registrars /\ Unsubscribes \subseteq Registrars
    /\ Registrars \subseteq Calls /\ Delivers \subseteq Calls
    /\ Subscribes \cap Unsubscribes = {}
    /\ Subscribes \cap Delivers = {} /\ Unsubscribes \cap Delivers = {}
    /\ Registrars \cap Delivers = {}
    /\ NoCall \notin Calls
BY CallsDistinct DEF Registrars, Calls

\* Subscribe calls that are rejected, get their key, or fail.
LEMMA SubscribeQuiet ==
    ASSUME IndInv, NEW s \in Subscribes,
           Reject(s) \/ SubscribeReturns(s) \/ SubscribeFails(s)
    PROVE  IndInv'
<1> USE DistinctCalls DEF Reject, SubscribeReturns, SubscribeFails, Goto, registry
<1>1. TypeOK'
  BY DEF IndInv, TypeOK, States, Finished
<1>2. Quiet
  BY DEF Quiet, IndInv, TypeOK, OwnerInv, Registered
<1>3. TargetInv'
  BY DEF IndInv, TypeOK, TargetInv
<1>4. RegisteredUntilAsked'
  BY DEF IndInv, TypeOK, RegisteredUntilAsked, Finished
<1>5. UnsubscribedNotLeft'
  BY DEF IndInv, TypeOK, UnsubscribedNotLeft, Registered
<1> QED BY <1>1, <1>2, <1>3, <1>4, <1>5, QuietStep DEF IndInv

\* Unsubscribe calls, by a client or by a subscription callback.
LEMMA UnsubscribeMade ==
    ASSUME IndInv, NEW u \in Unsubscribes, UnsubscribeCall(u)
    PROVE  IndInv'
<1> USE DistinctCalls
<1>1. PICK s \in Subscribes : Unsubscribe(u, s)
  <2>1. CASE \E s \in Subscribes : ClientUnsubscribes(u, s)
    BY <2>1 DEF ClientUnsubscribes
  <2>2. CASE \E d \in Delivers : CallbackUnsubscribes(d, u)
    BY <2>2 DEF CallbackUnsubscribes, IndInv, TypeOK
  <2> QED BY <2>1, <2>2 DEF UnsubscribeCall
<1>2. /\ UNCHANGED <<registry, lock, key, errors, request, todo>>
      /\ waitsFor' \in [Delivers -> Unsubscribes \cup {NoCall}]
  BY DEF UnsubscribeCall, ClientUnsubscribes, CallbackUnsubscribes, IndInv, TypeOK
<1> USE <1>1, <1>2 DEF Unsubscribe, Goto, registry
<1>3. TypeOK'
  BY DEF IndInv, TypeOK, States
<1>4. Quiet
  BY DEF Quiet, IndInv, TypeOK
<1>5. TargetInv'
  BY DEF IndInv, TypeOK, TargetInv, MayUnsubscribe
<1>6. RegisteredUntilAsked'
  BY DEF IndInv, TypeOK, RegisteredUntilAsked, Finished, TargetInv, MayUnsubscribe
<1>7. UnsubscribedNotLeft'
  BY DEF IndInv, TypeOK, UnsubscribedNotLeft, Registered, TargetInv
<1> QED BY <1>3, <1>4, <1>5, <1>6, <1>7, QuietStep DEF IndInv

\* Unsubscribe calls up to the removal.
LEMMA UnsubscribeQuiet ==
    ASSUME IndInv, NEW u \in Unsubscribes, UnsubscribeStep(u)
    PROVE  IndInv'
<1> USE DistinctCalls DEF UnsubscribeStep, Lookup, SkipNotify, UnsubscribeNotified,
        UnsubscribeThrows, Goto, registry
<1>1. TypeOK'
  BY DEF IndInv, TypeOK, States, Finished
<1>2. Quiet
  BY DEF Quiet, IndInv, TypeOK
<1>3. TargetInv'
  BY DEF IndInv, TypeOK, TargetInv
<1>4. RegisteredUntilAsked'
  BY DEF IndInv, TypeOK, RegisteredUntilAsked, Finished
<1>5. UnsubscribedNotLeft'
  BY DEF IndInv, TypeOK, UnsubscribedNotLeft, Registered
<1> QED BY <1>1, <1>2, <1>3, <1>4, <1>5, QuietStep DEF IndInv

\* A removal that finds no registration under its key.
LEMMA RemoveNothingQuiet ==
    ASSUME IndInv, NEW c \in Registrars, RemoveNothing(c)
    PROVE  IndInv'
<1> USE DistinctCalls DEF RemoveNothing, ReadyToRemove, Outcome, Goto, registry
<1>1. TypeOK'
  BY DEF IndInv, TypeOK, States, Finished
<1>2. Quiet
  BY DEF Quiet, IndInv, TypeOK, OwnerInv, Registered, KeyOf, Registrars
<1>3. TargetInv'
  BY DEF IndInv, TypeOK, TargetInv, Registrars
<1>4. RegisteredUntilAsked'
  BY DEF IndInv, TypeOK, RegisteredUntilAsked, Finished, Registrars
<1>5. UnsubscribedNotLeft'
  BY DEF IndInv, TypeOK, UnsubscribedNotLeft, Registered, OwnerInv, KeyOf, Registrars
<1> QED BY <1>1, <1>2, <1>3, <1>4, <1>5, QuietStep DEF IndInv

\* Deliver calls.
LEMMA DeliverQuiet ==
    ASSUME IndInv, NEW d \in Delivers, DeliverCall(d) \/ DeliverStep(d)
    PROVE  IndInv'
<1> USE DistinctCalls
<1>1. /\ UNCHANGED <<registry, lock, key, target, errors>>
      /\ \E state \in States \ Holding : Goto(d, state)
      /\ waitsFor' \in [Delivers -> Unsubscribes \cup {NoCall}]
  BY DEF DeliverCall, MissingObject, Deliver, DeliverStep, Evaluate, CallbackReturns,
         DeliverThrows, States, Finished, Holding, IndInv, TypeOK
<1>2. /\ DOMAIN todo' = Delivers /\ DOMAIN request' = Delivers
      /\ \A e \in Delivers : \A k \in DOMAIN todo'[e] :
            \/ k \in DOMAIN todo[e] /\ todo'[e][k] = todo[e][k]
            \/ k \in DOMAIN subscriptions /\ todo'[e][k] = subscriptions[k]
  <2>1. CASE UNCHANGED <<request, todo>>
    BY <2>1 DEF IndInv, TypeOK
  <2>2. CASE CallbackReturns(d)
    BY <2>2 DEF CallbackReturns, IndInv, TypeOK
  <2>3. CASE DeliverCall(d) /\ ~MissingObject(d)
    <3>1. PICK f \in Fields, filter \in KnownFilters : Deliver(d, [field |-> f, filter |-> filter])
      BY <2>3 DEF DeliverCall
    <3> DEFINE r == [field |-> f, filter |-> filter]
    <3>2. \A c \in Registrars : pc[c] \notin Holding
      BY <3>1 DEF Deliver, IndInv, LockInv
    <3>3. Listening(f) \subseteq DOMAIN subscriptions
      BY <3>2 DEF IndInv, IndexInv, Holding
    <3>4. Collected(r) \subseteq DOMAIN subscriptions
      BY <3>3 DEF Collected
    <3> QED BY <3>1, <3>4 DEF Deliver, IndInv, TypeOK
  <2> QED BY <2>1, <2>2, <2>3 DEF DeliverCall, MissingObject, DeliverStep, Evaluate,
        DeliverThrows
<1> USE <1>1, <1>2 DEF Goto, registry
<1>3. TypeOK'
  BY DEF IndInv, TypeOK
<1>4. Quiet
  <2>1. pc[d] \notin Holding
    BY DEF IndInv, TypeOK, LockInv
  <2>2. PICK state \in States \ Holding : pc' = [pc EXCEPT ![d] = state]
    OBVIOUS
  <2>3. \A c \in Calls : c # d => pc'[c] = pc[c]
    BY <2>2 DEF IndInv, TypeOK
  <2>4. pc'[d] \notin Holding
    BY <2>2 DEF IndInv, TypeOK
  <2> QED BY <2>1, <2>3, <2>4 DEF Quiet, Holding
<1>5. TargetInv'
  BY DEF IndInv, TypeOK, TargetInv
<1>6. RegisteredUntilAsked'
  BY DEF IndInv, TypeOK, RegisteredUntilAsked, Finished
<1>7. UnsubscribedNotLeft'
  BY DEF IndInv, TypeOK, UnsubscribedNotLeft, Registered
<1> QED BY <1>3, <1>4, <1>5, <1>6, <1>7, QuietStep DEF IndInv

-----------------------------------------------------------------------------
(* The steps that change the registry, holding the mutex                   *)

\* A key is taken and listed.
LEMMA AddListenerStep ==
    ASSUME IndInv, NEW s \in Subscribes, AddListener(s)
    PROVE  IndInv'
<1> USE DistinctCalls DEF AddListener, Goto
<1>0. /\ pc[s] = "idle" /\ nextKey \in Nat
      /\ key'[s] = nextKey
      /\ \A t \in Subscribes \ {s} : key'[t] = key[t]
      /\ pc'[s] = "listed"
      /\ \A c \in Calls \ {s} : pc'[c] = pc[c]
      /\ FieldOf[s] \in Fields
  BY SubscriptionData DEF IndInv, TypeOK
<1>1. /\ DOMAIN listeners' = DOMAIN listeners \cup {FieldOf[s]}
      /\ listeners'[FieldOf[s]] = Listening(FieldOf[s]) \cup {nextKey}
      /\ \A f \in DOMAIN listeners \ {FieldOf[s]} : listeners'[f] = listeners[f]
  BY DEF Listed
<1>2. \A c \in Calls : pc[c] \notin Holding
  BY DEF IndInv, LockInv
<1>3. TypeOK'
  BY <1>0, <1>1 DEF IndInv, TypeOK, States, Listening
<1>4. LockInv'
  BY <1>0, <1>2 DEF LockInv, Holding
<1>5. KeysFresh'
  BY <1>0, <1>1 DEF IndInv, KeysFresh, TypeOK, Listening
<1>6. OwnerInv'
  BY <1>0 DEF IndInv, OwnerInv, TypeOK
<1>7. IndexInv'
  <2>1. \A f \in DOMAIN listeners' : listeners'[f] # {}
    BY <1>1 DEF IndInv, IndexInv, Listening
  <2>2. \A f \in Fields : Listening(f) =
            {k \in DOMAIN subscriptions : FieldOf[subscriptions[k]] = f}
    BY <1>2 DEF IndInv, IndexInv, Holding
  <2>3. \A c \in Registrars : pc'[c] # "unlisted"
    BY <1>0, <1>2 DEF Holding
  <2>4. {t \in Subscribes : pc'[t] = "listed"} = {s}
    BY <1>0, <1>2 DEF Holding
  <2>5. ASSUME NEW f \in Fields
        PROVE  Listening(f)' = Listening(f) \cup (IF f = FieldOf[s] THEN {nextKey} ELSE {})
    BY <1>1 DEF Listening
  <2>6. ASSUME NEW f \in Fields
        PROVE  {key'[t] : t \in {r \in Subscribes : pc'[r] = "listed" /\ FieldOf[r] = f}}
                  = IF f = FieldOf[s] THEN {nextKey} ELSE {}
    BY <1>0, <2>4
  <2> QED BY <2>1, <2>2, <2>3, <2>5, <2>6 DEF IndexInv
<1>8. HalfWayInv'
  BY <1>0, <1>2 DEF IndInv, HalfWayInv, KeysFresh, TypeOK, Holding
<1>9. TargetInv'
  BY <1>0 DEF IndInv, TypeOK, TargetInv
<1>10. RegisteredUntilAsked'
  BY <1>0 DEF IndInv, TypeOK, RegisteredUntilAsked
<1>11. UnsubscribedNotLeft'
  BY <1>0 DEF IndInv, TypeOK, UnsubscribedNotLeft, Registered
<1>12. TodoInv'
  BY <1>0 DEF IndInv, TypeOK, TodoInv
<1> QED BY <1>3, <1>4, <1>5, <1>6, <1>7, <1>8, <1>9, <1>10, <1>11, <1>12 DEF IndInv

\* Only the call that holds the mutex is half way through a change.
LEMMA OneHolder ==
    ASSUME IndInv, NEW c \in Registrars, pc[c] \in Holding
    PROVE  lock = c /\ \A b \in Calls \ {c} : pc[b] \notin Holding
BY DistinctCalls DEF IndInv, LockInv

\* The listed key gets its registration.
LEMMA AddSubscriptionStep ==
    ASSUME IndInv, NEW s \in Subscribes, AddSubscription(s)
    PROVE  IndInv'
<1> USE DistinctCalls DEF AddSubscription, Goto
<1>0. /\ pc[s] = "listed" /\ pc'[s] \in {"notifying", "active"}
      /\ \A c \in Calls \ {s} : pc'[c] = pc[c]
      /\ key[s] \in Nat /\ key[s] \notin DOMAIN subscriptions /\ key[s] < nextKey
  BY DEF IndInv, TypeOK, HalfWayInv
<1>1. /\ DOMAIN subscriptions' = DOMAIN subscriptions \cup {key[s]}
      /\ subscriptions'[key[s]] = s
      /\ \A k \in DOMAIN subscriptions : subscriptions'[k] = subscriptions[k]
  BY <1>0 DEF Emplaced
<1>2. \A c \in Calls \ {s} : pc[c] \notin Holding
  BY <1>0, OneHolder DEF Holding
<1>3. TypeOK'
  BY <1>0, <1>1 DEF IndInv, TypeOK, States
<1>4. LockInv'
  BY <1>0, <1>2 DEF LockInv, Holding
<1>5. KeysFresh'
  BY <1>0, <1>1 DEF IndInv, KeysFresh
<1>6. OwnerInv'
  BY <1>0, <1>1 DEF IndInv, OwnerInv, TypeOK
<1>7. IndexInv'
  <2>1. ASSUME NEW f \in Fields
        PROVE  Listening(f) = {k \in DOMAIN subscriptions : FieldOf[subscriptions[k]] = f}
                              \cup (IF f = FieldOf[s] THEN {key[s]} ELSE {})
    <3>1. {key[t] : t \in {r \in Subscribes : pc[r] = "listed" /\ FieldOf[r] = f}}
              = IF f = FieldOf[s] THEN {key[s]} ELSE {}
      BY <1>0, <1>2 DEF Holding
    <3>2. \A c \in Registrars : pc[c] # "unlisted"
      BY <1>0, <1>2 DEF Holding
    <3> QED BY <3>1, <3>2 DEF IndInv, IndexInv
  <2>2. \A c \in Calls : pc'[c] \notin Holding
    BY <1>0, <1>2 DEF Holding
  <2>3. ASSUME NEW f \in Fields
        PROVE  {k \in DOMAIN subscriptions' : FieldOf[subscriptions'[k]] = f} = Listening(f)
    BY <1>0, <1>1, <2>1
  <2>4. \A f \in Fields : Listening(f)' = Listening(f)
    BY DEF Listening
  <2> QED BY <2>2, <2>3, <2>4 DEF IndInv, IndexInv, Holding
<1>8. HalfWayInv'
  BY <1>0, <1>2 DEF HalfWayInv, Holding
<1>9. TargetInv'
  BY <1>0 DEF IndInv, TypeOK, TargetInv
<1>10. RegisteredUntilAsked'
  BY <1>0, <1>1 DEF IndInv, TypeOK, RegisteredUntilAsked
<1>11. UnsubscribedNotLeft'
  BY <1>0, <1>1 DEF IndInv, TypeOK, UnsubscribedNotLeft, Registered, TargetInv
<1>12. TodoInv'
  BY <1>0 DEF IndInv, TypeOK, TodoInv
<1> QED BY <1>3, <1>4, <1>5, <1>6, <1>7, <1>8, <1>9, <1>10, <1>11, <1>12 DEF IndInv

\* A registered key is taken off its field's list.
LEMMA RemoveListenerStep ==
    ASSUME IndInv, NEW c \in Registrars, RemoveListener(c)
    PROVE  IndInv'
<1> USE DistinctCalls DEF RemoveListener, ReadyToRemove, Goto
<1> DEFINE k0 == KeyOf(c)
           f0 == FieldOf[subscriptions[k0]]
<1>0. /\ pc'[c] = "unlisted" /\ pc[c] \in {"failed", "returned"}
      /\ \A b \in Calls \ {c} : pc'[b] = pc[b]
      /\ k0 \in DOMAIN subscriptions /\ f0 \in Fields
      /\ c \in Unsubscribes => pc[c] = "returned"
      /\ c \in Subscribes => pc[c] = "failed"
  BY SubscriptionData DEF IndInv, TypeOK
<1>1. \A b \in Calls : pc[b] \notin Holding
  BY DEF IndInv, LockInv
<1>2. \A b \in Registrars : KeyOf(b)' = KeyOf(b)
  BY DEF KeyOf
<1>3. /\ f0 \in DOMAIN listeners
      /\ DOMAIN listeners' \subseteq DOMAIN listeners
      /\ \A f \in DOMAIN listeners' :
            listeners'[f] = IF f = f0 THEN listeners[f] \ {k0} ELSE listeners[f]
      /\ \A f \in DOMAIN listeners \ DOMAIN listeners' :
            f = f0 /\ listeners[f] \ {k0} = {}
      /\ f0 \in DOMAIN listeners' => listeners[f0] \ {k0} # {}
  BY DEF Unlisted
<1>4. TypeOK'
  <2>1. \A f \in DOMAIN listeners' : f \in DOMAIN listeners /\ listeners'[f] \subseteq listeners[f]
    BY <1>3
  <2>2. \A f \in DOMAIN listeners' : f \in Fields /\ \A k \in listeners'[f] : k \in Nat
    BY <2>1 DEF IndInv, TypeOK
  <2>3. pc' \in [Calls -> States]
    BY DEF IndInv, TypeOK, States
  <2> QED BY <2>2, <2>3 DEF IndInv, TypeOK
<1>5. LockInv'
  BY <1>0, <1>1 DEF LockInv, Holding
<1>6. KeysFresh'
  BY <1>3 DEF IndInv, KeysFresh
<1>7. OwnerInv'
  BY <1>0 DEF IndInv, OwnerInv, TypeOK
<1>8. IndexInv'
  <2>1. \A f \in DOMAIN listeners' : listeners'[f] # {}
    BY <1>3 DEF IndInv, IndexInv
  <2>2. \A f \in Fields : Listening(f) =
            {k \in DOMAIN subscriptions : FieldOf[subscriptions[k]] = f}
    BY <1>1 DEF IndInv, IndexInv, Holding
  <2>3. \A f \in Fields : Listening(f)' = IF f = f0 THEN Listening(f) \ {k0} ELSE Listening(f)
    BY <1>3 DEF Listening
  <2>4. \A b \in Registrars : pc'[b] = "unlisted" <=> b = c
    BY <1>0, <1>1 DEF Holding
  <2>5. \A t \in Subscribes : pc'[t] # "listed"
    BY <1>0, <1>1 DEF Holding
  <2>6. ASSUME NEW f \in Fields
        PROVE  {k \in DOMAIN subscriptions :
                    /\ FieldOf[subscriptions[k]] = f
                    /\ \A b \in Registrars : pc'[b] = "unlisted" => KeyOf(b) # k}
                  = IF f = f0 THEN Listening(f) \ {k0} ELSE Listening(f)
    BY <2>2, <2>4
  <2> QED BY <1>2, <2>1, <2>3, <2>5, <2>6 DEF IndexInv
<1>9. HalfWayInv'
  BY <1>0, <1>1, <1>2 DEF HalfWayInv, Holding
<1>10. TargetInv'
  <2>1. \A t \in Subscribes : pc[t] = "active" => pc'[t] = "active"
    BY <1>0
  <2>2. \A u \in Unsubscribes : pc'[u] = "idle" <=> pc[u] = "idle"
    BY <1>0
  <2> QED BY <1>0, <2>1, <2>2 DEF IndInv, TypeOK, TargetInv
<1>11. RegisteredUntilAsked'
  BY <1>0 DEF IndInv, TypeOK, RegisteredUntilAsked, Finished, Registrars
<1>12. UnsubscribedNotLeft'
  BY <1>0 DEF IndInv, TypeOK, UnsubscribedNotLeft, Registered
<1>13. TodoInv'
  BY <1>0 DEF IndInv, TypeOK, TodoInv
<1> QED BY <1>4, <1>5, <1>6, <1>7, <1>8, <1>9, <1>10, <1>11, <1>12, <1>13 DEF IndInv

\* One past the last key in use is past every key in use.
LEMMA NextKeyFresh ==
    ASSUME NEW keys, \A k \in keys : k \in Nat, NEW n \in NextKeys(keys)
    PROVE  n \in Nat /\ \A k \in keys : k < n
BY DEF NextKeys

\* The registration of an unlisted key is dropped.
LEMMA RemoveSubscriptionStep ==
    ASSUME IndInv, NEW c \in Registrars, RemoveSubscription(c)
    PROVE  IndInv'
<1> USE DistinctCalls DEF RemoveSubscription, Goto
<1> DEFINE k0 == KeyOf(c)
<1>0. /\ pc[c] = "unlisted" /\ pc'[c] \in {"done", "threw"}
      /\ \A b \in Calls \ {c} : pc'[b] = pc[b]
      /\ k0 \in DOMAIN subscriptions
      /\ c \in Subscribes => pc'[c] = "threw"
  BY DEF IndInv, TypeOK, HalfWayInv, Outcome
<1>1. \A b \in Calls \ {c} : pc[b] \notin Holding
  BY <1>0, OneHolder DEF Holding
<1>2. \A b \in Registrars : KeyOf(b)' = KeyOf(b)
  BY DEF KeyOf
<1>3. /\ DOMAIN subscriptions' = DOMAIN subscriptions \ {k0}
      /\ \A k \in DOMAIN subscriptions \ {k0} : subscriptions'[k] = subscriptions[k]
  OBVIOUS
<1>4. nextKey' \in Nat /\ \A k \in DOMAIN subscriptions' : k < nextKey'
  BY <1>3, NextKeyFresh DEF IndInv, TypeOK
<1>5. TypeOK'
  BY <1>0, <1>3, <1>4 DEF IndInv, TypeOK, States, Finished
<1>6. LockInv'
  BY <1>0, <1>1 DEF LockInv, Holding
<1>7. \A f \in Fields : Listening(f)' =
          {k \in DOMAIN subscriptions' : FieldOf[subscriptions'[k]] = f}
  <2>1. \A b \in Registrars : pc[b] = "unlisted" <=> b = c
    BY <1>0, <1>1 DEF Holding
  <2>2. \A t \in Subscribes : pc[t] # "listed"
    BY <1>0, <1>1 DEF Holding
  <2> QED BY <1>3, <2>1, <2>2 DEF IndInv, IndexInv, Listening
<1>8. KeysFresh'
  <2>1. ASSUME NEW f \in DOMAIN listeners, NEW k \in listeners[f]
        PROVE  k < nextKey'
    <3>1. f \in Fields /\ Listening(f)' = listeners[f]
      BY DEF IndInv, TypeOK, Listening
    <3> QED BY <1>4, <1>7, <3>1
  <2> QED BY <1>4, <2>1 DEF KeysFresh
<1>9. OwnerInv'
  BY <1>0, <1>3 DEF IndInv, OwnerInv, TypeOK, KeyOf
<1>10. IndexInv'
  <2>1. \A b \in Calls : pc'[b] \notin Holding
    BY <1>0, <1>1 DEF Holding
  <2>2. \A f \in DOMAIN listeners' : listeners'[f] # {}
    BY DEF IndInv, IndexInv
  <2> QED BY <1>7, <2>1, <2>2 DEF IndexInv, Holding
<1>11. HalfWayInv'
  BY <1>0, <1>1 DEF HalfWayInv, Holding
<1>12. TargetInv'
  <2>1. \A t \in Subscribes : pc[t] = "active" => pc'[t] = "active"
    BY <1>0
  <2>2. \A u \in Unsubscribes : pc'[u] = "idle" <=> pc[u] = "idle"
    BY <1>0
  <2> QED BY <1>0, <2>1, <2>2 DEF IndInv, TypeOK, TargetInv
<1>13. RegisteredUntilAsked'
  <2> SUFFICES ASSUME UnsubscribeOnce, NEW s \in Subscribes,
                      pc'[s] \in {"notifying", "active", "failed", "unlisted"},
                      \A u \in Unsubscribes : target[u] = s => pc'[u] \notin Finished
               PROVE  key[s] \in DOMAIN subscriptions' /\ subscriptions'[key[s]] = s
    BY DEF RegisteredUntilAsked
  <2>1. s # c
    BY <1>0
  <2>2. \A u \in Unsubscribes : target[u] = s => u # c /\ pc[u] \notin Finished
    BY <1>0 DEF Finished
  <2>3. key[s] \in DOMAIN subscriptions /\ subscriptions[key[s]] = s
    BY <1>0, <2>1, <2>2 DEF IndInv, RegisteredUntilAsked
  <2>4. CASE c \in Subscribes
    BY <1>0, <1>3, <2>1, <2>3, <2>4 DEF IndInv, RegisteredUntilAsked, TargetInv, KeyOf, Finished
  <2>5. CASE c \in Unsubscribes
    <3>1. target[c] \in Subscribes /\ pc[target[c]] = "active"
      BY <1>0, <2>5 DEF IndInv, TypeOK, TargetInv
    <3>2. \A u \in Unsubscribes : target[u] = target[c] => pc[u] \notin Finished
      BY <1>0, <2>5, <3>1 DEF IndInv, TargetInv, Finished
    <3>3. subscriptions[k0] = target[c]
      BY <2>5, <3>1, <3>2 DEF IndInv, RegisteredUntilAsked, KeyOf
    <3> QED BY <1>3, <2>2, <2>3, <2>5, <3>3
  <2> QED BY <2>4, <2>5 DEF Registrars
<1>14. UnsubscribedNotLeft'
  <2> SUFFICES ASSUME NEW u \in Unsubscribes, pc'[u] = "done", Registered(target[u])'
               PROVE  FALSE
    BY DEF UnsubscribedNotLeft
  <2>1. PICK k \in DOMAIN subscriptions \ {k0} : subscriptions[k] = target[u]
    BY <1>3 DEF Registered
  <2>2. u = c
    BY <1>0, <2>1 DEF IndInv, UnsubscribedNotLeft, Registered
  <2>3. k = key[target[u]]
    BY <2>1 DEF IndInv, OwnerInv
  <2> QED BY <2>1, <2>2, <2>3 DEF KeyOf
<1>15. TodoInv'
  BY <1>0 DEF IndInv, TypeOK, TodoInv
<1> QED BY <1>5, <1>6, <1>8, <1>9, <1>10, <1>11, <1>12, <1>13, <1>14, <1>15 DEF IndInv

-----------------------------------------------------------------------------
(* The inductive invariant and what follows from it                        *)

LEMMA InitIndInv == Init => IndInv
<1> SUFFICES ASSUME Init PROVE IndInv
  OBVIOUS
<1> USE DistinctCalls DEF Init
<1>1. TypeOK
  BY DEF TypeOK, States
<1>2. LockInv /\ KeysFresh /\ OwnerInv /\ HalfWayInv
  BY DEF LockInv, Holding, KeysFresh, OwnerInv, HalfWayInv
<1>3. IndexInv
  BY DEF IndexInv, Listening
<1>4. TargetInv /\ TodoInv /\ RegisteredUntilAsked /\ UnsubscribedNotLeft
  BY DEF TargetInv, TodoInv, RegisteredUntilAsked, UnsubscribedNotLeft, Registered
<1> QED BY <1>1, <1>2, <1>3, <1>4 DEF IndInv

LEMMA NextIndInv == IndInv /\ [Next]_vars => IndInv'
<1> SUFFICES ASSUME IndInv, [Next]_vars PROVE IndInv'
  OBVIOUS
<1>1. ASSUME NEW s \in Subscribes, SubscribeCall(s) \/ SubscribeStep(s)
      PROVE  IndInv'
  BY <1>1, AddListenerStep, AddSubscriptionStep, SubscribeQuiet
     DEF SubscribeCall, SubscribeStep
<1>2. ASSUME NEW u \in Unsubscribes, UnsubscribeCall(u) \/ UnsubscribeStep(u)
      PROVE  IndInv'
  BY <1>2, UnsubscribeMade, UnsubscribeQuiet
<1>3. ASSUME NEW c \in Registrars, RemoveStep(c)
      PROVE  IndInv'
  BY <1>3, RemoveNothingQuiet, RemoveListenerStep, RemoveSubscriptionStep DEF RemoveStep
<1>4. ASSUME NEW d \in Delivers, DeliverCall(d) \/ DeliverStep(d)
      PROVE  IndInv'
  BY <1>4, DeliverQuiet
<1>5. CASE UNCHANGED vars
  <2>1. UNCHANGED <<registry, lock, key, pc, target, errors, request, todo, waitsFor>>
    BY <1>5 DEF vars, registry
  <2>2. Quiet
    BY <2>1 DEF Quiet
  <2>3. TypeOK' /\ TargetInv' /\ RegisteredUntilAsked' /\ UnsubscribedNotLeft'
    BY <2>1 DEF registry, IndInv, TypeOK, TargetInv, RegisteredUntilAsked,
                UnsubscribedNotLeft, Registered
  <2> QED BY <2>2, <2>3, QuietStep DEF IndInv
<1> QED BY <1>1, <1>2, <1>3, <1>4, <1>5 DEF Next

THEOREM Invariance == Spec => []IndInv
BY InitIndInv, NextIndInv, PTL DEF Spec

\* Every variable has its type, and no collected registration is null.
THEOREM TypeCorrect == Spec => []TypeOK
<1>1. IndInv => TypeOK
  BY DEF IndInv
<1> QED BY <1>1, Invariance, PTL

\* Whoever gets the mutex finds the listeners indexing the registrations.
THEOREM RegistryIsConsistent == Spec => []RegistryConsistent
<1>1. IndInv => RegistryConsistent
  <2> SUFFICES ASSUME IndInv, lock = NoCall PROVE RegistryConsistent
    BY DEF RegistryConsistent
  <2>1. \A c \in Registrars : pc[c] \notin Holding
    BY DistinctCalls DEF IndInv, LockInv
  <2> QED BY <2>1, DistinctCalls DEF IndInv, IndexInv, RegistryConsistent, Holding
<1> QED BY <1>1, Invariance, PTL

\* The next key is past every key in use, however keys were reused.
THEOREM KeysAreFresh == Spec => []KeysFresh
<1>1. IndInv => KeysFresh
  BY DEF IndInv
<1> QED BY <1>1, Invariance, PTL

\* A subscribe call that threw left nothing behind.
THEOREM FailedIsNotLeft == Spec => []FailedNotLeft
<1>1. IndInv => FailedNotLeft
  BY DEF IndInv, OwnerInv, FailedNotLeft, Registered
<1> QED BY <1>1, Invariance, PTL

\* After unsubscribe returned, the subscription is gone.
THEOREM UnsubscribedIsNotLeft == Spec => []UnsubscribedNotLeft
<1>1. IndInv => UnsubscribedNotLeft
  BY DEF IndInv
<1> QED BY <1>1, Invariance, PTL

\* User code never runs, and no call returns, with the mutex held.
THEOREM MutexIsReleased == Spec => []MutexReleased
<1>1. IndInv => MutexReleased
  BY DEF IndInv, LockInv, MutexReleased, Holding, Finished
<1> QED BY <1>1, Invariance, PTL

\* For clients that unsubscribe each key once: a key that was returned stays
\* its subscription's key until the subscription's own unsubscribe is done.
THEOREM RegisteredUntilItIsAsked == Spec => []RegisteredUntilAsked
<1>1. IndInv => RegisteredUntilAsked
  BY DEF IndInv
<1> QED BY <1>1, Invariance, PTL

-----------------------------------------------------------------------------
(* A deliver call that returned has nothing left to call back              *)

\* Only a deliver call itself changes what it has still to call back, and no
\* other call moves it on.
LEMMA OthersLeaveDeliver ==
    ASSUME IndInv, Next, NEW d \in Delivers,
           ~(DeliverCall(d) \/ DeliverStep(d))
    PROVE  pc'[d] = pc[d] /\ todo'[d] = todo[d]
<1> USE DistinctCalls DEF IndInv, TypeOK, Goto
<1>1. ASSUME NEW s \in Subscribes, SubscribeCall(s) \/ SubscribeStep(s)
      PROVE  pc'[d] = pc[d] /\ todo'[d] = todo[d]
  BY <1>1 DEF SubscribeCall, SubscribeStep, AddListener, Reject, AddSubscription,
       SubscribeReturns, SubscribeFails
<1>2. ASSUME NEW u \in Unsubscribes, UnsubscribeCall(u) \/ UnsubscribeStep(u)
      PROVE  pc'[d] = pc[d] /\ todo'[d] = todo[d]
  BY <1>2 DEF UnsubscribeCall, UnsubscribeStep, ClientUnsubscribes, Unsubscribe,
       CallbackUnsubscribes, Lookup, SkipNotify, UnsubscribeNotified, UnsubscribeThrows
<1>3. ASSUME NEW c \in Registrars, RemoveStep(c)
      PROVE  pc'[d] = pc[d] /\ todo'[d] = todo[d]
  BY <1>3 DEF RemoveStep, RemoveNothing, RemoveListener, RemoveSubscription
<1>4. ASSUME NEW e \in Delivers, DeliverCall(e) \/ DeliverStep(e)
      PROVE  pc'[d] = pc[d] /\ todo'[d] = todo[d]
  <2>1. e # d
    BY <1>4
  <2> DEFINE Own == \E t, state : /\ todo' = todo \/ todo' = [todo EXCEPT ![e] = t]
                                  /\ pc' = [pc EXCEPT ![e] = state]
  <2>2. Own
    <3>1. CASE MissingObject(e) \/ Evaluate(e) \/ DeliverThrows(e)
      BY ONLY <3>1 DEF MissingObject, Evaluate, DeliverThrows, Goto
    <3>2. ASSUME NEW r, Deliver(e, r)
          PROVE  Own
      BY ONLY <3>2 DEF Deliver, Goto
    <3>3. CASE CallbackReturns(e)
      BY ONLY <3>3 DEF CallbackReturns, Goto
    <3> QED BY ONLY <1>4, <3>1, <3>2, <3>3 DEF DeliverCall, DeliverStep
  <2> QED BY ONLY <2>1, <2>2, IndInv, DistinctCalls, d \in Delivers DEF IndInv, TypeOK
<1> QED BY <1>1, <1>2, <1>3, <1>4 DEF Next

-----------------------------------------------------------------------------
(* What leaves the registry                                                *)

\* The registration that goes is the one of the call that removes it.
LEMMA RemovesOwn ==
    ASSUME UnsubscribeOnce, IndInv, NEW c \in Registrars, RemoveSubscription(c)
    PROVE  subscriptions[KeyOf(c)] = IF c \in Subscribes THEN c ELSE target[c]
<1> USE DistinctCalls
<1>0. pc[c] = "unlisted"
  BY DEF RemoveSubscription
<1>1. CASE c \in Subscribes
  BY <1>0, <1>1 DEF IndInv, RegisteredUntilAsked, TargetInv, KeyOf, Finished
<1>2. CASE c \in Unsubscribes
  <2>1. target[c] \in Subscribes /\ pc[target[c]] = "active"
    BY <1>0, <1>2 DEF IndInv, TypeOK, TargetInv
  <2>2. \A u \in Unsubscribes : target[u] = target[c] => pc[u] \notin Finished
    BY <1>0, <1>2, <2>1 DEF IndInv, TargetInv, Finished
  <2> QED BY <1>2, <2>1, <2>2 DEF IndInv, RegisteredUntilAsked, KeyOf
<1> QED BY <1>1, <1>2 DEF Registrars

\* For clients that unsubscribe each key once: a registration leaves only by
\* its own failing subscribe call or an unsubscribe call made for it.
THEOREM RemovedByOwnUnsubscribe ==
    ASSUME UnsubscribeOnce PROVE Spec => RemovedByItsUnsubscribe
<1> DEFINE Step == \A s \in Subscribes :
              Registered(s) /\ ~Registered(s)' =>
                  \/ pc[s] = "unlisted"
                  \/ \E u \in Unsubscribes : target[u] = s /\ pc[u] = "unlisted"
<1>1. IndInv /\ [Next]_vars => [Step]_vars
  <2> SUFFICES ASSUME IndInv, Next, NEW s \in Subscribes, Registered(s), ~Registered(s)'
               PROVE  \/ pc[s] = "unlisted"
                      \/ \E u \in Unsubscribes : target[u] = s /\ pc[u] = "unlisted"
    OBVIOUS
  <2>1. CASE subscriptions' = subscriptions
    BY <2>1 DEF Registered
  <2>2. CASE \E t \in Subscribes : AddSubscription(t)
    BY <2>2 DEF AddSubscription, Emplaced, Registered
  <2>3. ASSUME NEW c \in Registrars, RemoveSubscription(c)
        PROVE  \/ pc[s] = "unlisted"
               \/ \E u \in Unsubscribes : target[u] = s /\ pc[u] = "unlisted"
    <3>1. subscriptions[KeyOf(c)] = s
      BY <2>3 DEF RemoveSubscription, Registered
    <3> QED BY <2>3, <3>1, RemovesOwn DEF RemoveSubscription, Registrars
  <2> QED BY <2>1, <2>2, <2>3 DEF Next, SubscribeCall, SubscribeStep, UnsubscribeCall,
       UnsubscribeStep, RemoveStep, DeliverCall, DeliverStep, AddListener, Reject,
       SubscribeReturns, SubscribeFails, ClientUnsubscribes, CallbackUnsubscribes, Lookup,
       SkipNotify, UnsubscribeNotified, UnsubscribeThrows, RemoveNothing, RemoveListener,
       MissingObject, Deliver, Evaluate, CallbackReturns, DeliverThrows, registry
<1> QED BY <1>1, Invariance, PTL DEF Spec, RemovedByItsUnsubscribe

-----------------------------------------------------------------------------
(* Nobody waits for ever                                                   *)

\* How far a deliver call may get; others run no callbacks.
DeliverStates == {"idle", "evaluating", "callback"} \cup Finished
InRole(c, state) ==
    /\ c \in Registrars => state # "callback"
    /\ c \in Delivers => state \in DeliverStates

\* A deliver call that goes on has somebody to call back, and its callback waits
\* for an unsubscribe call that was made.
CallbackInv ==
    /\ \A c \in Calls : InRole(c, pc[c])
    /\ \A d \in Delivers :
        /\ pc[d] \in {"evaluating", "callback"} => DOMAIN todo[d] # {}
        /\ waitsFor[d] # NoCall => pc[waitsFor[d]] # "idle"

\* No call is made twice, and each goes on in its own way.
LEMMA MovesInRole ==
    ASSUME IndInv, Next, NEW c \in Calls
    PROVE  pc'[c] = pc[c] \/ (pc'[c] # "idle" /\ InRole(c, pc'[c]))
<1> USE DistinctCalls
<1>1. pc \in [Calls -> States]
  BY DEF IndInv, TypeOK
<1>2. ASSUME NEW d \in Calls, NEW state, state # "idle", InRole(d, state), Goto(d, state)
      PROVE  pc'[c] = pc[c] \/ (pc'[c] # "idle" /\ InRole(c, pc'[c]))
  <2>1. pc' = [pc EXCEPT ![d] = state]
    BY <1>2 DEF Goto
  <2>2. pc'[c] = IF c = d THEN state ELSE pc[c]
    BY <1>1, <2>1
  <2> QED BY <1>2, <2>2
<1>3. ASSUME NEW r \in Registrars, NEW state \in States \ {"idle", "callback"}, Goto(r, state)
      PROVE  pc'[c] = pc[c] \/ (pc'[c] # "idle" /\ InRole(c, pc'[c]))
  BY <1>2, <1>3 DEF InRole
<1>4. ASSUME NEW s \in Subscribes, SubscribeCall(s) \/ SubscribeStep(s)
      PROVE  \E state \in States \ {"idle", "callback"} : Goto(s, state)
  BY <1>4 DEF SubscribeCall, SubscribeStep, AddListener, Reject, AddSubscription,
       SubscribeReturns, SubscribeFails, States, Finished
<1>5. ASSUME NEW u \in Unsubscribes, UnsubscribeCall(u) \/ UnsubscribeStep(u)
      PROVE  \E state \in States \ {"idle", "callback"} : Goto(u, state)
  BY <1>5 DEF UnsubscribeCall, UnsubscribeStep, ClientUnsubscribes, Unsubscribe,
       CallbackUnsubscribes, Lookup, SkipNotify, UnsubscribeNotified, UnsubscribeThrows,
       States, Finished
<1>6. ASSUME NEW r \in Registrars, RemoveStep(r)
      PROVE  \E state \in States \ {"idle", "callback"} : Goto(r, state)
  BY <1>6 DEF RemoveStep, RemoveNothing, RemoveListener, RemoveSubscription, Outcome,
       States, Finished
<1>7. ASSUME NEW d \in Delivers, DeliverCall(d) \/ DeliverStep(d)
      PROVE  \E state \in DeliverStates \ {"idle"} : Goto(d, state)
  <2>1. CASE MissingObject(d) \/ Evaluate(d) \/ DeliverThrows(d)
    BY ONLY <2>1 DEF MissingObject, Evaluate, DeliverThrows, Goto, DeliverStates, Finished
  <2>2. ASSUME NEW q, Deliver(d, q)
        PROVE  \E state \in DeliverStates \ {"idle"} : Goto(d, state)
    BY ONLY <2>2 DEF Deliver, Goto, DeliverStates, Finished
  <2>3. CASE CallbackReturns(d)
    BY ONLY <2>3 DEF CallbackReturns, Goto, DeliverStates, Finished
  <2> QED BY ONLY <1>7, <2>1, <2>2, <2>3 DEF DeliverCall, DeliverStep
<1>8. ASSUME NEW d \in Delivers, NEW state \in DeliverStates \ {"idle"}, Goto(d, state)
      PROVE  pc'[c] = pc[c] \/ (pc'[c] # "idle" /\ InRole(c, pc'[c]))
  BY <1>2, <1>8 DEF InRole
<1> QED BY <1>3, <1>4, <1>5, <1>6, <1>7, <1>8 DEF Next

\* A deliver call goes on to the next registration as long as there is one.
LEMMA SomebodyLeft ==
    ASSUME IndInv, CallbackInv, NEW d \in Delivers, DeliverCall(d) \/ DeliverStep(d)
    PROVE  pc'[d] \in {"evaluating", "callback"} => DOMAIN todo'[d] # {}
<1> USE DistinctCalls DEF IndInv, TypeOK, Goto
<1>1. CASE DeliverCall(d)
  <2>1. CASE MissingObject(d)
    BY <2>1 DEF MissingObject
  <2>2. ASSUME NEW f \in Fields, NEW filter \in KnownFilters,
               Deliver(d, [field |-> f, filter |-> filter])
        PROVE  pc'[d] \in {"evaluating", "callback"} => DOMAIN todo'[d] # {}
    <3> DEFINE r == [field |-> f, filter |-> filter]
    <3> HIDE DEF r
    <3>1. Deliver(d, r)
      BY <2>2 DEF r
    <3>2. todo'[d] = [k \in Collected(r) |-> subscriptions[k]]
      BY <3>1 DEF Deliver
    <3>3. pc'[d] \in {"evaluating", "callback"} => Collected(r) # {}
      BY <3>1 DEF Deliver
    <3> QED BY <3>2, <3>3
  <2> QED BY <1>1, <2>1, <2>2 DEF DeliverCall
<1>2. CASE Evaluate(d)
  BY <1>2 DEF Evaluate, CallbackInv
<1>3. CASE DeliverThrows(d)
  BY <1>3 DEF DeliverThrows
<1>4. CASE CallbackReturns(d)
  <2>1. PICK k \in DOMAIN todo[d] :
          /\ todo' = [todo EXCEPT ![d] = [j \in DOMAIN todo[d] \ {k} |-> todo[d][j]]]
          /\ Goto(d, IF DOMAIN todo[d] = {k} THEN "done" ELSE "evaluating")
    BY <1>4 DEF CallbackReturns
  <2>2. DOMAIN todo'[d] = DOMAIN todo[d] \ {k}
    BY <2>1
  <2>3. pc'[d] \in {"evaluating", "callback"} => DOMAIN todo[d] # {k}
    BY <2>1
  <2> QED BY <2>2, <2>3
<1> QED BY <1>1, <1>2, <1>3, <1>4 DEF DeliverStep

\* A callback starts to wait only for a call that it makes.
LEMMA WaitsForCall ==
    ASSUME IndInv, CallbackInv, Next, NEW d \in Delivers, waitsFor'[d] # NoCall
    PROVE  pc'[waitsFor'[d]] # "idle"
<1> USE DistinctCalls DEF IndInv, TypeOK
<1>1. CASE waitsFor'[d] = waitsFor[d]
  BY <1>1, MovesInRole DEF CallbackInv
<1>2. CASE \E e \in Delivers, u \in Unsubscribes : CallbackUnsubscribes(e, u)
  <2>1. PICK e \in Delivers, u \in Unsubscribes : CallbackUnsubscribes(e, u)
    BY <1>2
  <2>2. waitsFor' = [waitsFor EXCEPT ![e] = u] /\ pc'[u] = "called"
    BY <2>1 DEF CallbackUnsubscribes, Unsubscribe, Goto
  <2> QED BY <1>1, <2>2
<1>3. CASE \E e \in Delivers : waitsFor' = [waitsFor EXCEPT ![e] = NoCall]
  BY <1>1, <1>3
<1>4. \/ waitsFor' = waitsFor
      \/ \E e \in Delivers, u \in Unsubscribes : CallbackUnsubscribes(e, u)
      \/ \E e \in Delivers : waitsFor' = [waitsFor EXCEPT ![e] = NoCall]
  BY ONLY Next DEF Next, SubscribeCall, SubscribeStep, UnsubscribeCall,
     UnsubscribeStep, RemoveStep, DeliverCall, DeliverStep, AddListener, Reject,
     AddSubscription, SubscribeReturns, SubscribeFails, ClientUnsubscribes, Lookup,
     SkipNotify, UnsubscribeNotified, UnsubscribeThrows, RemoveNothing, RemoveListener,
     RemoveSubscription, MissingObject, Deliver, Evaluate, CallbackReturns, DeliverThrows
<1> QED BY <1>1, <1>2, <1>3, <1>4

LEMMA CallbacksAlways == Spec => []CallbackInv
<1>1. Init => CallbackInv
  BY DistinctCalls DEF Init, CallbackInv, InRole, DeliverStates
<1>2. IndInv /\ CallbackInv /\ [Next]_vars => CallbackInv'
  <2>0. ASSUME IndInv, CallbackInv, Next, NEW c \in Calls
        PROVE  InRole(c, pc'[c])
    BY <2>0, MovesInRole DEF CallbackInv
  <2> SUFFICES ASSUME IndInv, CallbackInv, [Next]_vars
               PROVE  CallbackInv'
    OBVIOUS
  <2>1. ASSUME Next, NEW d \in Delivers
        PROVE  /\ pc'[d] \in {"evaluating", "callback"} => DOMAIN todo'[d] # {}
               /\ waitsFor'[d] # NoCall => pc'[waitsFor'[d]] # "idle"
    <3>1. CASE DeliverCall(d) \/ DeliverStep(d)
      BY <2>1, <3>1, SomebodyLeft, WaitsForCall
    <3>2. CASE ~(DeliverCall(d) \/ DeliverStep(d))
      BY <2>1, <3>2, OthersLeaveDeliver, WaitsForCall DEF CallbackInv
    <3> QED BY <3>1, <3>2
  <2>2. CASE UNCHANGED vars
    BY <2>2 DEF vars, CallbackInv
  <2> QED BY <2>0, <2>1, <2>2 DEF CallbackInv, InRole
<1> QED BY <1>1, <1>2, Invariance, PTL DEF Spec

\* Sets of keys have a first one and, if they are bounded, a last one.
LEMMA FirstKey ==
    ASSUME NEW keys, keys # {}, \A k \in keys : k \in Nat
    PROVE  \E k \in keys : \A j \in keys : k <= j
<1> DEFINE less == {pair \in Nat \X Nat : pair[1] < pair[2]}
<1>1. IsWellFoundedOn(less, Nat)
  BY NatLessThanWellFounded DEF OpToRel
<1> HIDE DEF less
<1>2. keys \subseteq Nat
  OBVIOUS
<1>3. PICK k \in keys : \A j \in keys : <<j, k>> \notin less
  BY <1>1, <1>2, WFMin
<1>4. \A j \in keys : ~(j < k)
  BY <1>2, <1>3 DEF less
<1> QED BY <1>2, <1>4

LEMMA LastKey ==
    ASSUME NEW keys, keys # {}, \A k \in keys : k \in Nat,
           NEW bound \in Nat, \A k \in keys : k < bound
    PROVE  \E k \in keys : \A j \in keys : j <= k
<1> DEFINE left == {bound - k : k \in keys}
<1>1. left # {} /\ \A n \in left : n \in Nat
  OBVIOUS
<1>2. PICK n \in left : \A m \in left : n <= m
  BY <1>1, FirstKey
<1>3. PICK k \in keys : n = bound - k
  OBVIOUS
<1>4. \A j \in keys : bound - k <= bound - j
  BY <1>2, <1>3
<1> QED BY <1>4

\* Where a call is to go on, what it needs is there: the mutex, the list its key
\* is to be taken from, a next key, the registration that it has to call back,
\* and the end of the call that its callback waits for.
MayGoOn(c) ==
    \/ pc[c] \in {"listed", "notifying", "evaluating"}
    \/ pc[c] = "called" /\ lock = NoCall
    \/ /\ c \in Registrars /\ ReadyToRemove(c) /\ lock = NoCall
       /\ KeyOf(c) \in DOMAIN subscriptions =>
             FieldOf[subscriptions[KeyOf(c)]] \in DOMAIN listeners
    \/ pc[c] = "unlisted" /\ NextKeys(DOMAIN subscriptions \ {KeyOf(c)}) # {}
    \/ /\ pc[c] = "callback" /\ Unblocked(c)
       /\ \E k \in DOMAIN todo[c] : Current(c, k)

\* A subscribe call that returned its key is active.
UnderWay(c) == pc[c] \notin Finished \cup {"idle", "active"}

\* The call that holds the mutex needs nobody else to release it.
LEMMA HolderGoesOn ==
    ASSUME IndInv, lock # NoCall
    PROVE  lock \in Calls /\ MayGoOn(lock)
<1>1. lock \in Registrars /\ lock \in Calls /\ pc[lock] \in Holding
  BY DistinctCalls DEF IndInv, TypeOK, LockInv
<1>2. CASE pc[lock] = "listed"
  BY <1>1, <1>2 DEF MayGoOn
<1>3. CASE pc[lock] = "unlisted"
  <2> DEFINE keys == DOMAIN subscriptions \ {KeyOf(lock)}
  <2>1. nextKey \in Nat /\ \A k \in keys : k \in Nat /\ k < nextKey
    BY DEF IndInv, TypeOK, KeysFresh
  <2> HIDE DEF keys
  <2>2. NextKeys(keys) # {}
    <3>1. CASE keys = {}
      BY <3>1 DEF NextKeys
    <3>2. CASE keys # {}
      BY <2>1, <3>2, LastKey DEF NextKeys
    <3> QED BY <3>1, <3>2
  <2> QED BY <1>1, <1>3, <2>2 DEF MayGoOn, keys
<1> QED BY <1>1, <1>2, <1>3 DEF Holding

\* With the mutex free, a registrar goes on.
LEMMA RegistrarGoesOn ==
    ASSUME IndInv, CallbackInv, lock = NoCall, NEW c \in Registrars, UnderWay(c)
    PROVE  MayGoOn(c)
<1>1. c \in Calls /\ \A r \in Registrars : pc[r] # "unlisted" /\ pc[r] # "listed"
  BY DistinctCalls DEF IndInv, LockInv, Holding
<1>2. pc[c] \in {"called", "notifying", "failed", "returned", "evaluating", "callback"}
  BY <1>1 DEF UnderWay, IndInv, TypeOK, States, Finished
<1>3. CASE pc[c] \in {"called", "notifying", "evaluating"}
  BY <1>3 DEF MayGoOn
<1>4. CASE pc[c] \in {"failed", "returned"}
  <2>1. ReadyToRemove(c)
    BY <1>4, DistinctCalls DEF ReadyToRemove, IndInv, TargetInv, Registrars
  <2>2. ASSUME KeyOf(c) \in DOMAIN subscriptions
        PROVE  FieldOf[subscriptions[KeyOf(c)]] \in DOMAIN listeners
    <3> DEFINE f == FieldOf[subscriptions[KeyOf(c)]]
    <3>1. f \in Fields
      BY <2>2, SubscriptionData DEF IndInv, TypeOK
    <3>2. KeyOf(c) \in Listening(f)
      BY <1>1, <2>2, <3>1 DEF IndInv, IndexInv
    <3> HIDE DEF f
    <3> QED BY <3>2 DEF Listening, f
  <2> QED BY <2>1, <2>2 DEF MayGoOn
<1>5. pc[c] # "callback"
  BY <1>1 DEF CallbackInv, InRole
<1> QED BY <1>2, <1>3, <1>4, <1>5

\* With the mutex free, a deliver call goes on, or the unsubscribe call does that
\* its callback waits for.
LEMMA DeliverOrItsCallGoesOn ==
    ASSUME IndInv, CallbackInv, lock = NoCall, NEW d \in Delivers, UnderWay(d)
    PROVE  \E c \in Calls : MayGoOn(c)
<1>1. d \in Calls /\ pc[d] \in {"evaluating", "callback"}
  BY DistinctCalls DEF CallbackInv, InRole, UnderWay, DeliverStates
<1>2. CASE pc[d] = "evaluating"
  BY <1>1, <1>2 DEF MayGoOn
<1>3. CASE pc[d] = "callback" /\ Unblocked(d)
  <2>1. DOMAIN todo[d] # {} /\ \A k \in DOMAIN todo[d] : k \in Nat
    BY <1>3 DEF CallbackInv, IndInv, TypeOK
  <2>2. \E k \in DOMAIN todo[d] : Current(d, k)
    BY <2>1, FirstKey DEF Current
  <2> QED BY <1>1, <1>3, <2>2 DEF MayGoOn
<1>4. CASE ~Unblocked(d)
  <2> DEFINE u == waitsFor[d]
  <2>1. u \in Unsubscribes /\ u \in Registrars /\ u \in Calls
    BY <1>4, DistinctCalls DEF Unblocked, IndInv, TypeOK
  <2>2. pc[u] \notin Finished /\ pc[u] # "idle" /\ pc[u] # "active"
    BY <1>4, <2>1 DEF Unblocked, CallbackInv, IndInv, TargetInv
  <2>3. UnderWay(u)
    BY <2>2 DEF UnderWay
  <2> QED BY <2>1, <2>3, RegistrarGoesOn
<1> QED BY <1>1, <1>2, <1>3, <1>4

\* Calls that wait for the mutex and callbacks that wait for unsubscribe calls
\* never wait for each other: while a call is under way, some call may go on.
THEOREM SomebodyGoesOn ==
    Spec => []((\E c \in Calls : UnderWay(c)) => \E c \in Calls : MayGoOn(c))
<1>1. IndInv /\ CallbackInv =>
        ((\E c \in Calls : UnderWay(c)) => \E c \in Calls : MayGoOn(c))
  <2> SUFFICES ASSUME IndInv, CallbackInv, NEW c \in Calls, UnderWay(c)
               PROVE  \E e \in Calls : MayGoOn(e)
    OBVIOUS
  <2>1. CASE lock # NoCall
    BY <2>1, HolderGoesOn
  <2>2. CASE lock = NoCall /\ c \in Registrars
    BY <2>2, RegistrarGoesOn
  <2>3. CASE lock = NoCall /\ c \in Delivers
    BY <2>3, DeliverOrItsCallGoesOn
  <2> QED BY <2>1, <2>2, <2>3 DEF Calls
<1> QED BY <1>1, CallbacksAlways, Invariance, PTL

-----------------------------------------------------------------------------
(* The registry implements the subscription service                        *)

LEMMA InitService == Init => Service!Init
BY DistinctCalls DEF Init, Service!Init, Members, Registered, Leaving, Event, Pending

\* A step of a call that the service does not see.
LEMMA Stutter ==
    ASSUME IndInv, UNCHANGED <<subscriptions, target, request, todo>>,
           NEW c \in Calls, NEW state, Goto(c, state),
           c \in Subscribes => (pc[c] \in {"failed", "unlisted", "threw"}
                               <=> state \in {"failed", "unlisted", "threw"}),
           c \in Delivers => (pc[c] \in {"idle", "rejected"} <=> state \in {"idle", "rejected"})
    PROVE  UNCHANGED Service!svars
<1> USE DistinctCalls DEF Goto
<1>0. /\ pc'[c] = state
      /\ \A b \in Calls \ {c} : pc'[b] = pc[b]
  BY DEF IndInv, TypeOK
<1>1. Members' = Members
  BY DEF Members, Registered
<1>2. Leaving' = Leaving
  BY <1>0 DEF Leaving
<1>3. Event' = Event
  BY <1>0 DEF Event
<1>4. Pending' = Pending
  BY DEF Pending
<1> QED BY <1>1, <1>2, <1>3, <1>4 DEF Service!svars

LEMMA ServiceJoin ==
    ASSUME IndInv, NEW s \in Subscribes, AddSubscription(s)
    PROVE  Service!Join(s)
<1> USE DistinctCalls DEF AddSubscription, Goto
<1>0. /\ pc[s] = "listed" /\ pc'[s] \in {"notifying", "active"}
      /\ \A b \in Calls \ {s} : pc'[b] = pc[b]
  BY DEF IndInv, TypeOK
<1>1. s \notin Members \cup Leaving
  BY <1>0 DEF IndInv, OwnerInv, TargetInv, Members, Registered, Leaving
<1>2. Members' = Members \cup {s}
  <2>1. key[s] \notin DOMAIN subscriptions
    BY <1>0 DEF IndInv, HalfWayInv
  <2>2. \A t \in Subscribes : Registered(t)' <=> Registered(t) \/ t = s
    BY <2>1 DEF Registered, Emplaced
  <2> QED BY <2>2 DEF Members
<1>3. Leaving' = Leaving
  BY <1>0 DEF Leaving
<1>4. Event' = Event /\ Pending' = Pending
  BY <1>0 DEF Event, Pending
<1> QED BY <1>1, <1>2, <1>3, <1>4 DEF Service!Join

\* A subscribe call fails.
LEMMA ServiceFails ==
    ASSUME UnsubscribeOnce, IndInv, NEW s \in Subscribes, SubscribeFails(s)
    PROVE  Service!StartLeaving(s)
<1> USE DistinctCalls DEF SubscribeFails, Goto, registry
<1>0. /\ pc[s] = "notifying" /\ pc'[s] = "failed"
      /\ \A b \in Calls \ {s} : pc'[b] = pc[b]
      /\ \A u \in Unsubscribes : target[u] # s
  BY DEF IndInv, TypeOK, TargetInv
<1>1. s \in Members \ Leaving
  BY <1>0 DEF IndInv, RegisteredUntilAsked, Members, Registered, Leaving
<1>2. Members' = Members
  BY DEF Members, Registered
<1>3. Leaving' = Leaving \cup {s}
  BY <1>0 DEF Leaving
<1>4. Event' = Event /\ Pending' = Pending
  BY <1>0 DEF Event, Pending
<1> QED BY <1>1, <1>2, <1>3, <1>4 DEF Service!StartLeaving

\* An unsubscribe call is made.
LEMMA ServiceAsked ==
    ASSUME UnsubscribeOnce, IndInv, NEW u \in Unsubscribes, NEW s \in Subscribes,
           Unsubscribe(u, s), UNCHANGED <<subscriptions, request, todo>>
    PROVE  Service!StartLeaving(s)
<1> USE DistinctCalls DEF Unsubscribe, Goto
<1>0. /\ pc[s] = "active" /\ \A v \in Unsubscribes : target[v] # s
      /\ \A b \in Calls \ {u} : pc'[b] = pc[b]
      /\ target'[u] = s /\ \A v \in Unsubscribes \ {u} : target'[v] = target[v]
      /\ target[u] = NoCall
  BY DEF IndInv, TypeOK, TargetInv, MayUnsubscribe
<1>1. s \in Members \ Leaving
  BY <1>0 DEF IndInv, RegisteredUntilAsked, Members, Registered, Leaving
<1>2. Members' = Members
  BY DEF Members, Registered
<1>3. Leaving' = Leaving \cup {s}
  BY <1>0 DEF Leaving
<1>4. Event' = Event /\ Pending' = Pending
  BY <1>0 DEF Event, Pending
<1> QED BY <1>1, <1>2, <1>3, <1>4 DEF Service!StartLeaving

\* A registration is dropped.
LEMMA ServiceLeave ==
    ASSUME UnsubscribeOnce, IndInv, NEW c \in Registrars, RemoveSubscription(c)
    PROVE  \E s \in Subscribes : Service!Leave(s)
<1> DEFINE s == subscriptions[KeyOf(c)]
<1>. s = IF c \in Subscribes THEN c ELSE target[c]
  BY RemovesOwn
<1> USE DistinctCalls DEF RemoveSubscription, Goto
<1>0. /\ pc[c] = "unlisted" /\ pc'[c] \in {"done", "threw"}
      /\ c \in Subscribes => pc'[c] = "threw"
      /\ \A b \in Calls \ {c} : pc'[b] = pc[b]
      /\ KeyOf(c) \in DOMAIN subscriptions /\ s \in Subscribes
  BY DEF IndInv, TypeOK, HalfWayInv, Outcome
<1>1. s \in Members \cap Leaving
  BY <1>0 DEF Members, Registered, Leaving, Registrars
<1>2. Members' = Members \ {s}
  <2>1. \A k \in DOMAIN subscriptions : subscriptions[k] = s <=> k = KeyOf(c)
    BY <1>0 DEF IndInv, OwnerInv
  <2>2. \A t \in Subscribes : Registered(t)' <=> Registered(t) /\ t # s
    BY <2>1 DEF Registered
  <2> QED BY <2>2 DEF Members
<1>3. Leaving' = Leaving
  BY <1>0 DEF Leaving
<1>4. Event' = Event /\ Pending' = Pending
  BY <1>0 DEF Event, Pending
<1> QED BY <1>0, <1>1, <1>2, <1>3, <1>4 DEF Service!Leave

\* A deliver call collects its registrations.
LEMMA ServicePublish ==
    ASSUME FilterKinds \subseteq {"callback"}, IndInv,
           NEW d \in Delivers, NEW f \in Fields, NEW filter \in KnownFilters,
           Deliver(d, [field |-> f, filter |-> filter])
    PROVE  \E e \in Service!Events : Service!Publish(d, e)
<1> USE DistinctCalls
<1> DEFINE r == [field |-> f, filter |-> filter]
<1>0. /\ pc[d] = "idle" /\ lock = NoCall /\ pc'[d] \in {"done", "evaluating"}
      /\ \A b \in Calls \ {d} : pc'[b] = pc[b]
      /\ request'[d] = r /\ \A e \in Delivers \ {d} : request'[e] = request[e]
      /\ todo'[d] = [k \in Collected(r) |-> subscriptions[k]]
      /\ \A e \in Delivers \ {d} : todo'[e] = todo[e]
      /\ UNCHANGED <<subscriptions, target>>
  BY DEF Deliver, Goto, registry, IndInv, TypeOK
<1>1. Members' = Members /\ Leaving' = Leaving
  BY <1>0 DEF Members, Registered, Leaving
<1>2. Event[d] = NoCall /\ Event' = [Event EXCEPT ![d] = Published(r)]
  <2>1. Event[d] = NoCall
    BY <1>0 DEF Event
  <2>2. \A e \in Delivers : Event'[e] = IF e = d THEN Published(r) ELSE Event[e]
    BY <1>0 DEF Event
  <2>3. Event = [e \in Delivers |-> Event[e]] /\ Event' = [e \in Delivers |-> Event'[e]]
    BY DEF Event
  <2> QED BY <2>1, <2>2, <2>3
<1> DEFINE recipients == {subscriptions[k] : k \in Collected(r)}
<1>3. Pending' = [Pending EXCEPT ![d] = recipients]
  <2>1. {todo'[d][k] : k \in DOMAIN todo'[d]} = recipients
    BY <1>0
  <2>2. \A e \in Delivers : Pending'[e] = IF e = d THEN recipients ELSE Pending[e]
    BY <1>0, <2>1 DEF Pending
  <2>3. Pending = [e \in Delivers |-> Pending[e]] /\ Pending' = [e \in Delivers |-> Pending'[e]]
    BY DEF Pending
  <2> HIDE DEF recipients
  <2> QED BY <2>2, <2>3
<1>4. Listening(f) = {k \in DOMAIN subscriptions : FieldOf[subscriptions[k]] = f}
  <2>1. \A c \in Registrars : pc[c] \notin Holding
    BY <1>0 DEF IndInv, LockInv
  <2> QED BY <2>1 DEF IndInv, IndexInv, Holding
<1>5. /\ \A k \in DOMAIN subscriptions : subscriptions[k] \in Subscribes
      /\ Members = {subscriptions[k] : k \in DOMAIN subscriptions}
  BY DEF Members, Registered, IndInv, TypeOK
<1>6. CASE filter = NoCall
  <2>1. recipients = Service!Listeners(f)
    BY <1>4, <1>5, <1>6 DEF Collected, Service!Listeners
  <2>2. Published(r) = [field |-> f, kind |-> "all", items |-> {}]
    BY <1>6 DEF Published
  <2>3. Published(r) \in Service!Events /\ recipients \in Service!Recipients(Published(r))
    BY <2>1, <2>2 DEF Service!Events, Service!Recipients
  <2> HIDE DEF r, recipients
  <2> QED BY <1>1, <1>2, <1>3, <2>3 DEF Service!Publish
<1>7. CASE filter # NoCall /\ filter \in [key : Nat]
  <2>1. recipients \in {{}} \cup {{s} : s \in Service!Listeners(f)}
    <3>1. Collected(r) = {k \in DOMAIN subscriptions :
                            k = filter.key /\ FieldOf[subscriptions[k]] = f}
      BY <1>7 DEF Collected
    <3>2. CASE Collected(r) = {}
      BY <3>2
    <3>3. CASE filter.key \in Collected(r)
      <4>1. recipients = {subscriptions[filter.key]}
        BY <3>1, <3>3
      <4>2. subscriptions[filter.key] \in Service!Listeners(f)
        BY <1>5, <3>1, <3>3 DEF Service!Listeners
      <4> QED BY <4>1, <4>2
    <3> QED BY <3>1, <3>2, <3>3
  <2>2. Published(r) = [field |-> f, kind |-> "one", items |-> {}]
    BY <1>7 DEF Published
  <2>3. Published(r) \in Service!Events /\ recipients \in Service!Recipients(Published(r))
    BY <2>1, <2>2 DEF Service!Events, Service!Recipients
  <2> HIDE DEF r, recipients
  <2> QED BY <1>1, <1>2, <1>3, <2>3 DEF Service!Publish
<1>8. CASE filter # NoCall /\ filter \notin [key : Nat]
  <2>1. /\ filter \in [kind : FilterKinds, items : SUBSET Items]
        /\ filter.kind = "callback" /\ filter.items \subseteq Items
    BY <1>8 DEF KnownFilters, KnownKeys, IndInv, TypeOK
  <2>2. recipients = {s \in Service!Listeners(f) : ItemsOf[s] \subseteq filter.items}
    BY <1>4, <1>5, <1>8 DEF Collected, Matches, Service!Listeners
  <2>3. Published(r) = [field |-> f, kind |-> filter.kind, items |-> filter.items]
    BY <1>8 DEF Published
  <2>4. Published(r) \in Service!Events /\ recipients \in Service!Recipients(Published(r))
    BY <2>1, <2>2, <2>3 DEF Service!Events, Service!Recipients
  <2> HIDE DEF r, recipients
  <2> QED BY <1>1, <1>2, <1>3, <2>4 DEF Service!Publish
<1> QED BY <1>6, <1>7, <1>8

\* A registration is called back.
LEMMA ServiceReceive ==
    ASSUME IndInv, NEW d \in Delivers, CallbackReturns(d)
    PROVE  \E s \in Subscribes : Service!Receive(d, s)
<1> USE DistinctCalls
<1>0. PICK k \in DOMAIN todo[d] :
        /\ todo' = [todo EXCEPT ![d] = [j \in DOMAIN todo[d] \ {k} |-> todo[d][j]]]
        /\ Goto(d, IF DOMAIN todo[d] = {k} THEN "done" ELSE "evaluating")
  BY DEF CallbackReturns
<1>1. /\ pc[d] = "callback" /\ pc'[d] \in {"done", "evaluating"}
      /\ \A b \in Calls \ {d} : pc'[b] = pc[b]
      /\ UNCHANGED <<subscriptions, target, request>>
  BY <1>0 DEF CallbackReturns, Goto, registry, IndInv, TypeOK
<1>2. Members' = Members /\ Leaving' = Leaving /\ Event' = Event
  BY <1>1 DEF Members, Registered, Leaving, Event
<1>3. /\ todo'[d] = [j \in DOMAIN todo[d] \ {k} |-> todo[d][j]]
      /\ \A e \in Delivers \ {d} : todo'[e] = todo[e]
  BY <1>0 DEF IndInv, TypeOK
<1>4. \A j \in DOMAIN todo[d] : todo[d][j] = todo[d][k] <=> j = k
  BY DEF IndInv, TodoInv
<1>5. {todo'[d][j] : j \in DOMAIN todo'[d]} = {todo[d][j] : j \in DOMAIN todo[d]} \ {todo[d][k]}
  BY <1>3, <1>4
<1>6. Pending' = [Pending EXCEPT ![d] = @ \ {todo[d][k]}]
  <2>1. \A e \in Delivers :
            Pending'[e] = IF e = d THEN Pending[e] \ {todo[d][k]} ELSE Pending[e]
    <3>1. /\ Pending'[d] = {todo'[d][j] : j \in DOMAIN todo'[d]}
          /\ Pending[d] = {todo[d][j] : j \in DOMAIN todo[d]}
      BY DEF Pending
    <3>2. \A e \in Delivers \ {d} : Pending'[e] = Pending[e]
      BY <1>3 DEF Pending
    <3> QED BY <1>5, <3>1, <3>2
  <2>2. Pending = [e \in Delivers |-> Pending[e]] /\ Pending' = [e \in Delivers |-> Pending'[e]]
    BY DEF Pending
  <2> QED BY <2>1, <2>2
<1>7. todo[d][k] \in Pending[d] /\ todo[d][k] \in Subscribes
  BY DEF Pending, IndInv, TypeOK
<1> QED BY <1>2, <1>6, <1>7 DEF Service!Receive

LEMMA NextService ==
    ASSUME UnsubscribeOnce, FilterKinds \subseteq {"callback"}, IndInv, [Next]_vars
    PROVE  [Service!Next]_(Service!svars)
<1> USE DistinctCalls
<1>1. ASSUME NEW s \in Subscribes, SubscribeCall(s) \/ SubscribeStep(s)
      PROVE  [Service!Next]_(Service!svars)
  <2>1. CASE AddSubscription(s)
    BY <2>1, ServiceJoin DEF Service!Next
  <2>2. CASE SubscribeFails(s)
    BY <2>2, ServiceFails DEF Service!Next
  <2>3. CASE AddListener(s) \/ Reject(s) \/ SubscribeReturns(s)
    BY <2>3, Stutter DEF AddListener, Reject, SubscribeReturns, registry
  <2> QED BY <1>1, <2>1, <2>2, <2>3 DEF SubscribeCall, SubscribeStep
<1>2. ASSUME NEW u \in Unsubscribes, UnsubscribeCall(u)
      PROVE  [Service!Next]_(Service!svars)
  <2>1. PICK s \in Subscribes :
            Unsubscribe(u, s) /\ UNCHANGED <<subscriptions, request, todo>>
    <3>1. CASE \E s \in Subscribes : ClientUnsubscribes(u, s)
      BY <3>1 DEF ClientUnsubscribes, registry
    <3>2. CASE \E d \in Delivers : CallbackUnsubscribes(d, u)
      BY <3>2 DEF CallbackUnsubscribes, registry, IndInv, TypeOK
    <3> QED BY <1>2, <3>1, <3>2 DEF UnsubscribeCall
  <2> QED BY <2>1, ServiceAsked DEF Service!Next
<1>3. ASSUME NEW u \in Unsubscribes, UnsubscribeStep(u)
      PROVE  [Service!Next]_(Service!svars)
  BY <1>3, Stutter DEF UnsubscribeStep, Lookup, SkipNotify, UnsubscribeNotified,
                       UnsubscribeThrows, registry
<1>4. ASSUME NEW c \in Registrars, RemoveStep(c)
      PROVE  [Service!Next]_(Service!svars)
  <2>1. CASE RemoveSubscription(c)
    BY <2>1, ServiceLeave DEF Service!Next
  <2>2. CASE RemoveNothing(c)
    BY <2>2, Stutter DEF RemoveNothing, ReadyToRemove, Outcome, registry
  <2>3. CASE RemoveListener(c)
    BY <2>3, Stutter DEF RemoveListener, ReadyToRemove
  <2> QED BY <1>4, <2>1, <2>2, <2>3 DEF RemoveStep
<1>5. ASSUME NEW d \in Delivers, DeliverCall(d)
      PROVE  [Service!Next]_(Service!svars)
  <2>1. CASE MissingObject(d)
    BY <2>1, Stutter DEF MissingObject, registry
  <2>2. ASSUME NEW f \in Fields,
               NEW filter \in KnownFilters,
               Deliver(d, [field |-> f, filter |-> filter])
        PROVE  Service!Next
    BY <2>2, ServicePublish DEF Service!Next
  <2> QED BY <1>5, <2>1, <2>2 DEF DeliverCall
<1>6. ASSUME NEW d \in Delivers, DeliverStep(d)
      PROVE  [Service!Next]_(Service!svars)
  <2>1. CASE CallbackReturns(d)
    BY <2>1, ServiceReceive DEF Service!Next
  <2>2. CASE Evaluate(d) \/ DeliverThrows(d)
    BY <2>2, Stutter DEF Evaluate, DeliverThrows, registry
  <2> QED BY <1>6, <2>1, <2>2 DEF DeliverStep
<1>7. CASE UNCHANGED vars
  BY <1>7 DEF vars, Service!svars, Members, Registered, Leaving, Event, Pending
<1> QED BY <1>1, <1>2, <1>3, <1>4, <1>5, <1>6, <1>7 DEF Next

\* For clients that unsubscribe each key once and filter events by callbacks,
\* the registry is a subscription service: members join once, leave by their own
\* calls, and each event goes once to each member that listens and matches when
\* it is published.
THEOREM ImplementsService ==
    ASSUME UnsubscribeOnce, FilterKinds \subseteq {"callback"} PROVE Spec => Implements
BY InitService, NextService, Invariance, PTL DEF Spec, Implements, Service!Spec
=============================================================================
