--------------------------- MODULE Subscriptions ---------------------------
(***************************************************************************)
(* The subscription registry of service::Request: the members             *)
(* _subscriptions, _listeners, _nextKey and _subscriptionMutex, and the    *)
(* coroutines subscribe, unsubscribe and deliver that share them.          *)
(*                                                                         *)
(* A call of one of the three is a process that runs once.  Resolvers and  *)
(* subscription callbacks are user code: they run with the mutex released, *)
(* between two awaits, so any other call may run in the middle of one.     *)
(* A subscription is identified by the subscribe call that created it,     *)
(* which the code cannot do: it only has the key, and keys are reused.     *)
(***************************************************************************)
EXTENDS Naturals

CONSTANTS
    Subscribes,       \* calls of Request::subscribe
    Unsubscribes,     \* calls of Request::unsubscribe
    Delivers,         \* calls of Request::deliver
    NoCall,           \* no call: the mutex is free, nothing is targeted
    Fields,           \* fields of the schema's Subscription type
    Items,            \* arguments and directives, with their values
    FieldOf,          \* the field each subscription listens to
    ItemsOf,          \* the arguments and directives on that field
    FilterKinds,      \* the ways in which deliver calls filter those
    HasDefaultObject, \* Operations holds a default Subscription object
    UserThrows,       \* resolvers and callbacks may throw foreign exceptions
    UnsubscribeOnce   \* clients never pass the same key to unsubscribe again

Registrars == Subscribes \cup Unsubscribes
Calls == Registrars \cup Delivers

ASSUME CallsDistinct ==
    /\ Subscribes \cap Unsubscribes = {}
    /\ Registrars \cap Delivers = {}
    /\ NoCall \notin Calls

ASSUME SubscriptionData ==
    /\ FieldOf \in [Subscribes -> Fields]
    /\ ItemsOf \in [Subscribes -> SUBSET Items]
    /\ FilterKinds \subseteq {"callback", "required"}

ASSUME Switches == {HasDefaultObject, UserThrows, UnsubscribeOnce} \subseteq BOOLEAN

VARIABLES
    subscriptions,  \* _subscriptions: key to subscription
    listeners,      \* _listeners: field to the keys listening to it
    nextKey,        \* _nextKey
    lock,           \* the call that holds _subscriptionMutex across a step
    pc,             \* how far each call got
    key,            \* subscribe's local key, which it returns
    target,         \* whose key an unsubscribe call was given
    errors,         \* unsubscribe's local errors is not empty
    request,        \* the field and filter of a deliver call
    todo,           \* the registrations deliver has not called back yet
    waitsFor        \* the unsubscribe call a subscription callback waits for

registry == <<subscriptions, listeners, nextKey>>
vars == <<subscriptions, listeners, nextKey, lock, pc, key, target, errors,
          request, todo, waitsFor>>

-----------------------------------------------------------------------------
(* Calls                                                                   *)

Finished == {"done", "threw", "rejected"}

States == {"idle", "called", "listed", "notifying", "active", "failed",
           "returned", "unlisted", "evaluating", "callback"} \cup Finished

\* The states in which a call holds the mutex between two of its steps.
Holding == {"listed", "unlisted"}

\* The key a registrar works on: the one it returns, or params.key.
KeyOf(c) == IF c \in Subscribes THEN key[c] ELSE key[target[c]]

Goto(c, state) == pc' = [pc EXCEPT ![c] = state]

Outcome(c) == IF c \in Subscribes \/ errors[c] THEN "threw" ELSE "done"

Listening(f) == IF f \in DOMAIN listeners THEN listeners[f] ELSE {}

\* Mutants of NextKeys: start over after every removal, or forget the + 1.
NextKeysReset(keys) == {0}

NextKeysLast(keys) == IF keys = {} THEN {0} ELSE {k \in keys : \A j \in keys : j <= k}

\* What _nextKey becomes when keys stay in use: one past the last of them.
NextKeys(keys) ==
    IF keys = {} THEN {0} ELSE {last + 1 : last \in {k \in keys : \A j \in keys : j <= k}}

\* sorted_map::emplace, which keeps an entry that has the key already.
Emplaced(map, k, value) ==
    [j \in DOMAIN map \cup {k} |-> IF j \in DOMAIN map THEN map[j] ELSE value]

\* The listeners with one more key, for a field that may be new.
Listed(field, k) ==
    [f \in DOMAIN listeners \cup {field} |->
        IF f = field THEN Listening(f) \cup {k} ELSE listeners[f]]

\* Mutant of Unlisted: leave an empty list behind.
UnlistedKeepsField(field, k) == [listeners EXCEPT ![field] = @ \ {k}]

\* The listeners without one key; its field goes with its last key.
Unlisted(field, k) ==
    LET rest == listeners[field] \ {k}
    IN  [f \in {g \in DOMAIN listeners : g = field => rest # {}} |->
            IF f = field THEN rest ELSE listeners[f]]

-----------------------------------------------------------------------------
(* Request::subscribe                                                      *)

\* Mutant of AddListener: forget to move on to the next key.
AddListenerKeepsKey(s) ==
    /\ pc[s] = "idle"
    /\ lock = NoCall
    /\ lock' = s
    /\ key' = [key EXCEPT ![s] = nextKey]
    /\ listeners' = Listed(FieldOf[s], nextKey)
    /\ Goto(s, "listed")
    /\ UNCHANGED <<subscriptions, nextKey, target, errors, request, todo, waitsFor>>

\* addSubscription takes a key and lists it under the subscription's field.
AddListener(s) ==
    /\ pc[s] = "idle"
    /\ lock = NoCall
    /\ lock' = s
    /\ key' = [key EXCEPT ![s] = nextKey]
    /\ nextKey' = nextKey + 1
    /\ listeners' = Listed(FieldOf[s], nextKey)
    /\ Goto(s, "listed")
    /\ UNCHANGED <<subscriptions, target, errors, request, todo, waitsFor>>

\* The query does not validate, or names no subscription operation.
Reject(s) ==
    /\ pc[s] = "idle"
    /\ lock = NoCall
    /\ Goto(s, "rejected")
    /\ UNCHANGED <<registry, lock, key, target, errors, request, todo, waitsFor>>

\* Mutant of AddSubscription: notify with the mutex held.
AddSubscriptionLocked(s) ==
    /\ pc[s] = "listed"
    /\ subscriptions' = Emplaced(subscriptions, key[s], s)
    /\ Goto(s, "notifying")
    /\ UNCHANGED <<listeners, nextKey, lock, key, target, errors, request, todo, waitsFor>>

\* addSubscription registers the subscription under its key.  The mutex is
\* released before the Subscription object is notified, or on return
\* if there is none.
AddSubscription(s) ==
    /\ pc[s] = "listed"
    /\ subscriptions' = Emplaced(subscriptions, key[s], s)
    /\ lock' = NoCall
    /\ \/ Goto(s, "notifying")
       \/ ~HasDefaultObject /\ Goto(s, "active")
    /\ UNCHANGED <<listeners, nextKey, key, target, errors, request, todo, waitsFor>>

\* NotifySubscribe resolves without errors: the caller gets the key.
SubscribeReturns(s) ==
    /\ pc[s] = "notifying"
    /\ Goto(s, "active")
    /\ UNCHANGED <<registry, lock, key, target, errors, request, todo, waitsFor>>

\* Mutant of SubscribeFails: no catch block.
SubscribeFailsUncaught(s) ==
    /\ pc[s] = "notifying"
    /\ Goto(s, "threw")
    /\ UNCHANGED <<registry, lock, key, target, errors, request, todo, waitsFor>>

\* NotifySubscribe throws or returns errors: on to the catch block.
SubscribeFails(s) ==
    /\ pc[s] = "notifying"
    /\ Goto(s, "failed")
    /\ UNCHANGED <<registry, lock, key, target, errors, request, todo, waitsFor>>

-----------------------------------------------------------------------------
(* Request::unsubscribe                                                    *)

\* A client passes the key it got for s.  A careful one does that once; any
\* other may try again after its previous call threw.
MayUnsubscribe(s) ==
    /\ pc[s] = "active"
    /\ \A u \in Unsubscribes :
        target[u] = s => ~UnsubscribeOnce /\ pc[u] = "threw"

Unsubscribe(u, s) ==
    /\ pc[u] = "idle"
    /\ MayUnsubscribe(s)
    /\ target' = [target EXCEPT ![u] = s]
    /\ Goto(u, "called")

ClientUnsubscribes(u, s) ==
    /\ Unsubscribe(u, s)
    /\ UNCHANGED <<registry, lock, key, errors, request, todo, waitsFor>>

\* Look up the registration to notify; at() throws for an unknown key.
Lookup(u) ==
    /\ pc[u] = "called"
    /\ lock = NoCall
    /\ Goto(u, IF KeyOf(u) \in DOMAIN subscriptions THEN "notifying" ELSE "threw")
    /\ UNCHANGED <<registry, lock, key, target, errors, request, todo, waitsFor>>

\* Without a Subscription object there is nobody to notify.
SkipNotify(u) ==
    /\ pc[u] = "called"
    /\ ~HasDefaultObject
    /\ Goto(u, "returned")
    /\ UNCHANGED <<registry, lock, key, target, errors, request, todo, waitsFor>>

\* Mutant of UnsubscribeNotified: return without removing anything.
UnsubscribeOnlyNotifies(u) ==
    /\ pc[u] = "notifying"
    /\ Goto(u, "done")
    /\ UNCHANGED <<registry, lock, key, target, errors, request, todo, waitsFor>>

\* NotifyUnsubscribe is resolved, maybe with errors that are reported later.
UnsubscribeNotified(u) ==
    /\ pc[u] = "notifying"
    /\ \E failed \in BOOLEAN : errors' = [errors EXCEPT ![u] = failed]
    /\ Goto(u, "returned")
    /\ UNCHANGED <<registry, lock, key, target, request, todo, waitsFor>>

\* An exception leaves unsubscribe at the await, with everything still there.
UnsubscribeThrows(u) ==
    /\ pc[u] = "notifying"
    /\ Goto(u, "threw")
    /\ UNCHANGED <<registry, lock, key, target, errors, request, todo, waitsFor>>

-----------------------------------------------------------------------------
(* Request::removeSubscription, by subscribe's catch block or unsubscribe  *)

ReadyToRemove(c) == pc[c] = (IF c \in Subscribes THEN "failed" ELSE "returned")

\* An unknown key is ignored.
RemoveNothing(c) ==
    /\ ReadyToRemove(c)
    /\ lock = NoCall
    /\ KeyOf(c) \notin DOMAIN subscriptions
    /\ Goto(c, Outcome(c))
    /\ UNCHANGED <<registry, lock, key, target, errors, request, todo, waitsFor>>

\* Take the key off its field's list, and the list away with its last key.
RemoveListener(c) ==
    /\ ReadyToRemove(c)
    /\ lock = NoCall
    /\ KeyOf(c) \in DOMAIN subscriptions
    /\ LET field == FieldOf[subscriptions[KeyOf(c)]]
       IN  field \in DOMAIN listeners /\ listeners' = Unlisted(field, KeyOf(c))
    /\ lock' = c
    /\ Goto(c, "unlisted")
    /\ UNCHANGED <<subscriptions, nextKey, key, target, errors, request, todo, waitsFor>>

\* Drop the registration; the next key is the one after the last in use.
RemoveSubscription(c) ==
    /\ pc[c] = "unlisted"
    /\ subscriptions' = [k \in DOMAIN subscriptions \ {KeyOf(c)} |-> subscriptions[k]]
    /\ nextKey' \in NextKeys(DOMAIN subscriptions')
    /\ lock' = NoCall
    /\ Goto(c, Outcome(c))
    /\ UNCHANGED <<listeners, key, target, errors, request, todo, waitsFor>>

-----------------------------------------------------------------------------
(* Request::deliver                                                        *)

\* Neither deliver's parameters nor Operations have a Subscription object.
MissingObject(d) ==
    /\ pc[d] = "idle"
    /\ ~HasDefaultObject
    /\ Goto(d, "rejected")
    /\ UNCHANGED <<registry, lock, key, target, errors, request, todo, waitsFor>>

\* Mutant of Matches: one item that passes is enough.
MatchesAny(s, filter) == ItemsOf[s] = {} \/ ItemsOf[s] \cap filter.items # {}

\* A subscription matches if each of its items passes the filter: the callback
\* returns true for it, or it is in the set of items, called required.
Matches(s, filter) == ItemsOf[s] \subseteq filter.items

\* collectRegistrations: everyone who listens to the field, or the one with
\* the key if it does, or those who match.
Collected(r) ==
    IF r.filter = NoCall
    THEN Listening(r.field)
    ELSE IF r.filter \in [key : Nat]
    THEN {k \in DOMAIN subscriptions : k = r.filter.key /\ FieldOf[subscriptions[k]] = r.field}
    ELSE {k \in Listening(r.field) : Matches(subscriptions[k], r.filter)}

\* Mutant of Deliver: keep the mutex while the registrations are called back.
DeliverLocked(d, r) ==
    /\ pc[d] = "idle"
    /\ lock = NoCall
    /\ lock' = d
    /\ request' = [request EXCEPT ![d] = r]
    /\ todo' = [todo EXCEPT ![d] = [k \in Collected(r) |-> subscriptions[k]]]
    /\ Goto(d, IF Collected(r) = {} THEN "done" ELSE "evaluating")
    /\ UNCHANGED <<registry, key, target, errors, waitsFor>>

\* Take shared pointers to the registrations while holding the mutex.
Deliver(d, r) ==
    /\ pc[d] = "idle"
    /\ lock = NoCall
    /\ request' = [request EXCEPT ![d] = r]
    /\ todo' = [todo EXCEPT ![d] = [k \in Collected(r) |-> subscriptions[k]]]
    /\ Goto(d, IF Collected(r) = {} THEN "done" ELSE "evaluating")
    /\ UNCHANGED <<registry, lock, key, target, errors, waitsFor>>

\* Registrations are called back in the order of their keys.
Current(d, k) == k \in DOMAIN todo[d] /\ \A j \in DOMAIN todo[d] : k <= j

\* The event is resolved to data, or to the errors of a schema_exception.
Evaluate(d) ==
    /\ pc[d] = "evaluating"
    /\ Goto(d, "callback")
    /\ UNCHANGED <<registry, lock, key, target, errors, request, todo, waitsFor>>

\* A callback that waits for an unsubscribe call goes on when that is over.
Unblocked(d) == waitsFor[d] # NoCall => pc[waitsFor[d]] \in Finished

\* The callback unsubscribes the subscription it is called for, and waits.
CallbackUnsubscribes(d, u) ==
    /\ pc[d] = "callback"
    /\ waitsFor[d] = NoCall
    /\ \E k \in DOMAIN todo[d] : Current(d, k) /\ Unsubscribe(u, todo[d][k])
    /\ waitsFor' = [waitsFor EXCEPT ![d] = u]
    /\ UNCHANGED <<registry, lock, key, errors, request, todo>>

\* On to the next registration, or deliver returns after the last one.
CallbackReturns(d) ==
    /\ pc[d] = "callback"
    /\ Unblocked(d)
    /\ waitsFor' = [waitsFor EXCEPT ![d] = NoCall]
    /\ \E k \in DOMAIN todo[d] :
        /\ Current(d, k)
        /\ todo' = [todo EXCEPT ![d] = [j \in DOMAIN todo[d] \ {k} |-> todo[d][j]]]
        /\ Goto(d, IF DOMAIN todo[d] = {k} THEN "done" ELSE "evaluating")
    /\ UNCHANGED <<registry, lock, key, target, errors, request>>

\* Anything but a schema_exception from the resolver, and any exception from
\* the callback, ends deliver's loop.
DeliverThrows(d) ==
    /\ UserThrows
    /\ pc[d] \in {"evaluating", "callback"}
    /\ Unblocked(d)
    /\ waitsFor' = [waitsFor EXCEPT ![d] = NoCall]
    /\ Goto(d, "threw")
    /\ UNCHANGED <<registry, lock, key, target, errors, request, todo>>

-----------------------------------------------------------------------------
(* The service                                                             *)

Init ==
    /\ subscriptions = <<>>
    /\ listeners = <<>>
    /\ nextKey = 0
    /\ lock = NoCall
    /\ pc = [c \in Calls |-> "idle"]
    /\ key = [s \in Subscribes |-> 0]
    /\ target = [u \in Unsubscribes |-> NoCall]
    /\ errors = [u \in Unsubscribes |-> FALSE]
    /\ request = [d \in Delivers |-> NoCall]
    /\ todo = [d \in Delivers |-> <<>>]
    /\ waitsFor = [d \in Delivers |-> NoCall]

\* A client knows the keys subscribe returned.
KnownKeys == {key[s] : s \in {t \in Subscribes : pc[t] = "active"}}

\* A deliver filter: not given, one key, or arguments and directives, either
\* those for which a callback returns true or a set of required ones.
KnownFilters ==
    {NoCall} \cup [key : KnownKeys] \cup [kind : FilterKinds, items : SUBSET Items]

SubscribeStep(s) ==
    \/ AddSubscription(s)
    \/ SubscribeReturns(s)
    \/ SubscribeFails(s)

UnsubscribeStep(u) ==
    \/ Lookup(u)
    \/ SkipNotify(u)
    \/ UnsubscribeNotified(u)
    \/ UnsubscribeThrows(u)

RemoveStep(c) ==
    \/ RemoveNothing(c)
    \/ RemoveListener(c)
    \/ RemoveSubscription(c)

DeliverStep(d) ==
    \/ Evaluate(d)
    \/ CallbackReturns(d)
    \/ DeliverThrows(d)

\* A client makes a call that was not made yet.
SubscribeCall(s) == AddListener(s) \/ Reject(s)

UnsubscribeCall(u) ==
    \/ \E s \in Subscribes : ClientUnsubscribes(u, s)
    \/ \E d \in Delivers : CallbackUnsubscribes(d, u)

DeliverCall(d) ==
    \/ MissingObject(d)
    \/ \E f \in Fields, filter \in KnownFilters :
        Deliver(d, [field |-> f, filter |-> filter])

Next ==
    \/ \E s \in Subscribes : SubscribeCall(s) \/ SubscribeStep(s)
    \/ \E u \in Unsubscribes : UnsubscribeCall(u) \/ UnsubscribeStep(u)
    \/ \E c \in Registrars : RemoveStep(c)
    \/ \E d \in Delivers : DeliverCall(d) \/ DeliverStep(d)

Spec == Init /\ [][Next]_vars

\* A call that was made goes on: its thread is scheduled, the resolvers and
\* callbacks it runs return, and the mutex is granted once it stays free.
Fairness ==
    /\ \A s \in Subscribes : WF_vars(SubscribeStep(s))
    /\ \A u \in Unsubscribes : WF_vars(UnsubscribeStep(u))
    /\ \A c \in Registrars : WF_vars(RemoveStep(c))
    /\ \A d \in Delivers : WF_vars(DeliverStep(d))

FairSpec == Spec /\ Fairness

-----------------------------------------------------------------------------
(* Invariants                                                              *)

\* Every variable has its type; a collected registration is never null.
TypeOK ==
    /\ \A k \in DOMAIN subscriptions : k \in Nat /\ subscriptions[k] \in Subscribes
    /\ \A f \in DOMAIN listeners : f \in Fields /\ \A k \in listeners[f] : k \in Nat
    /\ nextKey \in Nat
    /\ lock \in Registrars \cup {NoCall}
    /\ pc \in [Calls -> States]
    /\ key \in [Subscribes -> Nat]
    /\ target \in [Unsubscribes -> Subscribes \cup {NoCall}]
    /\ errors \in [Unsubscribes -> BOOLEAN]
    /\ DOMAIN request = Delivers
    /\ DOMAIN todo = Delivers
    /\ \A d \in Delivers : \A k \in DOMAIN todo[d] :
        k \in Nat /\ todo[d][k] \in Subscribes
    /\ waitsFor \in [Delivers -> Unsubscribes \cup {NoCall}]

Registered(s) == \E k \in DOMAIN subscriptions : subscriptions[k] = s

\* Whoever gets the mutex finds _listeners to be exactly the index of
\* _subscriptions by field, without empty entries, so that deliver never
\* meets a key without a registration and removal never misses its field.
RegistryConsistent ==
    lock = NoCall =>
        /\ \A f \in DOMAIN listeners : listeners[f] # {}
        /\ \A f \in Fields :
            Listening(f) = {k \in DOMAIN subscriptions : FieldOf[subscriptions[k]] = f}

\* Although keys are reused, the next one is not in use, neither for a
\* registration nor in a listener list: emplace never finds an older entry.
KeysFresh ==
    /\ \A k \in DOMAIN subscriptions : k < nextKey
    /\ \A f \in DOMAIN listeners : \A k \in listeners[f] : k < nextKey

\* "Don't leave it subscribed if the resolver failed": whatever ran between a
\* failing subscribe and its removal, nothing of it is left when it throws.
FailedNotLeft ==
    \A s \in Subscribes : pc[s] = "threw" => ~Registered(s)

\* A subscription whose unsubscribe call returned is not registered.
UnsubscribedNotLeft ==
    \A u \in Unsubscribes : pc[u] = "done" => ~Registered(target[u])

\* No call suspends, resolves or calls back while it holds the mutex, which
\* another thread would then have to release.
MutexReleased ==
    \A c \in Calls :
        pc[c] \in {"notifying", "evaluating", "callback"} \cup Finished => lock # c

\* If each key is unsubscribed once, a subscription whose key was returned
\* keeps exactly that key until its own unsubscribe call is done with it.
RegisteredUntilAsked ==
    UnsubscribeOnce =>
        \A s \in Subscribes :
            /\ pc[s] \in {"notifying", "active", "failed", "unlisted"}
            /\ \A u \in Unsubscribes : target[u] = s => pc[u] \notin Finished
            => key[s] \in DOMAIN subscriptions /\ subscriptions[key[s]] = s

-----------------------------------------------------------------------------
(* What the registry promises                                              *)

Members == {s \in Subscribes : Registered(s)}

\* The subscribe calls that failed, and the ones whose key was passed to
\* unsubscribe.
Leaving ==
    {s \in Subscribes :
        \/ pc[s] \in {"failed", "unlisted", "threw"}
        \/ \E u \in Unsubscribes : target[u] = s}

\* What a request to deliver asks for, whatever its key is.
Published(r) ==
    IF r.filter = NoCall
    THEN [field |-> r.field, kind |-> "all", items |-> {}]
    ELSE IF r.filter \in [key : Nat]
    THEN [field |-> r.field, kind |-> "one", items |-> {}]
    ELSE [field |-> r.field, kind |-> r.filter.kind, items |-> r.filter.items]

\* The event of a deliver call that collected its registrations.
Event ==
    [d \in Delivers |->
        IF pc[d] \in {"idle", "rejected"} THEN NoCall ELSE Published(request[d])]

Pending == [d \in Delivers |-> {todo[d][k] : k \in DOMAIN todo[d]}]

Service == INSTANCE SubscriptionService WITH
    members <- Members,
    leaving <- Leaving,
    event <- Event,
    pending <- Pending

\* For clients that unsubscribe each key once, the registry with its reused
\* keys, its index and its mutex is a service whose members join and leave by
\* their own calls and whose events reach exactly the members they are for.
\* With sets of required items it is not: see the service's Recipients.
Implements == Service!Spec

-----------------------------------------------------------------------------
(* The inductive invariant                                                 *)

\* The mutex belongs to the call that is half way through a change.
LockInv == \A c \in Calls : lock = c <=> pc[c] \in Holding

\* A registration has the key its subscribe call took, and that call is not
\* over without it.
OwnerInv ==
    \A k \in DOMAIN subscriptions :
        /\ key[subscriptions[k]] = k
        /\ pc[subscriptions[k]] \in {"notifying", "active", "failed", "unlisted"}

\* A key is listed under the field of its registration, except that the call
\* that holds the mutex may have listed a key it has not registered yet, or
\* unlisted one that it has still to drop.
IndexInv ==
    /\ \A f \in DOMAIN listeners : listeners[f] # {}
    /\ \A f \in Fields :
        Listening(f) =
            {k \in DOMAIN subscriptions :
                /\ FieldOf[subscriptions[k]] = f
                /\ \A c \in Registrars : pc[c] = "unlisted" => KeyOf(c) # k}
            \cup {key[s] : s \in {t \in Subscribes : pc[t] = "listed" /\ FieldOf[t] = f}}

\* The call half way through a change has a fresh key, or one in use.
HalfWayInv ==
    /\ \A s \in Subscribes :
        pc[s] = "listed" => key[s] < nextKey /\ key[s] \notin DOMAIN subscriptions
    /\ \A c \in Registrars : pc[c] = "unlisted" => KeyOf(c) \in DOMAIN subscriptions

\* An unsubscribe call was made for a subscription whose key was returned,
\* and of the calls of a careful client no other one was.
TargetInv ==
    /\ \A u \in Unsubscribes :
        /\ target[u] = NoCall <=> pc[u] = "idle"
        /\ target[u] # NoCall => pc[target[u]] = "active"
        /\ pc[u] \notin {"listed", "active", "failed"}
    /\ \A s \in Subscribes : pc[s] \notin {"called", "returned", "done"}
    /\ UnsubscribeOnce => \A u, v \in Unsubscribes :
        target[u] = target[v] /\ target[u] # NoCall => u = v

\* A collected registration is under the key of its subscribe call, so that no
\* subscription is collected twice.
TodoInv ==
    \A d \in Delivers : \A k \in DOMAIN todo[d] :
        key[todo[d][k]] = k /\ pc[todo[d][k]] # "idle"

IndInv ==
    /\ TypeOK
    /\ LockInv
    /\ KeysFresh
    /\ OwnerInv
    /\ IndexInv
    /\ HalfWayInv
    /\ TargetInv
    /\ TodoInv
    /\ RegisteredUntilAsked
    /\ UnsubscribedNotLeft

-----------------------------------------------------------------------------
(* Action and liveness properties                                          *)

\* A registration leaves the registry only by its own failing subscribe call
\* or by an unsubscribe call that was given the key its subscribe returned.
RemovedByItsUnsubscribe ==
    [][\A s \in Subscribes :
          Registered(s) /\ ~Registered(s)' =>
              \/ pc[s] = "unlisted"
              \/ \E u \in Unsubscribes : target[u] = s /\ pc[u] = "unlisted"]_vars

\* Every call that was made returns to its caller, even when subscription
\* callbacks wait for unsubscribe calls of their own.
CallsReturn ==
    /\ \A s \in Subscribes : pc[s] # "idle" ~> pc[s] \in Finished \cup {"active"}
    /\ \A c \in Unsubscribes \cup Delivers : pc[c] # "idle" ~> pc[c] \in Finished

=============================================================================
