------------------------ MODULE SubscriptionService ------------------------
(***************************************************************************)
(* What service::Request promises about subscriptions to clients that      *)
(* unsubscribe each of them once: no keys, no listener index, no mutex and *)
(* no half finished changes.  A subscription joins once, stays until it is *)
(* leaving, and an event goes once to each of the subscriptions that are   *)
(* members when it is published, listen to its field and match its filter. *)
(***************************************************************************)
CONSTANTS Subscribes, Delivers, NoCall, Fields, Items, FieldOf, ItemsOf

VARIABLES
    members,   \* the subscriptions that are registered
    leaving,   \* those whose subscribe failed or whose unsubscribe was called
    event,     \* what each deliver call published
    pending    \* the subscriptions each deliver call has still to reach

svars == <<members, leaving, event, pending>>

Init ==
    /\ members = {}
    /\ leaving = {}
    /\ event = [d \in Delivers |-> NoCall]
    /\ pending = [d \in Delivers |-> {}]

Join(s) ==
    /\ s \notin members \cup leaving
    /\ members' = members \cup {s}
    /\ UNCHANGED <<leaving, event, pending>>

StartLeaving(s) ==
    /\ s \in members \ leaving
    /\ leaving' = leaving \cup {s}
    /\ UNCHANGED <<members, event, pending>>

Leave(s) ==
    /\ s \in members \cap leaving
    /\ members' = members \ {s}
    /\ UNCHANGED <<leaving, event, pending>>

Listeners(f) == {s \in members : FieldOf[s] = f}

\* An event is for all listeners of its field, for one of them, for those each
\* of whose items a callback accepts, or for those that have the items of "a set
\* of required arguments or directives which must all be present".
Events ==
    [field : Fields, kind : {"all", "one", "callback", "required"}, items : SUBSET Items]

\* The sets of members that may receive an event; "one" may not be a listener.
Recipients(e) ==
    CASE e.kind = "all" -> {Listeners(e.field)}
      [] e.kind = "one" -> {{}} \cup {{s} : s \in Listeners(e.field)}
      [] e.kind = "callback" -> {{s \in Listeners(e.field) : ItemsOf[s] \subseteq e.items}}
      [] e.kind = "required" -> {{s \in Listeners(e.field) : e.items \subseteq ItemsOf[s]}}

Publish(d, e) ==
    /\ event[d] = NoCall
    /\ event' = [event EXCEPT ![d] = e]
    /\ \E recipients \in Recipients(e) :
        pending' = [pending EXCEPT ![d] = recipients]
    /\ UNCHANGED <<members, leaving>>

Receive(d, s) ==
    /\ s \in pending[d]
    /\ pending' = [pending EXCEPT ![d] = @ \ {s}]
    /\ UNCHANGED <<members, leaving, event>>

Next ==
    \/ \E s \in Subscribes : Join(s) \/ StartLeaving(s) \/ Leave(s)
    \/ \E d \in Delivers, e \in Events : Publish(d, e)
    \/ \E d \in Delivers, s \in Subscribes : Receive(d, s)

Spec == Init /\ [][Next]_svars
=============================================================================
