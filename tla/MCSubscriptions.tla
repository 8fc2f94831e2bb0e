-------------------------- MODULE MCSubscriptions --------------------------
(***************************************************************************)
(* Small instances of Subscriptions: up to three subscriptions on two      *)
(* fields, one of them with an argument and a directive, up to three       *)
(* unsubscribe calls and one deliver call.                                 *)
(***************************************************************************)
EXTENDS Subscriptions, FiniteSets

CONSTANTS s1, s2, s3, f1, f2, argument, directive

TwoSubscribes == {s1, s2}
ThreeSubscribes == {s1, s2, s3}

\* s1 and s2 listen to one field, s3 to another one.
FieldOfEach == [s \in Subscribes |-> IF s = s3 THEN f2 ELSE f1]

\* Only s1 has an argument and a directive.
ItemsOfEach == [s \in Subscribes |-> IF s = s1 THEN {argument, directive} ELSE {}]

=============================================================================
