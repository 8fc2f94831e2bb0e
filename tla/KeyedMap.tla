------------------------------ MODULE KeyedMap ------------------------------
(***************************************************************************)
(* What a map promises: a value for some of the keys, and an answer to     *)
(* each call.                                                              *)
(***************************************************************************)
CONSTANTS Keys, Values, Default, Absent, Initial

VARIABLES map, answer

Put(k, v) == map' = [x \in DOMAIN map \cup {k} |-> IF x = k THEN v ELSE map[x]]

Find(k) ==
  /\ answer' = IF k \in DOMAIN map THEN map[k] ELSE Absent
  /\ UNCHANGED map

\* Emplacing a key that is there changes nothing.
Emplace(k, v) ==
  \/ k \in DOMAIN map /\ answer' = map[k] /\ UNCHANGED map
  \/ k \notin DOMAIN map /\ answer' = v /\ Put(k, v)

Erase(k) ==
  /\ answer' = Absent
  /\ map' = [x \in DOMAIN map \ {k} |-> map[x]]

Assign(k, v) == answer' = v /\ Put(k, v)

Clear == answer' = Absent /\ map' = [k \in {} |-> Absent]

Init == map \in Initial /\ answer = Absent

Next ==
  \/ \E k \in Keys : Find(k) \/ Erase(k)
  \/ \E k \in Keys, v \in Values : Emplace(k, v) \/ Assign(k, v)
  \/ Clear

Spec == Init /\ [][Next]_<<map, answer>>
=============================================================================
