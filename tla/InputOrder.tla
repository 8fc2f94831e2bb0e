----------------------------- MODULE InputOrder -----------------------------
(***************************************************************************)
(* How the generators order the input types they write: a type follows the *)
(* types that it holds by value.  reorderInputTypeDependencies moves those *)
(* in front whose dependencies have all been handled, over and over.       *)
(*                                                                         *)
(* An entry is a record of the name of a type, the names it depends on and *)
(* where it comes from.  Two entries may have the same name.               *)
(***************************************************************************)
EXTENDS Naturals, Sequences

CONSTANTS
  InputNames,
  InputTypeLists     \* sequences of entries to be ordered

InputEntries == [type : InputNames, dependencies : SUBSET InputNames, origin : Nat]

ASSUME InputTypeListsAssumption == InputTypeLists \subseteq Seq(InputEntries)

VARIABLES
  inputTypes,   \* _inputTypes
  place,        \* itr, how many entries are in their place
  handled,
  order         \* "idle", "running", "ordered" or "cycle"

orderVars == <<inputTypes, place, handled, order>>

\* Mutant of IsReady: one of the dependencies is enough.
IsReadyOnce(entry) == entry.dependencies = {} \/ entry.dependencies \cap handled # {}

IsReady(entry) == entry.dependencies \subseteq handled

OrderInit == inputTypes = <<>> /\ place = 0 /\ handled = {} /\ order = "idle"

StartOrder(entries) ==
  /\ order = "idle"
  /\ inputTypes' = entries /\ place' = 0 /\ handled' = {}
  /\ order' = "running"

\* std::stable_partition from first on, external: from[i] is the place that
\* entry i is moved from, and the ready entries come first up to middle.
IsStablePartition(from, first, middle) ==
  /\ \A i \in 1..first : from[i] = i
  /\ \A i, j \in DOMAIN inputTypes : i # j => from[i] # from[j]
  /\ \A i \in DOMAIN inputTypes : i > first => from[i] > first /\ (i <= middle <=> IsReady(inputTypes[from[i]]))
  /\ \A i, j \in DOMAIN inputTypes :
       first < i /\ i < j /\ (j <= middle \/ middle < i) => from[i] < from[j]

\* Mutant of NamesFrom: one name a round.
NamesFromFirst(entries, first, last) == {entries[i].type : i \in {first} \cap (1..last)}

NamesFrom(entries, first, last) == {entries[i].type : i \in first..last}

\* Mutant of Partition: no progress is not noticed.
PartitionAgain ==
  /\ order = "running" /\ place < Len(inputTypes)
  /\ \E middle \in place..Len(inputTypes), from \in [DOMAIN inputTypes -> DOMAIN inputTypes] :
       /\ IsStablePartition(from, place, middle)
       /\ inputTypes' = [i \in DOMAIN inputTypes |-> inputTypes[from[i]]]
       /\ handled' = handled \cup NamesFrom(inputTypes', place + 1, middle)
       /\ place' = middle
       /\ UNCHANGED order

\* One round of the loop.
Partition ==
  /\ order = "running" /\ place < Len(inputTypes)
  /\ \E middle \in place..Len(inputTypes), from \in [DOMAIN inputTypes -> DOMAIN inputTypes] :
       /\ IsStablePartition(from, place, middle)
       /\ inputTypes' = [i \in DOMAIN inputTypes |-> inputTypes[from[i]]]
       /\ IF middle = place
          THEN order' = "cycle" /\ UNCHANGED <<place, handled>>
          ELSE /\ handled' = IF middle = Len(inputTypes) THEN handled
                             ELSE handled \cup NamesFrom(inputTypes', place + 1, middle)
               /\ place' = middle
               /\ UNCHANGED order

EndOrder ==
  /\ order = "running" /\ place = Len(inputTypes)
  /\ order' = "ordered"
  /\ UNCHANGED <<inputTypes, place, handled>>

OrderNext == (\E entries \in InputTypeLists : StartOrder(entries)) \/ Partition \/ EndOrder

OrderSpec == OrderInit /\ [][OrderNext]_orderVars /\ WF_orderVars(Partition \/ EndOrder)

-----------------------------------------------------------------------------
OrderTypeOK ==
  /\ inputTypes \in Seq(InputEntries)
  /\ place \in 0..Len(inputTypes)
  /\ order \in {"idle", "running", "ordered", "cycle"}

FollowsDependencies(i) ==
  \A name \in inputTypes[i].dependencies : \E j \in 1..(i - 1) : inputTypes[j].type = name

\* What is in its place follows its dependencies, and no other name has been
\* handled than those in their places, nor, before the last round, fewer.
OrderIndInv ==
  /\ OrderTypeOK
  /\ \A i \in 1..place : FollowsDependencies(i)
  /\ handled = NamesFrom(inputTypes, 1, place) \/ (place = Len(inputTypes) /\ order # "cycle")
  /\ order = "ordered" => place = Len(inputTypes)
  /\ order = "cycle" => place < Len(inputTypes) /\ \A i \in (place + 1)..Len(inputTypes) : ~IsReady(inputTypes[i])

\* In the order that reorderInputTypeDependencies ends with, every input type
\* is written after all types that it holds by value.
DependenciesFirst == order = "ordered" => \A i \in DOMAIN inputTypes : FollowsDependencies(i)

\* When it gives up there are types each of which holds one of them, or one
\* that is unknown, so no order would do.
CycleIsReal ==
  order = "cycle" =>
    \E cyclic \in SUBSET DOMAIN inputTypes :
      /\ cyclic # {}
      /\ \A i \in cyclic : \E name \in inputTypes[i].dependencies :
           \A j \in DOMAIN inputTypes : inputTypes[j].type = name => j \in cyclic

\* The loop ends.
OrderEnds == order = "running" ~> order \in {"ordered", "cycle"}
=============================================================================
