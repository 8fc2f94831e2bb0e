-------------------------- MODULE InputOrderProofs --------------------------
(***************************************************************************)
(* The order of the input types is right for any number of types, with any *)
(* names and dependencies: an inductive invariant, and what follows of it  *)
(* when the loop has ended.                                                *)
(***************************************************************************)
EXTENDS InputOrder, TLAPS

LEMMA EntryParts ==
  ASSUME OrderTypeOK, NEW i \in DOMAIN inputTypes
  PROVE  /\ inputTypes[i] \in InputEntries
         /\ inputTypes[i].type \in InputNames
         /\ inputTypes[i].dependencies \subseteq InputNames
<1>1. inputTypes[i] \in InputEntries
  BY DEF OrderTypeOK
<1> QED
  BY <1>1 DEF InputEntries

LEMMA Places ==
  ASSUME OrderTypeOK
  PROVE  /\ Len(inputTypes) \in Nat
         /\ DOMAIN inputTypes = 1..Len(inputTypes)
BY DEF OrderTypeOK

\* The places up to n are those up to m and those after it.
LEMMA SplitPlaces ==
  ASSUME NEW m \in Nat, NEW n \in Nat, m <= n, NEW i \in 1..n
  PROVE  i \in 1..m \/ i \in (m + 1)..n
OBVIOUS

LEMMA Below ==
  ASSUME NEW m \in Nat, NEW n \in Nat, m < n
  PROVE  m # n
OBVIOUS

LEMMA InitIsInvariant == OrderInit => OrderIndInv
<1> SUFFICES ASSUME OrderInit PROVE OrderIndInv
  OBVIOUS
<1>1. Len(inputTypes) = 0 /\ inputTypes \in Seq(InputEntries)
  BY DEF OrderInit
<1>2. OrderTypeOK
  BY <1>1 DEF OrderInit, OrderTypeOK
<1>3. NamesFrom(inputTypes, 1, place) = {}
  BY DEF OrderInit, NamesFrom
<1> QED
  BY <1>1, <1>2, <1>3 DEF OrderInit, OrderIndInv

\* A list that is started with is in no order yet.
LEMMA StartIsInvariant ==
  ASSUME OrderIndInv, NEW entries \in InputTypeLists, StartOrder(entries)
  PROVE  OrderIndInv'
<1>1. inputTypes' \in Seq(InputEntries) /\ Len(inputTypes') \in Nat
  BY InputTypeListsAssumption DEF StartOrder
<1>2. OrderTypeOK'
  BY <1>1 DEF StartOrder, OrderTypeOK
<1>3. NamesFrom(inputTypes', 1, place') = {}
  BY DEF StartOrder, NamesFrom
<1> QED
  BY <1>1, <1>2, <1>3 DEF StartOrder, OrderIndInv

\* What a round leaves in the places it does not move.
LEMMA PartitionKeeps ==
  ASSUME OrderIndInv, NEW middle \in place..Len(inputTypes),
         NEW from \in [DOMAIN inputTypes -> DOMAIN inputTypes],
         IsStablePartition(from, place, middle),
         inputTypes' = [i \in DOMAIN inputTypes |-> inputTypes[from[i]]]
  PROVE  /\ inputTypes' \in Seq(InputEntries)
         /\ Len(inputTypes') = Len(inputTypes)
         /\ DOMAIN inputTypes' = DOMAIN inputTypes
         /\ \A i \in 1..place : inputTypes'[i] = inputTypes[i]
         /\ \A i \in (place + 1)..middle : IsReady(inputTypes'[i])
         /\ \A i \in (middle + 1)..Len(inputTypes) : ~IsReady(inputTypes'[i])
<1>1. OrderTypeOK
  BY DEF OrderIndInv
<1>2. Len(inputTypes) \in Nat /\ DOMAIN inputTypes = 1..Len(inputTypes) /\ place \in 0..Len(inputTypes) /\ place \in Nat
  BY <1>1, Places DEF OrderTypeOK
<1>3. \A i \in DOMAIN inputTypes : inputTypes[from[i]] \in InputEntries
  BY <1>1, EntryParts
<1>4. inputTypes' \in [1..Len(inputTypes) -> InputEntries]
  BY <1>2, <1>3
<1>5. inputTypes' \in Seq(InputEntries) /\ Len(inputTypes') = Len(inputTypes) /\ DOMAIN inputTypes' = DOMAIN inputTypes
  BY ONLY <1>2, <1>4
<1>6. \A i \in DOMAIN inputTypes : inputTypes'[i] = inputTypes[from[i]]
  OBVIOUS
<1>7. \A i \in 1..place : inputTypes'[i] = inputTypes[i]
  <2>1. \A i \in 1..place : from[i] = i /\ i \in DOMAIN inputTypes
    BY <1>2 DEF IsStablePartition
  <2> QED
    BY <1>6, <2>1
<1>8. ASSUME NEW i \in (place + 1)..Len(inputTypes)
      PROVE  i <= middle <=> IsReady(inputTypes'[i])
  <2>1. i \in DOMAIN inputTypes /\ i > place
    BY <1>2
  <2>2. i <= middle <=> IsReady(inputTypes[from[i]])
    BY <2>1 DEF IsStablePartition
  <2> QED
    BY <1>6, <2>1, <2>2
<1>9. middle \in Nat /\ middle <= Len(inputTypes) /\ place <= middle
  BY <1>2
<1>10. \A i \in (place + 1)..middle : IsReady(inputTypes'[i])
  BY ONLY <1>2, <1>8, <1>9
<1>11. \A i \in (middle + 1)..Len(inputTypes) : ~IsReady(inputTypes'[i])
  BY ONLY <1>2, <1>8, <1>9
<1> QED
  BY <1>5, <1>7, <1>10, <1>11

LEMMA PartitionIsInvariant ==
  ASSUME OrderIndInv, Partition
  PROVE  OrderIndInv'
<1>1. PICK middle \in place..Len(inputTypes), from \in [DOMAIN inputTypes -> DOMAIN inputTypes] :
        /\ IsStablePartition(from, place, middle)
        /\ inputTypes' = [i \in DOMAIN inputTypes |-> inputTypes[from[i]]]
        /\ IF middle = place
           THEN order' = "cycle" /\ UNCHANGED <<place, handled>>
           ELSE /\ handled' = IF middle = Len(inputTypes) THEN handled
                              ELSE handled \cup NamesFrom(inputTypes', place + 1, middle)
                /\ place' = middle
                /\ UNCHANGED order
  BY DEF Partition
<1>2. /\ inputTypes' \in Seq(InputEntries)
      /\ Len(inputTypes') = Len(inputTypes)
      /\ DOMAIN inputTypes' = DOMAIN inputTypes
      /\ \A i \in 1..place : inputTypes'[i] = inputTypes[i]
      /\ \A i \in (place + 1)..middle : IsReady(inputTypes'[i])
      /\ \A i \in (middle + 1)..Len(inputTypes) : ~IsReady(inputTypes'[i])
  BY <1>1, PartitionKeeps
<1>3. /\ order = "running" /\ place < Len(inputTypes)
      /\ Len(inputTypes) \in Nat /\ DOMAIN inputTypes = 1..Len(inputTypes) /\ place \in Nat
      /\ middle \in Nat /\ place <= middle /\ middle <= Len(inputTypes)
  <2>1. OrderTypeOK /\ order = "running" /\ place < Len(inputTypes)
    BY DEF Partition, OrderIndInv
  <2>2. Len(inputTypes) \in Nat /\ DOMAIN inputTypes = 1..Len(inputTypes) /\ place \in Nat
    BY <2>1, Places DEF OrderTypeOK
  <2> QED
    BY <2>1, <2>2
<1>4. handled = NamesFrom(inputTypes, 1, place)
  <2>1. place # Len(inputTypes)
    BY <1>3, Below
  <2> QED
    BY <2>1 DEF OrderIndInv
<1>5. NamesFrom(inputTypes', 1, place) = NamesFrom(inputTypes, 1, place)
  BY <1>2 DEF NamesFrom
<1>6. \A i \in 1..place : FollowsDependencies(i)'
  <2> SUFFICES ASSUME NEW i \in 1..place, NEW name \in inputTypes'[i].dependencies
               PROVE  \E j \in 1..(i - 1) : inputTypes'[j].type = name
    BY DEF FollowsDependencies
  <2>1. name \in inputTypes[i].dependencies
    BY <1>2
  <2>2. PICK j \in 1..(i - 1) : inputTypes[j].type = name
    BY <2>1 DEF OrderIndInv, FollowsDependencies
  <2>3. j \in 1..place
    BY <1>3, <2>2
  <2> QED
    BY <1>2, <2>2, <2>3
<1>7. \A i \in (place + 1)..middle : FollowsDependencies(i)'
  <2> SUFFICES ASSUME NEW i \in (place + 1)..middle, NEW name \in inputTypes'[i].dependencies
               PROVE  \E j \in 1..(i - 1) : inputTypes'[j].type = name
    BY DEF FollowsDependencies
  <2>1. name \in NamesFrom(inputTypes', 1, place)
    BY <1>2, <1>4, <1>5 DEF IsReady
  <2>2. PICK j \in 1..place : inputTypes'[j].type = name
    BY <2>1 DEF NamesFrom
  <2> QED
    BY <1>3, <2>2
<1>8. CASE middle = place
  <2>1. order' = "cycle" /\ place' = place /\ handled' = handled
    BY <1>1, <1>8
  <2>2. OrderTypeOK'
    BY <1>2, <1>3, <2>1 DEF OrderTypeOK
  <2>3. \A i \in (place' + 1)..Len(inputTypes') : ~IsReady(inputTypes[i])'
    BY <1>2, <1>8, <2>1 DEF IsReady
  <2> QED
    BY <1>2, <1>3, <1>4, <1>5, <1>6, <2>1, <2>2, <2>3 DEF OrderIndInv
<1>9. CASE middle # place
  <2>1. /\ order' = "running" /\ place' = middle
        /\ handled' = IF middle = Len(inputTypes) THEN handled
                      ELSE handled \cup NamesFrom(inputTypes', place + 1, middle)
    BY <1>1, <1>3, <1>9
  <2>2. OrderTypeOK'
    BY <1>2, <1>3, <2>1 DEF OrderTypeOK
  <2>3. NamesFrom(inputTypes', 1, middle) =
          NamesFrom(inputTypes', 1, place) \cup NamesFrom(inputTypes', place + 1, middle)
    BY <1>3 DEF NamesFrom
  <2>4. handled' = NamesFrom(inputTypes', 1, place') \/ place' = Len(inputTypes')
    BY <1>2, <1>4, <1>5, <2>1, <2>3
  <2>5. ASSUME NEW i \in 1..place'
        PROVE  FollowsDependencies(i)'
    <3>1. i \in 1..place \/ i \in (place + 1)..middle
      BY <1>3, <2>1, SplitPlaces
    <3> QED
      BY <1>6, <1>7, <3>1
  <2> QED
    BY <2>1, <2>2, <2>4, <2>5 DEF OrderIndInv
<1> QED
  BY <1>8, <1>9

LEMMA EndIsInvariant ==
  ASSUME OrderIndInv, EndOrder
  PROVE  OrderIndInv'
BY DEF EndOrder, OrderIndInv, OrderTypeOK, FollowsDependencies, NamesFrom, IsReady

\* The invariant of the loop, for every list of types.
THEOREM OrderInvariant == OrderSpec => []OrderIndInv
<1>1. OrderIndInv /\ [OrderNext]_orderVars => OrderIndInv'
  <2> SUFFICES ASSUME OrderIndInv, [OrderNext]_orderVars PROVE OrderIndInv'
    OBVIOUS
  <2>1. CASE \E entries \in InputTypeLists : StartOrder(entries)
    BY <2>1, StartIsInvariant
  <2>2. CASE Partition
    BY <2>2, PartitionIsInvariant
  <2>3. CASE EndOrder
    BY <2>3, EndIsInvariant
  <2>4. CASE UNCHANGED orderVars
    BY <2>4 DEF orderVars, OrderIndInv, OrderTypeOK, FollowsDependencies, NamesFrom, IsReady
  <2> QED
    BY <2>1, <2>2, <2>3, <2>4 DEF OrderNext
<1> QED
  BY InitIsInvariant, <1>1, PTL DEF OrderSpec

\* Every input type is written after those that it holds by value, whatever
\* the schema is (reorderInputTypeDependencies).
THEOREM AlwaysDependenciesFirst == OrderSpec => []DependenciesFirst
<1>1. OrderIndInv => DependenciesFirst
  BY Places DEF OrderIndInv, DependenciesFirst
<1> QED
  BY OrderInvariant, <1>1, PTL

\* A schema that is refused for a cycle has one, or a type that is unknown.
THEOREM CyclesAreReal == OrderSpec => []CycleIsReal
<1>1. OrderIndInv => CycleIsReal
  <2> SUFFICES ASSUME OrderIndInv, order = "cycle"
               PROVE  \E cyclic \in SUBSET DOMAIN inputTypes :
                        /\ cyclic # {}
                        /\ \A i \in cyclic : \E name \in inputTypes[i].dependencies :
                             \A j \in DOMAIN inputTypes : inputTypes[j].type = name => j \in cyclic
    BY DEF CycleIsReal
  <2>1. /\ Len(inputTypes) \in Nat /\ DOMAIN inputTypes = 1..Len(inputTypes) /\ place \in Nat
        /\ place < Len(inputTypes)
        /\ handled = NamesFrom(inputTypes, 1, place)
        /\ \A i \in (place + 1)..Len(inputTypes) : ~IsReady(inputTypes[i])
    BY Places DEF OrderIndInv, OrderTypeOK
  <2>2. (place + 1)..Len(inputTypes) \in SUBSET DOMAIN inputTypes /\ (place + 1)..Len(inputTypes) # {}
    BY <2>1
  <2>3. ASSUME NEW i \in (place + 1)..Len(inputTypes)
        PROVE  \E name \in inputTypes[i].dependencies :
                 \A j \in DOMAIN inputTypes : inputTypes[j].type = name => j \in (place + 1)..Len(inputTypes)
    <3>1. PICK name \in inputTypes[i].dependencies : name \notin handled
      BY <2>1 DEF IsReady
    <3>2. \A j \in 1..place : inputTypes[j].type # name
      BY <2>1, <3>1 DEF NamesFrom
    <3> QED
      BY <2>1, <3>2
  <2> QED
    BY <2>2, <2>3
<1> QED
  BY OrderInvariant, <1>1, PTL
=============================================================================
