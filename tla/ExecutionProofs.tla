-------------------------- MODULE ExecutionProofs --------------------------
(***************************************************************************)
(* What holds of the execution of an operation for every document, launch  *)
(* policy, outcome and order of results.                                   *)
(***************************************************************************)
EXTENDS Execution, FiniteSetTheorems, SequenceTheorems, TLAPS

-----------------------------------------------------------------------------
(* The inductive invariant                                                 *)

Aliases == {Alias[n] : n \in Fields}
Paths == Seq(Aliases)
Definitions == {Fragment[n] : n \in Spreads} \cup {NoDirectives}
Scopes == [kind : {"set", "spread", "inline"}, node : Nodes \cup {NoDirectives}, todo : Seq(Nodes)]

\* The first scope is the selection set, the others are fragments in it.
Nests == {nest \in Seq(Scopes) :
            nest # <<>> /\ \A i \in 1..Len(nest) : nest[i].kind = "set" <=> i = 1}

\* What a field of a document may be, of the results that are ready.
Entry(alias, q) == [alias |-> alias, kind |-> results[q].kind, fields |-> results[q].fields]
Entries == {Entry(alias, q) : alias \in Aliases, q \in DOMAIN results}

VisitorType(E) ==
  [phase : {"launched", "visiting", "awaiting", "done", "threw"}, detached : BOOLEAN,
   nest : Nests, names : SUBSET Aliases, values : Seq(Aliases), fields : Seq(E),
   errors : Seq(Paths)]
ResultType(E) == [kind : {"null", "scalar", "object"}, fields : Seq(E), errors : Seq(Paths)]
ObservedType ==
  [node : Fields, nest : Nests, definitions : Seq(Definitions),
   spreads : Seq(Spreads \cup {NoDirectives}), inlines : Seq(Inlines \cup {NoDirectives})]

\* Data is as declared; the entries of documents are those of ready results.
Typed ==
  /\ request \in [policy : {"sync", "async"}, isMutation : BOOLEAN]
  /\ conditions \in [Nodes -> ConditionValues]
  /\ outcomes \in [Fields -> OutcomeValues]
  /\ DOMAIN visitors \cup DOMAIN results \cup DOMAIN observed \subseteq Paths
  /\ visitors \in [DOMAIN visitors -> VisitorType(Entries)]
  /\ results \in [DOMAIN results -> ResultType(Entries)]
  /\ observed \in [DOMAIN observed -> ObservedType]
  /\ definitions \in Seq(Definitions)
  /\ spreads \in Seq(Spreads \cup {NoDirectives})
  /\ inlines \in Seq(Inlines \cup {NoDirectives})

\* The path is that of a value of a visitor.
HasParent(q) ==
  \E p \in DOMAIN visitors : \E i \in DOMAIN visitors[p].values : q = Append(p, visitors[p].values[i])

\* Visitors, accessors and results form a tree, along the values that each
\* visitor awaits; a value whose accessor was called is resolved by a visitor,
\* waits on a thread of its own or is ready, and a visitor is ready at its end.
Tree ==
  /\ <<>> \in DOMAIN visitors
  /\ <<>> \notin DOMAIN observed
  /\ DOMAIN visitors \subseteq DOMAIN observed \cup {<<>>}
  /\ \A q \in (DOMAIN observed \cup DOMAIN results) \ {<<>>} : HasParent(q)
  /\ awaited \subseteq DOMAIN observed \ (DOMAIN results \cup DOMAIN visitors)
  /\ DOMAIN observed \subseteq DOMAIN visitors \cup awaited \cup DOMAIN results
  /\ \A p \in DOMAIN visitors : p \in DOMAIN results <=> visitors[p].phase \in Ended

\* A visitor awaits each response name once, and somebody answers for it.
AwaitedOnce ==
  \A p \in DOMAIN visitors : \A i \in DOMAIN visitors[p].values :
    /\ visitors[p].values[i] \in visitors[p].names
    /\ \A j \in DOMAIN visitors[p].values : visitors[p].values[i] = visitors[p].values[j] => i = j
    /\ Append(p, visitors[p].values[i]) \in DOMAIN observed \cup DOMAIN results

\* A document has the results of the first values, in their order.
Assembled ==
  /\ \A p \in DOMAIN visitors :
       /\ Len(visitors[p].fields) <= Len(visitors[p].values)
       /\ \A i \in 1..Len(visitors[p].fields) :
            /\ Append(p, visitors[p].values[i]) \in DOMAIN results
            /\ visitors[p].fields[i] = Entry(visitors[p].values[i], Append(p, visitors[p].values[i]))
       /\ visitors[p].phase = "done" =>
            /\ Len(visitors[p].fields) = Len(visitors[p].values)
            /\ results[p].kind = "object"
            /\ results[p].fields = visitors[p].fields
       /\ visitors[p].phase = "threw" => results[p] = Null(<<<<>>>>)
  /\ \A q \in DOMAIN results : results[q].kind = "object" => q \in DOMAIN visitors

\* A visitor outlives one above it only if an exception ended one of those and
\* the one below that was on a thread of its own.
Prefix(q, k) == SubSeq(q, 1, k)
Orphaned(q, k) ==
  \E j \in k..(Len(q) - 1) :
     visitors[Prefix(q, j)].phase = "threw" /\ visitors[Prefix(q, j + 1)].detached
Orphans ==
  \A q \in DOMAIN visitors : \A k \in 0..Len(q) :
    /\ Prefix(q, k) \in DOMAIN visitors
    /\ visitors[Prefix(q, k)].phase \in Ended => visitors[q].phase \in Ended \/ Orphaned(q, k)

\* What the visitor was doing when it is between two pushes or pops.
Between(v, change) ==
  /\ v.phase = "visiting"
  /\ \/ change \in {"startSpreads", "startInlines"} /\ Len(v.nest) = 1
     \/ change = "pushSpread" /\ Innermost(v).kind = "spread" /\ Innermost(v).node \in Spreads
     \/ change = "popDefinition" /\ Innermost(v).kind = "spread" /\ Innermost(v).todo = <<>>

Changing ==
  /\ DOMAIN changes \subseteq DOMAIN visitors
  /\ \A p \in DOMAIN changes : Between(visitors[p], changes[p])
  /\ \A p \in DOMAIN visitors : visitors[p].phase = "launched" => Len(visitors[p].nest) = 1

\* What visitors pushed is there, and there is nothing else.
Lists == {"definitions", "spreads", "inlines"}
Pushed ==
  /\ \A list \in Lists : IsFiniteSet(Holders(list))
  /\ PoppedWasPushed

Inv == Typed /\ Tree /\ AwaitedOnce /\ Assembled /\ Orphans /\ Changing /\ Pushed

-----------------------------------------------------------------------------
(* Paths and visitors                                                      *)

\* A path with one more alias has that of its parent in front.
LEMMA ChildPath ==
  ASSUME NEW p \in Paths, NEW a \in Aliases
  PROVE  /\ Append(p, a) \in Paths
         /\ Append(p, a) # <<>>
         /\ Len(Append(p, a)) = Len(p) + 1
         /\ \A k \in 0..Len(p) : Prefix(Append(p, a), k) = Prefix(p, k)
         /\ Prefix(p, Len(p)) = p
         /\ \A t \in Paths, b \in Aliases : Append(p, a) = Append(t, b) <=> p = t /\ a = b
<1>1. /\ Append(p, a) \in Paths /\ Append(p, a) # <<>> /\ Len(Append(p, a)) = Len(p) + 1
      /\ \A i \in 1..Len(p) : Append(p, a)[i] = p[i]
  BY AppendProperties DEF Paths
<1>2. ASSUME NEW k \in 0..Len(p)
      PROVE  Prefix(Append(p, a), k) = Prefix(p, k)
  BY <1>1, <1>2 DEF Prefix, Paths
<1>3. Prefix(p, Len(p)) = p
  BY SubSeqFull DEF Paths, Prefix
<1>4. \A t \in Paths, b \in Aliases : Append(p, a) = Append(t, b) <=> p = t /\ a = b
  BY AppendInjective DEF Paths
<1> QED  BY <1>1, <1>2, <1>3, <1>4

\* The innermost scope of a visitor.
LEMMA InnermostScope ==
  ASSUME NEW E, NEW v \in VisitorType(E)
  PROVE  /\ Len(v.nest) \in Nat \ {0}
         /\ v.nest \in Seq(Scopes)
         /\ Innermost(v) = v.nest[Len(v.nest)]
         /\ Innermost(v) \in Scopes
         /\ Innermost(v).kind = "set" <=> Len(v.nest) = 1
<1>1. v.nest \in Nests
  BY DEF VisitorType
<1>2. /\ v.nest \in Seq(Scopes) /\ v.nest # <<>>
      /\ \A i \in 1..Len(v.nest) : v.nest[i].kind = "set" <=> i = 1
  BY <1>1 DEF Nests
<1>3. Len(v.nest) \in Nat \ {0}
  BY <1>2, EmptySeq
<1>4. v.nest[Len(v.nest)] \in Scopes
  BY <1>2, <1>3
<1>5. Len(v.nest) \in 1..Len(v.nest)
  BY <1>3
<1>6. v.nest[Len(v.nest)].kind = "set" <=> Len(v.nest) = 1
  BY <1>2, <1>5
<1> QED  BY <1>2, <1>3, <1>4, <1>6 DEF Innermost

\* Visiting a node takes it off the innermost scope and changes nothing else.
LEMMA AdvancedVisitor ==
  ASSUME NEW E, NEW v \in VisitorType(E), Innermost(v).todo # <<>>
  PROVE  /\ Advanced(v) \in VisitorType(E)
         /\ Advanced(v) = [v EXCEPT !.nest = Advanced(v).nest]
         /\ Len(Advanced(v).nest) = Len(v.nest)
         /\ \A i \in 1..Len(v.nest) : Advanced(v).nest[i].kind = v.nest[i].kind
<1> DEFINE n == Len(v.nest)
           scope == [v.nest[n] EXCEPT !.todo = Tail(@)]
           nest == [v.nest EXCEPT ![n] = scope]
<1>1. n \in Nat \ {0} /\ v.nest \in Seq(Scopes) /\ v.nest[n] \in Scopes /\ v.nest[n].todo # <<>>
  BY InnermostScope
<1>2. Tail(v.nest[n].todo) \in Seq(Nodes)
  BY <1>1 DEF Scopes
<1>3. scope \in Scopes /\ scope.kind = v.nest[n].kind
  BY <1>1, <1>2 DEF Scopes
<1>4. /\ nest \in Seq(Scopes) /\ Len(nest) = n
      /\ \A i \in 1..n : nest[i].kind = v.nest[i].kind
  BY <1>1, <1>3
<1>5. nest \in Nests
  BY <1>1, <1>4 DEF Nests, VisitorType
<1>6. Advanced(v) = [v EXCEPT !.nest = nest]
  BY DEF Advanced, VisitorType
<1> HIDE DEF nest
<1>7. [v EXCEPT !.nest = nest] \in VisitorType(E) /\ [v EXCEPT !.nest = nest].nest = nest
  BY <1>5 DEF VisitorType
<1> QED  BY <1>4, <1>6, <1>7

-----------------------------------------------------------------------------
(* Steps of a visitor that change neither results nor what it awaits       *)

\* The visit of a node goes on, and what is awaited stays the same.
GoesOn(v, w) ==
  /\ w.values = v.values /\ w.fields = v.fields /\ w.detached = v.detached
  /\ v.names \subseteq w.names
  /\ v.phase \notin Ended /\ w.phase \notin Ended /\ w.phase # "launched"

LEMMA GoingOn ==
  ASSUME Typed, Tree, AwaitedOnce, Assembled, Orphans,
         NEW p \in DOMAIN visitors, NEW w \in VisitorType(Entries), GoesOn(visitors[p], w),
         visitors' = [visitors EXCEPT ![p] = w],
         UNCHANGED <<document, awaited, results, observed>>
  PROVE  Tree' /\ AwaitedOnce' /\ Assembled' /\ Orphans'
<1>1. DOMAIN visitors' = DOMAIN visitors
  BY DEF Typed
<1>2. ASSUME NEW q \in DOMAIN visitors
      PROVE  /\ visitors'[q].values = visitors[q].values
             /\ visitors'[q].fields = visitors[q].fields
             /\ visitors'[q].detached = visitors[q].detached
             /\ visitors[q].names \subseteq visitors'[q].names
             /\ visitors'[q].phase \in Ended <=> visitors[q].phase \in Ended
             /\ visitors'[q].phase = "done" <=> visitors[q].phase = "done"
             /\ visitors'[q].phase = "threw" <=> visitors[q].phase = "threw"
  BY DEF Typed, GoesOn, Ended
<1>3. UNCHANGED <<awaited, results, observed>>
  OBVIOUS
<1> HIDE DEF document
<1>4. Tree'
  BY <1>1, <1>2, <1>3 DEF Tree, HasParent
<1>5. AwaitedOnce'
  BY <1>1, <1>2, <1>3 DEF AwaitedOnce
<1>6. Assembled'
  BY <1>1, <1>2, <1>3 DEF Assembled, Entry, Null
<1>7. Orphans'
  BY <1>1, <1>2 DEF Orphans, Orphaned
<1> QED  BY <1>4, <1>5, <1>6, <1>7

\* Its entries stay the entries of results, so what is typed stays typed.
LEMMA GoingOnTyped ==
  ASSUME Typed, NEW p \in DOMAIN visitors, NEW w \in VisitorType(Entries),
         visitors' = [visitors EXCEPT ![p] = w],
         UNCHANGED <<document, awaited, results, observed>>,
         definitions' \in Seq(Definitions),
         spreads' \in Seq(Spreads \cup {NoDirectives}),
         inlines' \in Seq(Inlines \cup {NoDirectives})
  PROVE  Typed'
<1>1. Entries' = Entries
  BY DEF Entries, Entry
<1>2. VisitorType(Entries)' = VisitorType(Entries) /\ ResultType(Entries)' = ResultType(Entries)
  BY <1>1 DEF VisitorType, ResultType
<1>3. DOMAIN visitors' = DOMAIN visitors /\ visitors' \in [DOMAIN visitors -> VisitorType(Entries)]
  BY DEF Typed
<1> QED  BY <1>2, <1>3 DEF Typed, document

-----------------------------------------------------------------------------
(* The lists of directives                                                 *)

\* Scopes, phases and changes stay as they are, and new visitors start later.
LEMMA StacksSame ==
  ASSUME Changing, Pushed, UNCHANGED stacks, DOMAIN visitors \subseteq DOMAIN visitors',
         \A q \in DOMAIN visitors :
            /\ Len(visitors'[q].nest) = Len(visitors[q].nest)
            /\ \A i \in 1..Len(visitors[q].nest) :
                  visitors'[q].nest[i].kind = visitors[q].nest[i].kind
            /\ visitors'[q].phase = "launched" <=> visitors[q].phase = "launched"
            /\ q \in DOMAIN changes => visitors'[q] = visitors[q],
         \A q \in DOMAIN visitors' \ DOMAIN visitors :
            visitors'[q].phase = "launched" /\ Len(visitors'[q].nest) = 1
  PROVE  Changing' /\ Pushed'
<1>1. UNCHANGED <<definitions, spreads, inlines, changes>>
  BY DEF stacks
<1>2. Changing'
  BY <1>1 DEF Changing, Between, Innermost
<1>3. ASSUME NEW list, NEW q \in DOMAIN visitors
      PROVE  Holds(list, q)' = Holds(list, q)
  BY <1>1 DEF Holds
<1>4. ASSUME NEW list, NEW q \in DOMAIN visitors' \ DOMAIN visitors
      PROVE  Holds(list, q)' = {}
  BY <1>4 DEF Holds
<1>5. ASSUME NEW list
      PROVE  Holders(list)' = Holders(list)
  BY <1>3, <1>4 DEF Holders
<1> QED  BY <1>1, <1>2, <1>5 DEF Pushed, PoppedWasPushed

\* One scope of a visitor gets or loses its entry in a list, or none does.
Fits(list, p, length, next) ==
  \/ Holds(list, p)' = Holds(list, p) /\ next = length
  \/ \E i : i \notin Holds(list, p) /\ Holds(list, p)' = Holds(list, p) \cup {i} /\ next = length + 1
  \/ \E i \in Holds(list, p) : Holds(list, p)' = Holds(list, p) \ {i} /\ next = length - 1

LEMMA OneFits ==
  ASSUME NEW list, NEW p \in DOMAIN visitors, DOMAIN visitors' = DOMAIN visitors,
         \A q \in DOMAIN visitors \ {p} : Holds(list, q)' = Holds(list, q),
         IsFiniteSet(Holders(list)), NEW next, Fits(list, p, Cardinality(Holders(list)), next)
  PROVE  IsFiniteSet(Holders(list)') /\ next = Cardinality(Holders(list)')
<1>1. \A q, i : <<q, i>> \in Holders(list) <=> q \in DOMAIN visitors /\ i \in Holds(list, q)
  BY DEF Holders
<1>2. \A q, i : <<q, i>> \in Holders(list)' <=> q \in DOMAIN visitors /\ i \in Holds(list, q)'
  BY DEF Holders
<1>3. /\ \A s \in Holders(list) : s = <<s[1], s[2]>>
      /\ \A s \in Holders(list)' : s = <<s[1], s[2]>>
  BY DEF Holders
<1> DEFINE H == Holders(list)
           next_H == Holders(list)'
<1>4. CASE Holds(list, p)' = Holds(list, p) /\ next = Cardinality(H)
  <2>1. next_H = H
    BY <1>4 DEF Holders
  <2> QED  BY <1>4, <2>1
<1>5. ASSUME NEW i, i \notin Holds(list, p), Holds(list, p)' = Holds(list, p) \cup {i}, next = Cardinality(H) + 1
      PROVE  IsFiniteSet(next_H) /\ next = Cardinality(next_H)
  <2>1. <<p, i>> \notin H
    BY <1>1, <1>5
  <2>2. \A q, j : <<q, j>> \in next_H <=> <<q, j>> \in H \/ <<q, j>> = <<p, i>>
    <3>1. ASSUME NEW q, NEW j, q # p
          PROVE  <<q, j>> \in next_H <=> <<q, j>> \in H
      BY <1>1, <1>2, <3>1
    <3>2. ASSUME NEW j
          PROVE  <<p, j>> \in next_H <=> <<p, j>> \in H \/ j = i
      BY <1>1, <1>2, <1>5
    <3> HIDE DEF H, next_H
    <3> QED  BY <3>1, <3>2
  <2>3. next_H = H \cup {<<p, i>>}
    <3> HIDE DEF H, next_H
    <3>1. (\A s \in H : s = <<s[1], s[2]>>) /\ (\A s \in next_H : s = <<s[1], s[2]>>)
      BY <1>3 DEF H, next_H
    <3> QED  BY <2>2, <3>1
  <2> QED  BY <1>5, <2>1, <2>3, FS_AddElement
<1>6. ASSUME NEW i \in Holds(list, p), Holds(list, p)' = Holds(list, p) \ {i}, next = Cardinality(H) - 1
      PROVE  IsFiniteSet(next_H) /\ next = Cardinality(next_H)
  <2>1. <<p, i>> \in H
    BY <1>1
  <2>2. \A q, j : <<q, j>> \in next_H <=> <<q, j>> \in H /\ <<q, j>> # <<p, i>>
    <3>1. ASSUME NEW q, NEW j, q # p
          PROVE  <<q, j>> \in next_H <=> <<q, j>> \in H
      BY <1>1, <1>2, <3>1
    <3>2. ASSUME NEW j
          PROVE  <<p, j>> \in next_H <=> <<p, j>> \in H /\ j # i
      BY <1>1, <1>2, <1>6
    <3> HIDE DEF H, next_H
    <3> QED  BY <3>1, <3>2
  <2>3. next_H = H \ {<<p, i>>}
    <3> HIDE DEF H, next_H
    <3>1. (\A s \in H : s = <<s[1], s[2]>>) /\ (\A s \in next_H : s = <<s[1], s[2]>>)
      BY <1>3 DEF H, next_H
    <3> QED  BY <2>2, <3>1
  <2> QED  BY <1>6, <2>1, <2>3, FS_RemoveElement
<1> QED  BY <1>4, <1>5, <1>6 DEF Fits

\* A list with the entry of a scope is not empty.
LEMMA HeldIsThere ==
  ASSUME Inv, NEW p \in DOMAIN visitors, NEW list \in Lists, NEW i \in Holds(list, p)
  PROVE  /\ list = "definitions" => definitions # <<>>
         /\ list = "spreads" => spreads # <<>>
         /\ list = "inlines" => inlines # <<>>
<1>1. IsFiniteSet(Holders(list)) /\ <<p, i>> \in Holders(list)
  BY DEF Inv, Pushed, Holders
<1>2. Cardinality(Holders(list)) # 0
  BY <1>1, FS_EmptySet
<1> QED  BY <1>2 DEF Inv, Pushed, PoppedWasPushed, Lists

\* A visitor goes on, and pushes or pops.
LEMMA StackStep ==
  ASSUME Inv, NEW p \in DOMAIN visitors, NEW w \in VisitorType(Entries), GoesOn(visitors[p], w),
         visitors' = [visitors EXCEPT ![p] = w],
         UNCHANGED <<document, awaited, results, observed>>,
         definitions' \in Seq(Definitions),
         spreads' \in Seq(Spreads \cup {NoDirectives}),
         inlines' \in Seq(Inlines \cup {NoDirectives}),
         \A q : q # p => (q \in DOMAIN changes' <=> q \in DOMAIN changes),
         \A q \in DOMAIN changes : q # p => changes'[q] = changes[q],
         p \in DOMAIN changes' => Between(w, changes'[p]),
         Fits("definitions", p, Len(definitions), Len(definitions')),
         Fits("spreads", p, Len(spreads), Len(spreads')),
         Fits("inlines", p, Len(inlines), Len(inlines'))
  PROVE  Inv'
<1>1. Tree' /\ AwaitedOnce' /\ Assembled' /\ Orphans'
  BY GoingOn DEF Inv
<1>2. Typed'
  BY GoingOnTyped DEF Inv
<1>3. DOMAIN visitors' = DOMAIN visitors /\ visitors'[p] = w
      /\ \A q \in DOMAIN visitors : q # p => visitors'[q] = visitors[q]
  BY DEF Inv, Typed
<1>4. Changing'
  <2>1. \A q \in DOMAIN changes' : q \in DOMAIN visitors' /\ Between(visitors'[q], changes'[q])
    BY <1>3 DEF Inv, Changing
  <2>2. \A q \in DOMAIN visitors' : visitors'[q].phase = "launched" => Len(visitors'[q].nest) = 1
    BY <1>3 DEF Inv, Changing, GoesOn
  <2> QED  BY <2>1, <2>2 DEF Changing, Between
<1>5. ASSUME NEW list, NEW q \in DOMAIN visitors \ {p}
      PROVE  Holds(list, q)' = Holds(list, q)
  BY <1>3 DEF Holds
<1>6. \A list \in Lists : IsFiniteSet(Holders(list))
  BY DEF Inv, Pushed
<1>7. IsFiniteSet(Holders("definitions")') /\ Len(definitions') = Cardinality(Holders("definitions")')
  BY <1>3, <1>5, <1>6, OneFits DEF Inv, Pushed, PoppedWasPushed, Lists
<1>8. IsFiniteSet(Holders("spreads")') /\ Len(spreads') = Cardinality(Holders("spreads")')
  BY <1>3, <1>5, <1>6, OneFits DEF Inv, Pushed, PoppedWasPushed, Lists
<1>9. IsFiniteSet(Holders("inlines")') /\ Len(inlines') = Cardinality(Holders("inlines")')
  BY <1>3, <1>5, <1>6, OneFits DEF Inv, Pushed, PoppedWasPushed, Lists
<1>10. Pushed'
  BY <1>7, <1>8, <1>9 DEF Pushed, PoppedWasPushed, Lists
<1> QED  BY <1>1, <1>2, <1>4, <1>10 DEF Inv

LEMMA PushOrPop ==
  ASSUME NEW S, NEW list \in Seq(S)
  PROVE  /\ Len(list) \in Nat
         /\ \A x \in S : <<x>> \o list \in Seq(S) /\ Len(<<x>> \o list) = Len(list) + 1
         /\ list # <<>> => Tail(list) \in Seq(S) /\ Len(Tail(list)) = Len(list) - 1
OBVIOUS

LEMMA SetAndWithout ==
  ASSUME NEW f, NEW x, NEW y
  PROVE  /\ x \in DOMAIN Set(f, x, y) /\ Set(f, x, y)[x] = y
         /\ \A z : z # x => (z \in DOMAIN Set(f, x, y) <=> z \in DOMAIN f)
         /\ \A z \in DOMAIN f : z # x => Set(f, x, y)[z] = f[z]
         /\ x \notin DOMAIN Without(f, x)
         /\ \A z : z # x => (z \in DOMAIN Without(f, x) <=> z \in DOMAIN f)
         /\ \A z \in DOMAIN f : z # x => Without(f, x)[z] = f[z]
BY DEF Set, Without

-----------------------------------------------------------------------------
(* The steps that launch nothing                                           *)

LEMMA StartInv ==
  ASSUME Inv, NEW p \in DOMAIN visitors, Start(p)
  PROVE  Inv'
<1> DEFINE w == [visitors[p] EXCEPT !.phase = "visiting"]
<1>1. visitors[p] \in VisitorType(Entries) /\ visitors[p].phase = "launched"
  BY DEF Inv, Typed, Start
<1>2. w \in VisitorType(Entries) /\ w.nest = visitors[p].nest /\ GoesOn(visitors[p], w) /\ w.phase = "visiting"
  BY <1>1 DEF VisitorType, GoesOn, Start, Ended
<1>3. visitors' = [visitors EXCEPT ![p] = w]
  BY DEF Start
<1> HIDE DEF w
<1>4. /\ p \notin DOMAIN changes /\ Len(visitors[p].nest) = 1 /\ visitors[p].nest[1].kind = "set"
      /\ visitors'[p] = w
  <2>1. Innermost(visitors[p]).kind = "set"
    BY <1>1, InnermostScope DEF Inv, Changing
  <2> QED  BY <1>1, <1>3, <2>1 DEF Inv, Typed, Changing, Between, Innermost
<1>5. p \in DOMAIN changes' /\ changes'[p] = "startSpreads"
  BY SetAndWithout DEF Start
<1>6. /\ \A list \in Lists : Holds(list, p) = {}
      /\ Holds("definitions", p)' = {1} /\ Holds("spreads", p)' = {} /\ Holds("inlines", p)' = {}
  <2>1. \A list \in Lists : Holds(list, p) = {}
    BY <1>1 DEF Holds
  <2>2. Holds("definitions", p)' = {1}
    BY <1>2, <1>4, <1>5 DEF Holds, Lacking
  <2>3. ASSUME NEW list \in {"spreads", "inlines"}
        PROVE  Holds(list, p)' = {}
    <3>1. list \in Lacking[changes'[p]]
      BY <1>5 DEF Lacking
    <3>2. Len(visitors'[p].nest) = 1
      BY <1>2, <1>4
    <3> QED  BY <1>5, <3>1, <3>2 DEF Holds
  <2> QED  BY <2>1, <2>2, <2>3
<1>7. /\ Fits("definitions", p, Len(definitions), Len(definitions) + 1)
      /\ Fits("spreads", p, Len(spreads), Len(spreads))
      /\ Fits("inlines", p, Len(inlines), Len(inlines))
  BY <1>6 DEF Fits, Lists
<1>8. /\ definitions' \in Seq(Definitions) /\ Len(definitions') = Len(definitions) + 1
      /\ spreads' = spreads /\ inlines' = inlines
  BY PushOrPop DEF Inv, Typed, Start, Definitions
<1>9. Between(w, changes'[p])
  BY <1>2, <1>4, <1>5 DEF Between
<1>10. /\ \A q : q # p => (q \in DOMAIN changes' <=> q \in DOMAIN changes)
       /\ \A q \in DOMAIN changes : q # p => changes'[q] = changes[q]
  BY SetAndWithout DEF Start
<1> QED  BY <1>2, <1>3, <1>7, <1>8, <1>9, <1>10, StackStep DEF Inv, Typed, Start

\* Any step that goes on with the stacks as they are.
LEMMA QuietInv ==
  ASSUME Inv, NEW p \in DOMAIN visitors, NEW w \in VisitorType(Entries), GoesOn(visitors[p], w),
         visitors[p].phase # "launched", p \notin DOMAIN changes,
         Len(w.nest) = Len(visitors[p].nest),
         \A i \in 1..Len(w.nest) : w.nest[i].kind = visitors[p].nest[i].kind,
         visitors' = [visitors EXCEPT ![p] = w],
         UNCHANGED <<document, awaited, results, stacks, observed>>
  PROVE  Inv'
<1>1. UNCHANGED <<definitions, spreads, inlines>>
  BY DEF stacks
<1>2. Tree' /\ AwaitedOnce' /\ Assembled' /\ Orphans'
  BY GoingOn DEF Inv
<1>3. Typed'
  BY <1>1, GoingOnTyped DEF Inv, Typed
<1>4. Changing' /\ Pushed'
  <2>1. DOMAIN visitors' = DOMAIN visitors /\ visitors'[p] = w
        /\ \A q \in DOMAIN visitors : q # p => visitors'[q] = visitors[q]
    BY DEF Inv, Typed
  <2>2. w.phase # "launched" /\ UNCHANGED stacks
    BY DEF GoesOn
  <2> QED  BY <2>1, <2>2, StacksSame DEF Inv
<1> QED  BY <1>2, <1>3, <1>4 DEF Inv

\* What a visit may do to its visitor, besides taking off the node.
LEMMA VisitedVisitor ==
  ASSUME Inv, NEW p \in DOMAIN visitors, NEW n \in Nodes, Visits(p, n)
  PROVE  /\ visitors[p] \in VisitorType(Entries)
         /\ visitors[p].phase = "visiting" /\ p \notin DOMAIN changes
         /\ Innermost(visitors[p]).todo # <<>>
         /\ Advanced(visitors[p]) \in VisitorType(Entries)
         /\ GoesOn(visitors[p], Advanced(visitors[p]))
         /\ Len(Advanced(visitors[p]).nest) = Len(visitors[p].nest)
         /\ \A i \in 1..Len(visitors[p].nest) :
               Advanced(visitors[p]).nest[i].kind = visitors[p].nest[i].kind
         /\ Advanced(visitors[p]) = [visitors[p] EXCEPT !.nest = Advanced(visitors[p]).nest]
<1>1. visitors[p] \in VisitorType(Entries)
  BY DEF Inv, Typed
<1>2. visitors[p].phase = "visiting" /\ p \notin DOMAIN changes /\ Innermost(visitors[p]).todo # <<>>
  BY DEF Visits
<1>3. /\ Advanced(visitors[p]) \in VisitorType(Entries)
      /\ Len(Advanced(visitors[p]).nest) = Len(visitors[p].nest)
      /\ \A i \in 1..Len(visitors[p].nest) :
            Advanced(visitors[p]).nest[i].kind = visitors[p].nest[i].kind
      /\ Advanced(visitors[p]) = [visitors[p] EXCEPT !.nest = Advanced(visitors[p]).nest]
  BY <1>1, <1>2, AdvancedVisitor
<1>4. GoesOn(visitors[p], Advanced(visitors[p]))
  BY <1>1, <1>2, <1>3 DEF VisitorType, GoesOn, Ended
<1> QED  BY <1>1, <1>2, <1>3, <1>4

LEMMA SkipNameInv ==
  ASSUME Inv, NEW p \in DOMAIN visitors, NEW n \in Nodes, Visits(p, n), SkipName(p, n)
  PROVE  Inv'
BY VisitedVisitor, QuietInv DEF SkipName

LEMMA SkipFragmentInv ==
  ASSUME Inv, NEW p \in DOMAIN visitors, NEW n \in Nodes, Visits(p, n), SkipFragment(p, n)
  PROVE  Inv'
BY VisitedVisitor, QuietInv DEF SkipFragment

\* Remembering a name.
LEMMA NamedVisitor ==
  ASSUME Inv, NEW p \in DOMAIN visitors, NEW n \in Fields, Visits(p, n)
  PROVE  /\ Named(visitors[p], n) \in VisitorType(Entries)
         /\ GoesOn(visitors[p], Named(visitors[p], n))
         /\ Named(visitors[p], n).nest = Advanced(visitors[p]).nest
         /\ Named(visitors[p], n).names = visitors[p].names \cup {Alias[n]}
<1>1. n \in Nodes
  BY DEF Nodes
<1>2. Alias[n] \in Aliases
  BY DEF Aliases
<1>3. /\ visitors[p] \in VisitorType(Entries) /\ Advanced(visitors[p]) \in VisitorType(Entries)
      /\ GoesOn(visitors[p], Advanced(visitors[p]))
      /\ Advanced(visitors[p]).names = visitors[p].names
  BY <1>1, VisitedVisitor DEF VisitorType
<1> DEFINE v == Advanced(visitors[p])
<1> HIDE DEF v
<1>4. /\ [v EXCEPT !.names = @ \cup {Alias[n]}] \in VisitorType(Entries)
      /\ [v EXCEPT !.names = @ \cup {Alias[n]}].nest = v.nest
      /\ [v EXCEPT !.names = @ \cup {Alias[n]}].names = v.names \cup {Alias[n]}
      /\ GoesOn(visitors[p], [v EXCEPT !.names = @ \cup {Alias[n]}])
  BY <1>2, <1>3 DEF v, VisitorType, GoesOn
<1> QED  BY <1>3, <1>4 DEF Named, v

LEMMA SkipFieldInv ==
  ASSUME Inv, NEW p \in DOMAIN visitors, NEW n \in Nodes, Visits(p, n), SkipField(p, n)
  PROVE  Inv'
<1> DEFINE w == Named(visitors[p], n)
<1>1. n \in Fields /\ visitors' = [visitors EXCEPT ![p] = w]
      /\ UNCHANGED <<document, awaited, results, stacks, observed>>
  BY DEF SkipField, Unseen
<1>2. /\ w \in VisitorType(Entries) /\ GoesOn(visitors[p], w)
      /\ Len(w.nest) = Len(visitors[p].nest)
      /\ \A i \in 1..Len(w.nest) : w.nest[i].kind = visitors[p].nest[i].kind
  BY <1>1, NamedVisitor, VisitedVisitor
<1>3. visitors[p].phase # "launched" /\ p \notin DOMAIN changes
  BY DEF Visits
<1> HIDE DEF w
<1> QED  BY <1>1, <1>2, <1>3, QuietInv

LEMMA GetValuesInv ==
  ASSUME Inv, NEW p \in DOMAIN visitors, GetValues(p)
  PROVE  Inv'
<1> DEFINE w == [visitors[p] EXCEPT !.phase = "awaiting"]
<1>1. visitors[p] \in VisitorType(Entries)
  BY DEF Inv, Typed
<1>2. w \in VisitorType(Entries) /\ w.nest = visitors[p].nest /\ GoesOn(visitors[p], w)
  BY <1>1 DEF VisitorType, GoesOn, GetValues, AtEnd, Ended
<1>3. visitors' = [visitors EXCEPT ![p] = w]
  BY DEF GetValues
<1> HIDE DEF w
<1> QED  BY <1>2, <1>3, QuietInv DEF GetValues, AtEnd

-----------------------------------------------------------------------------
(* Entering and leaving fragments                                          *)

\* The visitor inside the fragment.
LEMMA EnteredVisitor ==
  ASSUME Inv, NEW p \in DOMAIN visitors, NEW n \in Nodes, Visits(p, n),
         NEW k \in {"spread", "inline"}
  PROVE  /\ Entered(visitors[p], k, n) \in VisitorType(Entries)
         /\ GoesOn(visitors[p], Entered(visitors[p], k, n))
         /\ Entered(visitors[p], k, n).nest = Append(Advanced(visitors[p]).nest, Scope(k, n, Sub[n]))
         /\ Scope(k, n, Sub[n]) \in Scopes
<1> DEFINE v == Advanced(visitors[p])
           scope == Scope(k, n, Sub[n])
           nest == Append(v.nest, scope)
<1>1. v \in VisitorType(Entries) /\ GoesOn(visitors[p], v)
  BY VisitedVisitor
<1>2. scope \in Scopes /\ scope.kind = k
  BY DocumentData DEF Scopes, Scope
<1>3. /\ v.nest \in Seq(Scopes) /\ Len(v.nest) \in Nat \ {0}
      /\ \A i \in 1..Len(v.nest) : v.nest[i].kind = "set" <=> i = 1
  BY <1>1, InnermostScope DEF VisitorType, Nests
<1> HIDE DEF v, scope
<1>4. /\ nest \in Seq(Scopes) /\ Len(nest) = Len(v.nest) + 1 /\ nest[Len(v.nest) + 1] = scope
      /\ \A i \in 1..Len(v.nest) : nest[i] = v.nest[i]
  BY <1>2, <1>3
<1> HIDE DEF nest
<1>5. nest \in Nests
  <2>1. \A i \in 1..Len(nest) : nest[i].kind = "set" <=> i = 1
    BY <1>2, <1>3, <1>4
  <2> QED  BY <1>3, <1>4, <2>1 DEF Nests
<1>6. Entered(visitors[p], k, n) = [v EXCEPT !.nest = nest]
  BY DEF Entered, v, nest, scope
<1>7. /\ [v EXCEPT !.nest = nest] \in VisitorType(Entries) /\ [v EXCEPT !.nest = nest].nest = nest
      /\ GoesOn(visitors[p], [v EXCEPT !.nest = nest])
  BY <1>1, <1>5 DEF VisitorType, GoesOn
<1> QED  BY <1>2, <1>6, <1>7 DEF nest, v, scope

\* Its scopes are those of the visitor outside it, and that of the fragment.
LEMMA EnteredScopes ==
  ASSUME Inv, NEW p \in DOMAIN visitors, NEW n \in Nodes, Visits(p, n), NEW k \in {"spread", "inline"}
  PROVE  LET nest == Entered(visitors[p], k, n).nest
         IN  /\ Len(visitors[p].nest) \in Nat /\ Len(nest) = Len(visitors[p].nest) + 1
             /\ \A i \in 1..Len(visitors[p].nest) : nest[i].kind = visitors[p].nest[i].kind
             /\ nest[Len(nest)].kind = k /\ nest[Len(nest)].node = n
<1> DEFINE v == Advanced(visitors[p])
           scope == Scope(k, n, Sub[n])
<1>1. /\ v.nest \in Seq(Scopes) /\ Len(v.nest) = Len(visitors[p].nest) /\ Len(v.nest) \in Nat
      /\ \A i \in 1..Len(visitors[p].nest) : v.nest[i].kind = visitors[p].nest[i].kind
  BY VisitedVisitor, InnermostScope
<1>2. /\ Entered(visitors[p], k, n).nest = Append(v.nest, scope) /\ scope \in Scopes
      /\ scope.kind = k /\ scope.node = n
  BY EnteredVisitor DEF Scope
<1> HIDE DEF v, scope
<1> QED  BY <1>1, <1>2

LEMMA EnterSpreadInv ==
  ASSUME Inv, NEW p \in DOMAIN visitors, NEW n \in Nodes, Visits(p, n), EnterSpread(p, n)
  PROVE  Inv'
<1> DEFINE w == Entered(visitors[p], "spread", n)
           l == Len(visitors[p].nest)
<1>1. n \in Spreads /\ visitors[p].phase = "visiting" /\ p \notin DOMAIN changes
  BY DEF EnterSpread, Visits
<1>2. w \in VisitorType(Entries) /\ GoesOn(visitors[p], w) /\ w.phase = "visiting"
  BY <1>1, EnteredVisitor, VisitedVisitor DEF Entered, VisitorType
<1>3. visitors' = [visitors EXCEPT ![p] = w] /\ visitors'[p] = w
  BY DEF EnterSpread, Inv, Typed
<1>4. /\ l \in Nat /\ Len(w.nest) = l + 1 /\ w.nest[l + 1].kind = "spread" /\ w.nest[l + 1].node = n
      /\ \A i \in 1..l : w.nest[i].kind = visitors[p].nest[i].kind
  BY EnteredScopes
<1> HIDE DEF w
<1>5. /\ p \in DOMAIN changes' /\ changes'[p] = "pushSpread"
      /\ \A q : q # p => (q \in DOMAIN changes' <=> q \in DOMAIN changes)
      /\ \A q \in DOMAIN changes : q # p => changes'[q] = changes[q]
  BY SetAndWithout DEF EnterSpread
<1>6. /\ l + 1 \notin Holds("definitions", p)
      /\ Holds("definitions", p)' = Holds("definitions", p) \cup {l + 1}
      /\ Holds("spreads", p)' = Holds("spreads", p)
      /\ Holds("inlines", p)' = Holds("inlines", p)
  BY <1>1, <1>2, <1>3, <1>4, <1>5 DEF Holds, Lacking
<1>7. /\ Fits("definitions", p, Len(definitions), Len(definitions) + 1)
      /\ Fits("spreads", p, Len(spreads), Len(spreads))
      /\ Fits("inlines", p, Len(inlines), Len(inlines))
  BY <1>6 DEF Fits
<1>8. /\ definitions' \in Seq(Definitions) /\ Len(definitions') = Len(definitions) + 1
      /\ spreads' = spreads /\ inlines' = inlines
  BY <1>1, PushOrPop DEF Inv, Typed, EnterSpread, Definitions
<1>9. Between(w, changes'[p])
  BY <1>1, <1>2, <1>4, <1>5 DEF Between, Innermost
<1> QED  BY <1>2, <1>3, <1>5, <1>7, <1>8, <1>9, StackStep DEF Inv, Typed, EnterSpread

LEMMA EnterInlineInv ==
  ASSUME Inv, NEW p \in DOMAIN visitors, NEW n \in Nodes, Visits(p, n), EnterInline(p, n)
  PROVE  Inv'
<1> DEFINE w == Entered(visitors[p], "inline", n)
           l == Len(visitors[p].nest)
<1>1. n \in Inlines /\ visitors[p].phase = "visiting" /\ p \notin DOMAIN changes
  BY DEF EnterInline, Visits
<1>2. w \in VisitorType(Entries) /\ GoesOn(visitors[p], w) /\ w.phase = "visiting"
  BY <1>1, EnteredVisitor, VisitedVisitor DEF Entered, VisitorType
<1>3. visitors' = [visitors EXCEPT ![p] = w] /\ visitors'[p] = w
  BY DEF EnterInline, Inv, Typed
<1>4. /\ l \in Nat /\ Len(w.nest) = l + 1 /\ w.nest[l + 1].kind = "inline"
      /\ \A i \in 1..l : w.nest[i].kind = visitors[p].nest[i].kind
  BY EnteredScopes
<1> HIDE DEF w
<1>5. changes' = changes
  BY DEF EnterInline
<1>6. /\ l + 1 \notin Holds("inlines", p)
      /\ Holds("inlines", p)' = Holds("inlines", p) \cup {l + 1}
      /\ Holds("spreads", p)' = Holds("spreads", p)
      /\ Holds("definitions", p)' = Holds("definitions", p)
  <2>1. l + 1 \notin Holds("inlines", p)
    BY <1>4 DEF Holds
  <2>2. Holds("inlines", p)' = Holds("inlines", p) \cup {l + 1}
    BY <1>1, <1>2, <1>3, <1>4, <1>5 DEF Holds
  <2>3. Holds("spreads", p)' = Holds("spreads", p)
    BY <1>1, <1>2, <1>3, <1>4, <1>5 DEF Holds
  <2>4. Holds("definitions", p)' = Holds("definitions", p)
    BY <1>1, <1>2, <1>3, <1>4, <1>5 DEF Holds
  <2> QED  BY <2>1, <2>2, <2>3, <2>4
<1>7. /\ Fits("inlines", p, Len(inlines), Len(inlines) + 1)
      /\ Fits("spreads", p, Len(spreads), Len(spreads))
      /\ Fits("definitions", p, Len(definitions), Len(definitions))
  BY <1>6 DEF Fits
<1>8. /\ inlines' \in Seq(Inlines \cup {NoDirectives}) /\ Len(inlines') = Len(inlines) + 1
      /\ spreads' = spreads /\ definitions' = definitions
  BY <1>1, PushOrPop DEF Inv, Typed, EnterInline
<1> QED  BY <1>1, <1>2, <1>3, <1>5, <1>7, <1>8, StackStep DEF Inv, Typed, EnterInline

\* The visitor outside the fragment, whose scope was not its first.
LEMMA LeftVisitor ==
  ASSUME Inv, NEW p \in DOMAIN visitors, visitors[p].phase = "visiting",
         NEW kind \in {"spread", "inline"}, Innermost(visitors[p]).kind = kind
  PROVE  /\ Left(visitors[p]) \in VisitorType(Entries)
         /\ GoesOn(visitors[p], Left(visitors[p])) /\ Left(visitors[p]).phase = "visiting"
         /\ Len(visitors[p].nest) \in Nat /\ visitors[p].nest[Len(visitors[p].nest)].kind = kind
         /\ Len(Left(visitors[p]).nest) = Len(visitors[p].nest) - 1 /\ Len(visitors[p].nest) > 1
         /\ \A i \in 1..(Len(visitors[p].nest) - 1) : Left(visitors[p]).nest[i] = visitors[p].nest[i]
<1> DEFINE n == Len(visitors[p].nest)
           nest == SubSeq(visitors[p].nest, 1, n - 1)
<1>1. visitors[p] \in VisitorType(Entries)
  BY DEF Inv, Typed
<1>2. visitors[p].nest \in Seq(Scopes) /\ n \in Nat \ {0} /\ n # 1 /\ visitors[p].nest[n].kind = kind
  BY <1>1, InnermostScope
<1>3. n > 1
  <2> HIDE DEF n
  <2> QED  BY <1>2
<1>4. /\ nest \in Seq(Scopes) /\ Len(nest) = n - 1
      /\ \A i \in 1..(n - 1) : nest[i] = visitors[p].nest[i]
  BY <1>2
<1>5. nest \in Nests
  <2>1. \A i \in 1..n : visitors[p].nest[i].kind = "set" <=> i = 1
    BY <1>1, <1>2 DEF VisitorType, Nests
  <2>2. \A i \in 1..(n - 1) : nest[i].kind = "set" <=> i = 1
    BY <1>2, <1>4, <2>1
  <2> HIDE DEF nest
  <2>3. nest # <<>>
    BY <1>3, <1>4
  <2> QED  BY <1>4, <2>2, <2>3 DEF Nests
<1>6. Left(visitors[p]) = [visitors[p] EXCEPT !.nest = nest]
  BY DEF Left
<1> HIDE DEF nest
<1>7. /\ [visitors[p] EXCEPT !.nest = nest] \in VisitorType(Entries)
      /\ [visitors[p] EXCEPT !.nest = nest].nest = nest
      /\ [visitors[p] EXCEPT !.nest = nest].phase = "visiting"
      /\ GoesOn(visitors[p], [visitors[p] EXCEPT !.nest = nest])
  BY <1>1, <1>5 DEF VisitorType, GoesOn, Ended
<1> QED  BY <1>2, <1>3, <1>4, <1>6, <1>7

LEMMA LeaveInlineInv ==
  ASSUME Inv, NEW p \in DOMAIN visitors, LeaveInline(p)
  PROVE  Inv' /\ inlines # <<>>
<1> DEFINE w == Left(visitors[p])
           l == Len(visitors[p].nest)
<1>1. /\ visitors[p].phase = "visiting" /\ Innermost(visitors[p]).kind = "inline"
      /\ p \notin DOMAIN changes /\ changes' = changes
  BY DEF LeaveInline, AtEnd
<1>2. /\ w \in VisitorType(Entries) /\ GoesOn(visitors[p], w) /\ w.phase = "visiting"
      /\ l \in Nat /\ visitors[p].nest[l].kind = "inline" /\ Len(w.nest) = l - 1 /\ l > 1
      /\ \A i \in 1..(l - 1) : w.nest[i] = visitors[p].nest[i]
  BY <1>1, LeftVisitor
<1>3. visitors' = [visitors EXCEPT ![p] = w] /\ visitors'[p] = w
  BY DEF LeaveInline, Inv, Typed
<1> HIDE DEF w
<1>4. /\ l \in Holds("inlines", p)
      /\ Holds("inlines", p)' = Holds("inlines", p) \ {l}
      /\ Holds("spreads", p)' = Holds("spreads", p)
      /\ Holds("definitions", p)' = Holds("definitions", p)
  BY <1>1, <1>2, <1>3 DEF Holds
<1>5. inlines # <<>>
  BY <1>4, HeldIsThere DEF Lists
<1>6. /\ Fits("inlines", p, Len(inlines), Len(inlines) - 1)
      /\ Fits("spreads", p, Len(spreads), Len(spreads))
      /\ Fits("definitions", p, Len(definitions), Len(definitions))
  BY <1>4 DEF Fits
<1>7. /\ inlines' \in Seq(Inlines \cup {NoDirectives}) /\ Len(inlines') = Len(inlines) - 1
      /\ spreads' = spreads /\ definitions' = definitions
  BY <1>5, PushOrPop DEF Inv, Typed, LeaveInline
<1>8. Inv'
  BY <1>1, <1>2, <1>3, <1>6, <1>7, StackStep DEF Inv, Typed, LeaveInline
<1> QED  BY <1>5, <1>8

-----------------------------------------------------------------------------
(* Pushes and pops that leave a visitor as it is                           *)

LEMMA SameVisitor ==
  ASSUME Inv, NEW p \in DOMAIN visitors, visitors[p].phase = "visiting", visitors' = visitors
  PROVE  /\ visitors[p] \in VisitorType(Entries) /\ GoesOn(visitors[p], visitors[p])
         /\ visitors' = [visitors EXCEPT ![p] = visitors[p]]
         /\ visitors[p].nest \in Seq(Scopes) /\ Len(visitors[p].nest) \in Nat \ {0}
         /\ Innermost(visitors[p]) = visitors[p].nest[Len(visitors[p].nest)]
         /\ Len(visitors[p].nest) = 1 => Innermost(visitors[p]).kind = "set"
<1>1. visitors[p] \in VisitorType(Entries) /\ visitors = [visitors EXCEPT ![p] = visitors[p]]
  BY DEF Inv, Typed
<1>2. GoesOn(visitors[p], visitors[p])
  BY DEF GoesOn, Ended
<1> QED  BY <1>1, <1>2, InnermostScope

LEMMA LeaveSpreadInv ==
  ASSUME Inv, NEW p \in DOMAIN visitors, LeaveSpread(p)
  PROVE  Inv' /\ spreads # <<>>
<1> DEFINE l == Len(visitors[p].nest)
<1>1. /\ visitors[p].phase = "visiting" /\ Innermost(visitors[p]).kind = "spread"
      /\ Innermost(visitors[p]).todo = <<>>
      /\ p \notin DOMAIN changes /\ visitors' = visitors
  BY DEF LeaveSpread, AtEnd
<1>2. l \in Nat \ {0} /\ visitors[p].nest[l].kind = "spread"
  BY <1>1, SameVisitor
<1>3. /\ p \in DOMAIN changes' /\ changes'[p] = "popDefinition"
      /\ \A q : q # p => (q \in DOMAIN changes' <=> q \in DOMAIN changes)
      /\ \A q \in DOMAIN changes : q # p => changes'[q] = changes[q]
  BY SetAndWithout DEF LeaveSpread
<1>4. /\ l \in Holds("spreads", p)
      /\ Holds("spreads", p)' = Holds("spreads", p) \ {l}
      /\ Holds("definitions", p)' = Holds("definitions", p)
      /\ Holds("inlines", p)' = Holds("inlines", p)
  BY <1>1, <1>2, <1>3 DEF Holds, Lacking
<1>5. spreads # <<>>
  BY <1>4, HeldIsThere DEF Lists
<1>6. /\ Fits("spreads", p, Len(spreads), Len(spreads) - 1)
      /\ Fits("definitions", p, Len(definitions), Len(definitions))
      /\ Fits("inlines", p, Len(inlines), Len(inlines))
  BY <1>4 DEF Fits
<1>7. /\ spreads' \in Seq(Spreads \cup {NoDirectives}) /\ Len(spreads') = Len(spreads) - 1
      /\ inlines' = inlines /\ definitions' = definitions
  BY <1>5, PushOrPop DEF Inv, Typed, LeaveSpread
<1>8. Between(visitors[p], changes'[p])
  BY <1>1, <1>3 DEF Between
<1>9. Inv'
  BY <1>1, <1>3, <1>6, <1>7, <1>8, SameVisitor, StackStep DEF Inv, Typed, LeaveSpread
<1> QED  BY <1>5, <1>9

LEMMA PopDefinitionInv ==
  ASSUME Inv, NEW p \in DOMAIN visitors, p \in DOMAIN changes, PopDefinition(p)
  PROVE  Inv' /\ definitions # <<>>
<1> DEFINE w == Left(visitors[p])
           l == Len(visitors[p].nest)
<1>1. /\ visitors[p].phase = "visiting" /\ Innermost(visitors[p]).kind = "spread"
      /\ changes[p] = "popDefinition"
  BY DEF PopDefinition, Inv, Changing, Between
<1>2. /\ w \in VisitorType(Entries) /\ GoesOn(visitors[p], w) /\ w.phase = "visiting"
      /\ l \in Nat /\ visitors[p].nest[l].kind = "spread" /\ Len(w.nest) = l - 1 /\ l > 1
      /\ \A i \in 1..(l - 1) : w.nest[i] = visitors[p].nest[i]
  BY <1>1, LeftVisitor
<1>3. visitors' = [visitors EXCEPT ![p] = w] /\ visitors'[p] = w
  BY DEF PopDefinition, Inv, Typed
<1> HIDE DEF w
<1>4. /\ p \notin DOMAIN changes'
      /\ \A q : q # p => (q \in DOMAIN changes' <=> q \in DOMAIN changes)
      /\ \A q \in DOMAIN changes : q # p => changes'[q] = changes[q]
  BY SetAndWithout DEF PopDefinition
<1>5. /\ l \in Holds("definitions", p)
      /\ Holds("definitions", p)' = Holds("definitions", p) \ {l}
      /\ Holds("spreads", p)' = Holds("spreads", p)
      /\ Holds("inlines", p)' = Holds("inlines", p)
  <2>1. l \in Holds("definitions", p)
    BY <1>1, <1>2 DEF Holds, Lacking
  <2>2. Holds("definitions", p)' = Holds("definitions", p) \ {l}
    BY <1>1, <1>2, <1>3, <1>4 DEF Holds, Lacking
  <2>3. Holds("spreads", p)' = Holds("spreads", p)
    BY <1>1, <1>2, <1>3, <1>4 DEF Holds, Lacking
  <2>4. Holds("inlines", p)' = Holds("inlines", p)
    BY <1>1, <1>2, <1>3, <1>4 DEF Holds, Lacking
  <2> QED  BY <2>1, <2>2, <2>3, <2>4
<1>6. definitions # <<>>
  BY <1>5, HeldIsThere DEF Lists
<1>7. /\ Fits("definitions", p, Len(definitions), Len(definitions) - 1)
      /\ Fits("spreads", p, Len(spreads), Len(spreads))
      /\ Fits("inlines", p, Len(inlines), Len(inlines))
  BY <1>5 DEF Fits
<1>8. /\ definitions' \in Seq(Definitions) /\ Len(definitions') = Len(definitions) - 1
      /\ inlines' = inlines /\ spreads' = spreads
  BY <1>6, PushOrPop DEF Inv, Typed, PopDefinition
<1>9. Inv'
  BY <1>2, <1>3, <1>4, <1>7, <1>8, StackStep DEF Inv, Typed, PopDefinition
<1> QED  BY <1>6, <1>9

LEMMA StartSpreadsInv ==
  ASSUME Inv, NEW p \in DOMAIN visitors, p \in DOMAIN changes, StartSpreads(p)
  PROVE  Inv'
<1>1. /\ visitors[p].phase = "visiting" /\ Len(visitors[p].nest) = 1
      /\ changes[p] = "startSpreads" /\ visitors' = visitors
  BY DEF StartSpreads, Inv, Changing, Between
<1>2. visitors[p].nest[1].kind = "set"
  BY <1>1, SameVisitor
<1>3. /\ p \in DOMAIN changes' /\ changes'[p] = "startInlines"
      /\ \A q : q # p => (q \in DOMAIN changes' <=> q \in DOMAIN changes)
      /\ \A q \in DOMAIN changes : q # p => changes'[q] = changes[q]
  BY SetAndWithout DEF StartSpreads
<1>4. /\ Holds("spreads", p) = {} /\ Holds("spreads", p)' = {1}
      /\ Holds("definitions", p)' = Holds("definitions", p)
      /\ Holds("inlines", p)' = Holds("inlines", p)
  <2>1. Holds("spreads", p) = {} /\ Holds("spreads", p)' = {1}
    BY <1>1, <1>2, <1>3 DEF Holds, Lacking
  <2>2. Holds("definitions", p)' = Holds("definitions", p)
    BY <1>1, <1>2, <1>3 DEF Holds, Lacking
  <2>3. Holds("inlines", p) = {} /\ Holds("inlines", p)' = {}
    <3>1. "inlines" \in Lacking[changes[p]] /\ "inlines" \in Lacking[changes'[p]]
      BY <1>1, <1>3 DEF Lacking
    <3>2. Holds("inlines", p) = {}
      BY <1>1, <3>1 DEF Holds
    <3>3. Holds("inlines", p)' = {}
      <4>1. "inlines" \in Lacking[changes'[p]] /\ p \in DOMAIN changes' /\ Len(visitors'[p].nest) = 1
        BY <1>1, <1>3, <3>1
      <4> QED  BY ONLY <4>1 DEF Holds
    <3> QED  BY <3>2, <3>3
  <2> QED  BY <2>1, <2>2, <2>3
<1>5. /\ Fits("spreads", p, Len(spreads), Len(spreads) + 1)
      /\ Fits("definitions", p, Len(definitions), Len(definitions))
      /\ Fits("inlines", p, Len(inlines), Len(inlines))
  BY <1>4 DEF Fits
<1>6. /\ spreads' \in Seq(Spreads \cup {NoDirectives}) /\ Len(spreads') = Len(spreads) + 1
      /\ inlines' = inlines /\ definitions' = definitions
  BY PushOrPop DEF Inv, Typed, StartSpreads
<1>7. Between(visitors[p], changes'[p])
  BY <1>1, <1>3 DEF Between
<1> QED  BY <1>1, <1>3, <1>5, <1>6, <1>7, SameVisitor, StackStep DEF Inv, Typed, StartSpreads

LEMMA StartInlinesInv ==
  ASSUME Inv, NEW p \in DOMAIN visitors, p \in DOMAIN changes, StartInlines(p)
  PROVE  Inv'
<1>1. /\ visitors[p].phase = "visiting" /\ Len(visitors[p].nest) = 1
      /\ changes[p] = "startInlines" /\ visitors' = visitors
  BY DEF StartInlines, Inv, Changing, Between
<1>2. visitors[p].nest[1].kind = "set"
  BY <1>1, SameVisitor
<1>3. /\ p \notin DOMAIN changes'
      /\ \A q : q # p => (q \in DOMAIN changes' <=> q \in DOMAIN changes)
      /\ \A q \in DOMAIN changes : q # p => changes'[q] = changes[q]
  BY SetAndWithout DEF StartInlines
<1>4. /\ Holds("inlines", p) = {} /\ Holds("inlines", p)' = {1}
      /\ Holds("definitions", p)' = Holds("definitions", p)
      /\ Holds("spreads", p)' = Holds("spreads", p)
  <2>1. Holds("inlines", p) = {} /\ Holds("inlines", p)' = {1}
    BY <1>1, <1>2, <1>3 DEF Holds, Lacking
  <2>2. Holds("definitions", p)' = Holds("definitions", p)
    BY <1>1, <1>2, <1>3 DEF Holds, Lacking
  <2>3. Holds("spreads", p)' = Holds("spreads", p)
    BY <1>1, <1>2, <1>3 DEF Holds, Lacking
  <2> QED  BY <2>1, <2>2, <2>3
<1>5. /\ Fits("inlines", p, Len(inlines), Len(inlines) + 1)
      /\ Fits("definitions", p, Len(definitions), Len(definitions))
      /\ Fits("spreads", p, Len(spreads), Len(spreads))
  BY <1>4 DEF Fits
<1>6. /\ inlines' \in Seq(Inlines \cup {NoDirectives}) /\ Len(inlines') = Len(inlines) + 1
      /\ spreads' = spreads /\ definitions' = definitions
  BY PushOrPop DEF Inv, Typed, StartInlines
<1>7. UNCHANGED <<document, awaited, results, observed>>
  BY DEF StartInlines
<1>8. definitions' \in Seq(Definitions) /\ spreads' \in Seq(Spreads \cup {NoDirectives})
  BY <1>6 DEF Inv, Typed
<1>9. /\ visitors[p] \in VisitorType(Entries) /\ GoesOn(visitors[p], visitors[p])
      /\ visitors' = [visitors EXCEPT ![p] = visitors[p]]
  BY <1>1, SameVisitor
<1> QED  BY <1>3, <1>5, <1>6, <1>7, <1>8, <1>9, StackStep

LEMMA PushSpreadInv ==
  ASSUME Inv, NEW p \in DOMAIN visitors, p \in DOMAIN changes, PushSpread(p)
  PROVE  Inv'
<1> DEFINE l == Len(visitors[p].nest)
<1>1. /\ visitors[p].phase = "visiting" /\ Innermost(visitors[p]).kind = "spread"
      /\ Innermost(visitors[p]).node \in Spreads
      /\ changes[p] = "pushSpread" /\ visitors' = visitors
  BY DEF PushSpread, Inv, Changing, Between
<1>2. l \in Nat \ {0} /\ visitors[p].nest[l].kind = "spread"
  BY <1>1, SameVisitor
<1>3. /\ p \notin DOMAIN changes'
      /\ \A q : q # p => (q \in DOMAIN changes' <=> q \in DOMAIN changes)
      /\ \A q \in DOMAIN changes : q # p => changes'[q] = changes[q]
  BY SetAndWithout DEF PushSpread
<1>4. /\ l \notin Holds("spreads", p)
      /\ Holds("spreads", p)' = Holds("spreads", p) \cup {l}
      /\ Holds("definitions", p)' = Holds("definitions", p)
      /\ Holds("inlines", p)' = Holds("inlines", p)
  BY <1>1, <1>2, <1>3 DEF Holds, Lacking
<1>5. /\ Fits("spreads", p, Len(spreads), Len(spreads) + 1)
      /\ Fits("definitions", p, Len(definitions), Len(definitions))
      /\ Fits("inlines", p, Len(inlines), Len(inlines))
  BY <1>4 DEF Fits
<1>6. /\ spreads' \in Seq(Spreads \cup {NoDirectives}) /\ Len(spreads') = Len(spreads) + 1
      /\ inlines' = inlines /\ definitions' = definitions
  BY <1>1, PushOrPop DEF Inv, Typed, PushSpread
<1> QED  BY <1>1, <1>3, <1>5, <1>6, SameVisitor, StackStep DEF Inv, Typed, PushSpread

LEMMA ChangeInv ==
  ASSUME Inv, NEW p \in DOMAIN visitors, Change(p)
  PROVE  Inv'
BY StartSpreadsInv, StartInlinesInv, PushSpreadInv, PopDefinitionInv DEF Change

-----------------------------------------------------------------------------
(* Results                                                                 *)

\* Entries that are typed stay so when there are more of them.
LEMMA TypesGrow ==
  ASSUME NEW E, NEW F, E \subseteq F
  PROVE  VisitorType(E) \subseteq VisitorType(F) /\ ResultType(E) \subseteq ResultType(F)
<1>1. Seq(E) \subseteq Seq(F)
  BY SeqMonotonic
<1> QED  BY <1>1 DEF VisitorType, ResultType

\* A result of its own leaves those that are there alone.
LEMMA ResultsGrow ==
  ASSUME results \in [DOMAIN results -> ResultType(Entries)],
         DOMAIN results \subseteq DOMAIN results',
         \A t \in DOMAIN results : results'[t] = results[t],
         \A t \in DOMAIN results' \ DOMAIN results : results'[t] \in ResultType(Entries),
         results' = [t \in DOMAIN results' |-> results'[t]]
  PROVE  /\ Entries \subseteq Entries'
         /\ VisitorType(Entries) \subseteq VisitorType(Entries')
         /\ results' \in [DOMAIN results' -> ResultType(Entries')]
<1>1. Entries \subseteq Entries'
  BY DEF Entries, Entry
<1>2. VisitorType(Entries) \subseteq VisitorType(Entries') /\ ResultType(Entries) \subseteq ResultType(Entries')
  BY <1>1, TypesGrow
<1>3. ASSUME NEW t \in DOMAIN results'
      PROVE  results'[t] \in ResultType(Entries')
  BY <1>2, <1>3
<1> QED  BY <1>1, <1>2, <1>3

LEMMA NullType ==
  ASSUME NEW E
  PROVE  /\ Null(<<>>) \in ResultType(E) /\ Null(<<<<>>>>) \in ResultType(E)
         /\ Scalar \in ResultType(E)
         /\ \A q \in Paths : Null(<<q>>) \in ResultType(E)
         /\ \A e : Null(e).kind # "object"
         /\ Scalar.kind # "object"
<1>1. <<>> \in Paths /\ <<>> \in Seq(E) /\ <<>> \in Seq(Paths)
  BY DEF Paths
<1>2. \A q \in Paths : <<q>> \in Seq(Paths)
  OBVIOUS
<1> QED  BY <1>1, <1>2 DEF Null, Scalar, ResultType

LEMMA SettledType ==
  ASSUME Typed, NEW p \in Paths, NEW n \in Fields, NEW E
  PROVE  Settled(p, n) \in ResultType(E) /\ Settled(p, n).kind # "object"
<1>1. Append(p, Alias[n]) \in Paths
  BY ChildPath DEF Aliases
<1> QED  BY <1>1, NullType DEF Settled

-----------------------------------------------------------------------------
(* The end of a visitor                                                    *)

\* A child of a path is its value, and its ancestors are theirs.
LEMMA ChildIsValue ==
  ASSUME Typed, Tree, NEW p \in DOMAIN visitors, NEW c \in DOMAIN visitors,
         Len(c) = Len(p) + 1, Prefix(c, Len(p)) = p
  PROVE  \E i \in DOMAIN visitors[p].values : c = Append(p, visitors[p].values[i])
<1>1. p \in Paths /\ c \in Paths /\ Len(p) \in Nat /\ Len(c) \in Nat
  BY DEF Typed, Paths
<1>2. c # <<>>
  BY <1>1
<1>3. c \in DOMAIN observed
  BY <1>2 DEF Tree
<1>3a. PICK t \in DOMAIN visitors : \E i \in DOMAIN visitors[t].values : c = Append(t, visitors[t].values[i])
  BY <1>2, <1>3 DEF Tree, HasParent
<1>4. PICK i \in DOMAIN visitors[t].values : c = Append(t, visitors[t].values[i])
  BY <1>3a
<1>5. t \in Paths /\ visitors[t].values \in Seq(Aliases) /\ visitors[t].values[i] \in Aliases
  BY DEF Typed, VisitorType
<1>6. Len(c) = Len(t) + 1 /\ Len(t) \in Nat
  BY <1>4, <1>5, ChildPath DEF Paths
<1>7. Len(t) = Len(p)
  BY <1>1, <1>6
<1>8. Prefix(c, Len(t)) = Prefix(t, Len(t)) /\ Prefix(t, Len(t)) = t
  BY <1>4, <1>5, <1>6, ChildPath
<1>9. t = p
  BY <1>7, <1>8
<1> QED  BY <1>4, <1>9

LEMMA EndInv ==
  ASSUME Inv, NEW p \in DOMAIN visitors, Running(p), visitors[p].phase \notin Ended \cup {"launched"},
         p \notin DOMAIN changes, NEW phase \in Ended, NEW r \in ResultType(Entries),
         phase = "done" => /\ Len(visitors[p].fields) = Len(visitors[p].values)
                           /\ r.kind = "object" /\ r.fields = visitors[p].fields,
         phase = "threw" => r = Null(<<<<>>>>),
         visitors' = [visitors EXCEPT ![p].phase = phase], results' = Set(results, p, r),
         UNCHANGED <<document, awaited, stacks, observed>>
  PROVE  Inv' /\ p \notin DOMAIN results
<1> DEFINE w == [visitors[p] EXCEPT !.phase = phase]
<1>1. /\ visitors[p] \in VisitorType(Entries) /\ p \in Paths
      /\ \A q \in DOMAIN visitors : q \in Paths /\ visitors[q] \in VisitorType(Entries)
  BY DEF Inv, Typed
<1>2. /\ w \in VisitorType(Entries) /\ w.phase = phase /\ w.nest = visitors[p].nest
      /\ w.values = visitors[p].values /\ w.fields = visitors[p].fields
      /\ w.names = visitors[p].names /\ w.detached = visitors[p].detached
  BY <1>1 DEF VisitorType, Ended
<1>3. /\ DOMAIN visitors' = DOMAIN visitors /\ visitors'[p] = w
      /\ visitors' = [q \in DOMAIN visitors |-> visitors'[q]]
      /\ \A q \in DOMAIN visitors : q # p => visitors'[q] = visitors[q]
  BY DEF Inv, Typed
<1> HIDE DEF w
<1>4. p \notin DOMAIN results
  BY DEF Inv, Tree
<1>5. /\ DOMAIN results' = DOMAIN results \cup {p} /\ results'[p] = r
      /\ results' = [t \in DOMAIN results' |-> results'[t]]
      /\ \A t \in DOMAIN results : results'[t] = results[t]
  BY <1>4 DEF Set
<1>6. /\ Entries \subseteq Entries' /\ VisitorType(Entries) \subseteq VisitorType(Entries')
      /\ results' \in [DOMAIN results' -> ResultType(Entries')]
  BY <1>5, ResultsGrow DEF Inv, Typed
<1>7. UNCHANGED <<request, conditions, outcomes, awaited, observed, definitions, spreads, inlines>>
  BY DEF document, stacks
<1>8. Typed'
  <2>1. visitors' \in [DOMAIN visitors' -> VisitorType(Entries')]
    BY <1>1, <1>2, <1>3, <1>6
  <2> QED  BY <1>1, <1>3, <1>5, <1>6, <1>7, <2>1 DEF Inv, Typed, ObservedType
<1>9. \A q \in DOMAIN visitors :
         /\ visitors'[q].values = visitors[q].values /\ visitors'[q].fields = visitors[q].fields
         /\ visitors'[q].names = visitors[q].names /\ visitors'[q].detached = visitors[q].detached
         /\ visitors'[q].nest = visitors[q].nest
         /\ visitors[q].phase \in Ended => q # p /\ visitors'[q].phase = visitors[q].phase
         /\ q # p => visitors'[q].phase = visitors[q].phase
  BY <1>2, <1>3
<1>10. Tree'
  <2>1. \A q \in (DOMAIN observed' \cup DOMAIN results') \ {<<>>} : HasParent(q)'
    <3>1. ASSUME NEW q, HasParent(q)
          PROVE  HasParent(q)'
      BY <1>3, <1>9, <3>1 DEF HasParent
    <3>2. <<>> \in DOMAIN visitors /\ (p # <<>> => HasParent(p))
      BY DEF Inv, Tree
    <3> QED  BY <1>5, <1>7, <3>1, <3>2 DEF Inv, Tree
  <2>2. \A q \in DOMAIN visitors' : q \in DOMAIN results' <=> visitors'[q].phase \in Ended
    BY <1>2, <1>3, <1>5 DEF Inv, Tree
  <2>3. /\ awaited' \subseteq DOMAIN observed' \ (DOMAIN results' \cup DOMAIN visitors')
        /\ DOMAIN observed' \subseteq DOMAIN visitors' \cup awaited' \cup DOMAIN results'
    BY <1>3, <1>5, <1>7 DEF Inv, Tree
  <2> QED  BY <1>3, <1>7, <2>1, <2>2, <2>3 DEF Inv, Tree
<1>11. AwaitedOnce'
  BY <1>3, <1>5, <1>7, <1>9 DEF Inv, AwaitedOnce
<1>12. Assembled'
  <2>1. ASSUME NEW q \in DOMAIN visitors, NEW i \in 1..Len(visitors[q].fields)
        PROVE  /\ Append(q, visitors[q].values[i]) \in DOMAIN results'
               /\ visitors[q].fields[i] =
                    Entry(visitors[q].values[i], Append(q, visitors[q].values[i]))'
    <3>1. /\ Append(q, visitors[q].values[i]) \in DOMAIN results
          /\ visitors[q].fields[i] = Entry(visitors[q].values[i], Append(q, visitors[q].values[i]))
      BY DEF Inv, Assembled
    <3> QED  BY <1>5, <1>9, <3>1 DEF Entry
  <2>2. ASSUME NEW q \in DOMAIN visitors', visitors'[q].phase = "done"
        PROVE  /\ Len(visitors'[q].fields) = Len(visitors'[q].values)
               /\ results'[q].kind = "object" /\ results'[q].fields = visitors'[q].fields
    <3>1. CASE q = p
      BY <1>2, <1>3, <1>5, <2>2, <3>1
    <3>2. CASE q # p
      BY <1>3, <1>5, <2>2, <3>2 DEF Inv, Assembled, Tree, Ended
    <3> QED  BY <3>1, <3>2
  <2>3. ASSUME NEW q \in DOMAIN visitors', visitors'[q].phase = "threw"
        PROVE  results'[q] = Null(<<<<>>>>)
    <3>1. CASE q = p
      BY <1>2, <1>3, <1>5, <2>3, <3>1
    <3>2. CASE q # p
      BY <1>3, <1>5, <2>3, <3>2 DEF Inv, Assembled, Tree, Ended
    <3> QED  BY <3>1, <3>2
  <2>4. \A q \in DOMAIN results' : results'[q].kind = "object" => q \in DOMAIN visitors'
    BY <1>3, <1>5 DEF Inv, Assembled
  <2>5. \A q \in DOMAIN visitors : Len(visitors[q].fields) <= Len(visitors[q].values)
    BY DEF Inv, Assembled
  <2> QED  BY <1>3, <1>9, <2>1, <2>2, <2>3, <2>4, <2>5 DEF Assembled, Entry, Null
<1>13. Orphans'
  <2> SUFFICES ASSUME NEW q \in DOMAIN visitors', NEW k \in 0..Len(q)
               PROVE  /\ Prefix(q, k) \in DOMAIN visitors'
                      /\ visitors'[Prefix(q, k)].phase \in Ended =>
                            visitors'[q].phase \in Ended \/ Orphaned(q, k)'
    BY DEF Orphans
  <2>1. q \in DOMAIN visitors /\ q \in Paths /\ Len(q) \in Nat /\ k \in Nat
    BY <1>1, <1>3 DEF Paths
  <2>2. Prefix(q, k) \in DOMAIN visitors'
    BY <1>3, <2>1 DEF Inv, Orphans
  <2>3. ASSUME NEW m \in 0..Len(q), m >= k, visitors[Prefix(q, m)].phase \in Ended
        PROVE  visitors'[q].phase \in Ended \/ Orphaned(q, k)'
    <3>1. visitors[q].phase \in Ended \/ Orphaned(q, m)
      BY <2>1, <2>3 DEF Inv, Orphans
    <3>2. CASE visitors[q].phase \in Ended
      BY <1>9, <2>1, <3>2
    <3>3. CASE Orphaned(q, m)
      <4>1. PICK j \in m..(Len(q) - 1) :
               visitors[Prefix(q, j)].phase = "threw" /\ visitors[Prefix(q, j + 1)].detached
        BY <3>3 DEF Orphaned
      <4>2. j \in k..(Len(q) - 1) /\ j \in 0..Len(q) /\ j + 1 \in 0..Len(q)
        BY <2>1, <2>3
      <4>3. Prefix(q, j) \in DOMAIN visitors /\ Prefix(q, j + 1) \in DOMAIN visitors
        BY <2>1, <4>2 DEF Inv, Orphans
      <4>4. visitors'[Prefix(q, j)].phase = "threw" /\ visitors'[Prefix(q, j + 1)].detached
        BY <1>9, <4>1, <4>3 DEF Ended
      <4> QED  BY <4>2, <4>4 DEF Orphaned
    <3> QED  BY <3>1, <3>2, <3>3
  <2>4. CASE Prefix(q, k) # p
    BY <1>9, <2>1, <2>2, <2>3, <2>4, <1>3
  <2>5. CASE q = p
    BY <1>2, <1>3, <2>2, <2>5
  <2>6. CASE Prefix(q, k) = p /\ q # p
    <3>1. k # Len(q)
      BY <1>1, <2>1, <2>6, SubSeqFull DEF Prefix, Paths
    <3>2. k + 1 \in 0..Len(q) /\ k < Len(q)
      BY <2>1, <3>1
    <3> DEFINE c == Prefix(q, k + 1)
    <3>3. c \in DOMAIN visitors
      BY <2>1, <3>2 DEF Inv, Orphans
    <3>4. Len(c) = k + 1 /\ Len(p) = k /\ Prefix(c, k) = p
      BY <2>1, <2>6, <3>2 DEF Prefix, Paths
    <3>5. c \in Children(p)
      BY <3>3, <3>4 DEF Children, Prefix
    <3>6. CASE visitors[c].phase \in Ended
      <4>1. k + 1 >= k
        BY <2>1
      <4> QED  BY <2>2, <2>3, <3>2, <3>6, <4>1
    <3>7. CASE visitors[c].phase \notin Ended
      <4>1. visitors[c].detached
        BY <3>5, <3>7 DEF Running
      <4>2. phase # "done"
        <5>1. SUFFICES ASSUME phase = "done" PROVE FALSE
          OBVIOUS
        <5>2. PICK i \in DOMAIN visitors[p].values : c = Append(p, visitors[p].values[i])
          BY <3>3, <3>4, ChildIsValue DEF Inv
        <5>3. i \in 1..Len(visitors[p].fields)
          BY <1>1, <5>1, <5>2 DEF VisitorType
        <5>4. c \in DOMAIN results
          BY <5>2, <5>3 DEF Inv, Assembled
        <5> QED  BY <3>3, <3>7, <5>4 DEF Inv, Tree
      <4>3. visitors'[Prefix(q, k)].phase = "threw"
        BY <1>2, <1>3, <2>6, <4>2 DEF Ended
      <4>4. visitors'[c].detached
        BY <1>9, <3>3, <4>1
      <4>5. k \in k..(Len(q) - 1)
        BY <2>1, <3>2
      <4> QED  BY <2>2, <4>3, <4>4, <4>5 DEF Orphaned
    <3> QED  BY <2>2, <3>6, <3>7
  <2> QED  BY <2>4, <2>5, <2>6, <2>2
<1>14. Changing' /\ Pushed'
  <2>1. visitors'[p].phase # "launched" /\ UNCHANGED stacks
    BY <1>2, <1>3 DEF Ended
  <2> QED  BY <1>3, <1>9, <2>1, StacksSame DEF Inv
<1> QED  BY <1>4, <1>8, <1>10, <1>11, <1>12, <1>13, <1>14 DEF Inv

\* An exception is the result of the whole object.
LEMMA ThrowInv ==
  ASSUME Inv, NEW p \in DOMAIN visitors, NEW n \in Nodes, Visits(p, n), Running(p), ThrowFromNode(p, n)
  PROVE  Inv' /\ p \notin DOMAIN results
<1>1. /\ visitors[p].phase \notin Ended \cup {"launched"} /\ p \notin DOMAIN changes
      /\ "threw" \in Ended /\ "threw" # "done"
  BY DEF Visits, Ended
<1>2. Null(<<<<>>>>) \in ResultType(Entries)
  BY NullType
<1>3. /\ visitors' = [visitors EXCEPT ![p].phase = "threw"]
      /\ results' = Set(results, p, Null(<<<<>>>>))
      /\ UNCHANGED <<document, awaited, stacks, observed>>
  BY DEF ThrowFromNode, Throw
<1> QED  BY <1>1, <1>2, <1>3, EndInv

LEMMA FinishInv ==
  ASSUME Inv, NEW p \in DOMAIN visitors, Running(p), Finish(p)
  PROVE  Inv' /\ p \notin DOMAIN results
<1> DEFINE r == [kind |-> "object", fields |-> visitors[p].fields, errors |-> visitors[p].errors]
<1>1. /\ visitors[p].phase \notin Ended \cup {"launched"} /\ p \notin DOMAIN changes
      /\ "done" \in Ended /\ "done" # "threw"
  BY DEF Finish, Ended, Inv, Changing, Between
<1>2. r \in ResultType(Entries) /\ r.kind = "object" /\ r.fields = visitors[p].fields
  BY DEF Inv, Typed, VisitorType, ResultType
<1>3. /\ visitors' = [visitors EXCEPT ![p].phase = "done"]
      /\ results' = Set(results, p, r)
      /\ Len(visitors[p].fields) = Len(visitors[p].values)
      /\ UNCHANGED <<document, awaited, stacks, observed>>
  BY DEF Finish
<1> HIDE DEF r
<1> QED  BY <1>1, <1>2, <1>3, EndInv

-----------------------------------------------------------------------------
(* Awaiting results                                                        *)

\* The next result is at the path of the next value, and goes to its entry.
LEMMA AwaitInv ==
  ASSUME Inv, NEW p \in DOMAIN visitors, Await(p)
  PROVE  Inv'
<1> DEFINE v == visitors[p]
           n == Len(v.fields) + 1
           alias == v.values[n]
           q == Append(p, alias)
           e == [alias |-> alias, kind |-> results[q].kind, fields |-> results[q].fields]
           fields == Append(v.fields, e)
           errors == v.errors \o results[q].errors
           w == [v EXCEPT !.fields = fields, !.errors = errors]
<1>1. /\ v \in VisitorType(Entries) /\ v.phase = "awaiting" /\ q \in DOMAIN results
      /\ Len(v.fields) < Len(v.values)
      /\ \A t \in DOMAIN visitors : visitors[t] \in VisitorType(Entries)
  BY DEF Inv, Typed, Await
<1>2. /\ Len(v.fields) \in Nat /\ Len(v.values) \in Nat /\ n \in 1..Len(v.values)
      /\ v.fields \in Seq(Entries) /\ v.errors \in Seq(Paths) /\ v.values \in Seq(Aliases)
  BY <1>1 DEF VisitorType
<1>3. alias \in Aliases /\ e \in Entries /\ e = Entry(alias, q)
  BY <1>1, <1>2 DEF Entries, Entry
<1>4. results[q].errors \in Seq(Paths)
  BY <1>1 DEF Inv, Typed, ResultType
<1>5. visitors' = [visitors EXCEPT ![p] = w] /\ UNCHANGED <<document, awaited, results, stacks, observed>>
  BY DEF Await
<1> HIDE DEF e
<1>6. /\ fields \in Seq(Entries) /\ Len(fields) = n /\ fields[n] = e
      /\ \A i \in 1..Len(v.fields) : fields[i] = v.fields[i]
  BY <1>2, <1>3
<1>7. errors \in Seq(Paths)
  BY <1>2, <1>4
<1> HIDE DEF fields, errors
<1>8. /\ w \in VisitorType(Entries) /\ w.fields = fields /\ w.values = v.values
      /\ w.names = v.names /\ w.detached = v.detached /\ w.phase = "awaiting" /\ w.nest = v.nest
  BY <1>1, <1>6, <1>7 DEF VisitorType
<1> HIDE DEF w
<1>9. UNCHANGED <<awaited, results, observed, definitions, spreads, inlines>>
  BY <1>5 DEF stacks
<1>10. /\ DOMAIN visitors' = DOMAIN visitors /\ visitors'[p] = w
       /\ \A t \in DOMAIN visitors : t # p => visitors'[t] = visitors[t]
  BY <1>5 DEF Inv, Typed
<1>11. Typed'
  BY <1>5, <1>8, <1>9, GoingOnTyped DEF Inv, Typed
<1>12. \A t \in DOMAIN visitors :
         /\ visitors'[t].values = visitors[t].values /\ visitors'[t].names = visitors[t].names
         /\ visitors'[t].detached = visitors[t].detached
         /\ visitors'[t].phase = visitors[t].phase /\ visitors'[t].nest = visitors[t].nest
  BY <1>1, <1>8, <1>10
<1>13. Tree'
  <2>1. \A t : HasParent(t)' <=> HasParent(t)
    BY <1>10, <1>12 DEF HasParent
  <2> QED  BY <1>9, <1>10, <1>12, <2>1 DEF Inv, Tree
<1>14. AwaitedOnce'
  BY <1>9, <1>10, <1>12 DEF Inv, AwaitedOnce
<1>15. Orphans'
  BY <1>10, <1>12 DEF Inv, Orphans, Orphaned
<1>16. Assembled'
  <2>1. ASSUME NEW t \in DOMAIN visitors
        PROVE  /\ Len(visitors'[t].fields) <= Len(visitors[t].values)
               /\ \A i \in 1..Len(visitors'[t].fields) :
                     /\ Append(t, visitors[t].values[i]) \in DOMAIN results
                     /\ visitors'[t].fields[i] = Entry(visitors[t].values[i], Append(t, visitors[t].values[i]))
               /\ visitors[t].phase \in Ended => visitors'[t].fields = visitors[t].fields
    <3>1. CASE t # p
      BY <1>10, <3>1 DEF Inv, Assembled
    <3>2. CASE t = p
      <4>1. visitors'[t].fields = fields
        BY <1>8, <1>10, <3>2
      <4>2. ASSUME NEW i \in 1..n
            PROVE  /\ Append(p, v.values[i]) \in DOMAIN results
                   /\ fields[i] = Entry(v.values[i], Append(p, v.values[i]))
        <5>1. CASE i = n
          BY <1>1, <1>3, <1>6, <5>1
        <5>2. CASE i # n
          <6>1. i \in 1..Len(v.fields)
            BY <1>2, <5>2
          <6> QED  BY <1>6, <6>1 DEF Inv, Assembled
        <5> QED  BY <5>1, <5>2
      <4>3. n <= Len(v.values) /\ v.phase \notin Ended
        BY <1>1, <1>2 DEF Ended
      <4> QED  BY <1>6, <3>2, <4>1, <4>2, <4>3
    <3> QED  BY <3>1, <3>2
  <2>2. UNCHANGED results
    BY <1>9
  <2> HIDE DEF v, n, alias, q
  <2>3. \A t, a : Entry(a, t)' = Entry(a, t)
    BY <2>2 DEF Entry
  <2>4. ASSUME NEW t \in DOMAIN visitors'
        PROVE  /\ visitors'[t].phase = "done" =>
                    /\ Len(visitors'[t].fields) = Len(visitors'[t].values)
                    /\ results'[t].kind = "object" /\ results'[t].fields = visitors'[t].fields
               /\ visitors'[t].phase = "threw" => results'[t] = Null(<<<<>>>>)
    BY <1>10, <1>12, <2>1, <2>2 DEF Inv, Assembled, Ended
  <2>5. \A t \in DOMAIN results' : results'[t].kind = "object" => t \in DOMAIN visitors'
    BY <1>10, <2>2 DEF Inv, Assembled
  <2> QED  BY <1>10, <1>12, <2>1, <2>2, <2>3, <2>4, <2>5 DEF Assembled, Null
<1>17. Changing' /\ Pushed'
  <2>1. p \notin DOMAIN changes /\ UNCHANGED stacks
    BY <1>1, <1>5 DEF Inv, Changing, Between
  <2> QED  BY <1>10, <1>12, <2>1, StacksSame DEF Inv
<1> QED  BY <1>11, <1>13, <1>14, <1>15, <1>16, <1>17 DEF Inv

\* A leaf on its thread.
LEMMA ResolveInv ==
  ASSUME Inv, NEW q \in awaited, Resolve(q)
  PROVE  Inv' /\ q \notin DOMAIN results
<1> DEFINE r == Settled(SubSeq(q, 1, Len(q) - 1), observed[q].node)
<1>1. /\ q \in DOMAIN observed /\ q \notin DOMAIN results /\ q \notin DOMAIN visitors /\ q \in Paths
      /\ observed[q].node \in Fields /\ q # <<>>
  BY DEF Inv, Tree, Typed, ObservedType
<1>2. SubSeq(q, 1, Len(q) - 1) \in Paths
  BY <1>1 DEF Paths
<1>3. r \in ResultType(Entries) /\ r.kind # "object"
  BY <1>1, <1>2, SettledType DEF Inv
<1>4. /\ results' = Set(results, q, r) /\ awaited' = awaited \ {q}
      /\ UNCHANGED <<request, conditions, outcomes, visitors, definitions, spreads, inlines, observed>>
  BY DEF Resolve, document, stacks
<1> HIDE DEF r
<1>5. /\ DOMAIN results' = DOMAIN results \cup {q} /\ results'[q] = r
      /\ results' = [t \in DOMAIN results' |-> results'[t]]
      /\ \A t \in DOMAIN results : results'[t] = results[t]
  BY <1>1, <1>4 DEF Set
<1>6. /\ Entries \subseteq Entries' /\ VisitorType(Entries) \subseteq VisitorType(Entries')
      /\ results' \in [DOMAIN results' -> ResultType(Entries')]
  BY <1>3, <1>5, ResultsGrow DEF Inv, Typed
<1>7. Typed'
  <2>1. visitors' \in [DOMAIN visitors' -> VisitorType(Entries')]
    BY <1>4, <1>6 DEF Inv, Typed
  <2> QED  BY <1>1, <1>4, <1>5, <1>6, <2>1 DEF Inv, Typed, ObservedType
<1>8. Tree'
  <2>1. \A t : HasParent(t)' <=> HasParent(t)
    BY <1>4 DEF HasParent
  <2>2. HasParent(q)
    BY <1>1 DEF Inv, Tree
  <2> QED  BY <1>1, <1>4, <1>5, <2>1, <2>2 DEF Inv, Tree
<1>9. AwaitedOnce'
  BY <1>4, <1>5 DEF Inv, AwaitedOnce
<1>10. Assembled'
  <2>1. \A t \in DOMAIN visitors : visitors[t].phase \in Ended => t \in DOMAIN results
    BY DEF Inv, Tree
  <2>2. \A t \in DOMAIN results : \A a : Entry(a, t)' = Entry(a, t)
    BY <1>5 DEF Entry
  <2>3. \A t \in DOMAIN results' : results'[t].kind = "object" => t \in DOMAIN visitors'
    BY <1>3, <1>4, <1>5 DEF Inv, Assembled
  <2>4. ASSUME NEW t \in DOMAIN visitors'
        PROVE  /\ visitors'[t].phase = "done" =>
                    /\ Len(visitors'[t].fields) = Len(visitors'[t].values)
                    /\ results'[t].kind = "object" /\ results'[t].fields = visitors'[t].fields
               /\ visitors'[t].phase = "threw" => results'[t] = Null(<<<<>>>>)
    BY <1>4, <1>5, <2>1 DEF Inv, Assembled, Ended
  <2>5. ASSUME NEW t \in DOMAIN visitors', NEW i \in 1..Len(visitors'[t].fields)
        PROVE  /\ Append(t, visitors'[t].values[i]) \in DOMAIN results'
               /\ visitors'[t].fields[i] = Entry(visitors[t].values[i], Append(t, visitors[t].values[i]))'
    BY <1>4, <1>5, <2>2 DEF Inv, Assembled
  <2>6. \A t \in DOMAIN visitors' : Len(visitors'[t].fields) <= Len(visitors'[t].values)
    BY <1>4 DEF Inv, Assembled
  <2> QED  BY <2>3, <2>4, <2>5, <2>6 DEF Assembled, Null
<1>11. Orphans'
  BY <1>4 DEF Inv, Orphans, Orphaned
<1>12. Changing' /\ Pushed'
  BY <1>4, StacksSame DEF Inv, Resolve
<1> QED  BY <1>1, <1>7, <1>8, <1>9, <1>10, <1>11, <1>12 DEF Inv

-----------------------------------------------------------------------------
(* Accessors                                                               *)

\* The path of a field whose response name was not seen is not in use.
LEMMA FreshPath ==
  ASSUME Typed, Tree, AwaitedOnce, NEW p \in DOMAIN visitors, NEW a \in Aliases, a \notin visitors[p].names
  PROVE  Append(p, a) \notin DOMAIN observed \cup DOMAIN results \cup DOMAIN visitors \cup awaited
<1> DEFINE q == Append(p, a)
<1>1. p \in Paths /\ q # <<>>
  BY ChildPath DEF Typed
<1>6. \A s \in Paths, b \in Aliases : q = Append(s, b) <=> p = s /\ a = b
  <2>1. p \in Paths /\ a \in Aliases
    BY <1>1
  <2> QED  BY <2>1, AppendInjective DEF Paths
<1>2. SUFFICES ASSUME q \in DOMAIN observed \cup DOMAIN results
               PROVE  FALSE
  BY <1>1 DEF Tree
<1>3. PICK t \in DOMAIN visitors : \E i \in DOMAIN visitors[t].values : q = Append(t, visitors[t].values[i])
  BY <1>1, <1>2 DEF Tree, HasParent
<1>4. PICK i \in DOMAIN visitors[t].values : q = Append(t, visitors[t].values[i])
  BY <1>3
<1>5. t \in Paths /\ visitors[t].values[i] \in Aliases
  BY DEF Typed, VisitorType
<1> HIDE DEF q
<1>7. p = t /\ a = visitors[t].values[i]
  BY <1>4, <1>5, <1>6
<1> QED  BY <1>7 DEF AwaitedOnce

\* The visitor that will await the result.
LEMMA ValuedVisitor ==
  ASSUME Inv, NEW p \in DOMAIN visitors, NEW n \in Fields, Visits(p, n)
  PROVE  /\ Valued(visitors[p], n) \in VisitorType(Entries)
         /\ Valued(visitors[p], n).nest = Advanced(visitors[p]).nest
         /\ Valued(visitors[p], n).names = visitors[p].names \cup {Alias[n]}
         /\ Valued(visitors[p], n).values = Append(visitors[p].values, Alias[n])
         /\ Valued(visitors[p], n).phase = "visiting"
         /\ Valued(visitors[p], n).fields = visitors[p].fields
         /\ Valued(visitors[p], n).detached = visitors[p].detached
<1> DEFINE v == Named(visitors[p], n)
           values == Append(visitors[p].values, Alias[n])
<1>1. n \in Nodes /\ Alias[n] \in Aliases
  BY DEF Nodes, Aliases
<1>2. /\ v \in VisitorType(Entries) /\ GoesOn(visitors[p], v)
      /\ v.nest = Advanced(visitors[p]).nest
      /\ v.names = visitors[p].names \cup {Alias[n]}
  BY NamedVisitor
<1>3. visitors[p] \in VisitorType(Entries) /\ visitors[p].phase = "visiting"
  BY <1>1, VisitedVisitor
<1>4. v.phase = "visiting" /\ v.values = visitors[p].values
  BY <1>1, VisitedVisitor DEF Named, VisitorType
<1>5. values \in Seq(Aliases)
  BY <1>1, <1>3 DEF VisitorType
<1>6. Valued(visitors[p], n) = [v EXCEPT !.values = values]
  BY <1>2, <1>4 DEF Valued, VisitorType
<1> HIDE DEF v
<1> QED  BY <1>2, <1>3, <1>4, <1>5, <1>6 DEF VisitorType, GoesOn

\* The visitor of an object.
LEMMA NewVisitor ==
  ASSUME NEW todo \in Seq(Nodes), NEW d \in BOOLEAN, NEW E
  PROVE  /\ Visitor(todo, d) \in VisitorType(E)
         /\ Visitor(todo, d).values = <<>> /\ Visitor(todo, d).fields = <<>>
         /\ Visitor(todo, d).phase = "launched" /\ Visitor(todo, d).detached = d
         /\ Len(Visitor(todo, d).nest) = 1
<1> DEFINE scope == Scope("set", NoDirectives, todo)
<1>1. scope \in Scopes /\ scope.kind = "set"
  BY DEF Scope, Scopes
<1> HIDE DEF scope
<1>2. <<scope>> \in Seq(Scopes) /\ Len(<<scope>>) = 1 /\ <<scope>>[1] = scope /\ <<scope>> # <<>>
      /\ DOMAIN <<scope>> = 1..1
  BY <1>1
<1>3. <<scope>> \in Nests
  BY <1>1, <1>2 DEF Nests
<1>4. Visitor(todo, d) = [phase |-> "launched", detached |-> d, nest |-> <<scope>>, names |-> {},
                          values |-> <<>>, fields |-> <<>>, errors |-> <<>>]
  BY DEF Visitor, scope
<1>5. <<>> \in Seq(Aliases) /\ <<>> \in Seq(E) /\ <<>> \in Seq(Paths)
  OBVIOUS
<1> QED  BY <1>1, <1>2, <1>3, <1>4, <1>5 DEF VisitorType

\* A field whose result is awaited from now on.  Its resolver is not found, or
\* is called; then the result is there, or somebody is made to come up with it.
Answered(q, made, waits, ready, called) ==
  /\ made \cup waits \cup ready = {q} /\ made \cup waits \subseteq called /\ called \subseteq {q}
  /\ made \cap waits = {} /\ made \cap ready = {} /\ waits \cap ready = {}
Awaits(p, n, q, made, waits, ready, called, d, r, o) ==
  /\ q = Append(p, Alias[n]) /\ Answered(q, made, waits, ready, called)
  /\ d \in BOOLEAN /\ r \in ResultType(Entries) /\ r.kind # "object" /\ o \in ObservedType
  /\ visitors' = [t \in DOMAIN visitors \cup made |->
                    IF t = p THEN Valued(visitors[p], n)
                    ELSE IF t \in made THEN Visitor(Sub[n], d) ELSE visitors[t]]
  /\ results' = [t \in DOMAIN results \cup ready |-> IF t \in ready THEN r ELSE results[t]]
  /\ observed' = [t \in DOMAIN observed \cup called |-> IF t \in called THEN o ELSE observed[t]]
  /\ awaited' = awaited \cup waits
  /\ UNCHANGED <<document, stacks>>

LEMMA LaunchInv ==
  ASSUME Inv, NEW p \in DOMAIN visitors, NEW n \in Fields, Visits(p, n), Alias[n] \notin visitors[p].names,
         NEW q, NEW made, NEW waits, NEW ready, NEW called, NEW d, NEW r, NEW o,
         Awaits(p, n, q, made, waits, ready, called, d, r, o)
  PROVE  Inv' /\ q \notin DOMAIN results /\ q \notin DOMAIN observed
<1> DEFINE a == Alias[n]
           v == visitors[p]
           w == Valued(v, n)
           u == Visitor(Sub[n], d)
<1>0. /\ made \subseteq {q} /\ waits \subseteq {q} /\ ready \subseteq {q} /\ called \subseteq {q}
      /\ q \in made \cup waits \cup ready /\ made \cup waits \subseteq called
      /\ q \in ready => q \notin made /\ q \notin waits
      /\ q \in made => q \notin waits
      /\ q = Append(p, a) /\ d \in BOOLEAN /\ r \in ResultType(Entries) /\ r.kind # "object"
      /\ o \in ObservedType
  BY DEF Awaits, Answered
<1>1. /\ a \in Aliases /\ p \in Paths
      /\ \A t \in DOMAIN visitors : t \in Paths /\ visitors[t] \in VisitorType(Entries)
      /\ n \in Nodes
  BY DEF Aliases, Inv, Typed, Nodes
<1>2. q \notin DOMAIN observed \cup DOMAIN results \cup DOMAIN visitors \cup awaited
  BY <1>0, <1>1, FreshPath DEF Inv
<1>3. /\ q \in Paths /\ q # <<>> /\ q # p /\ Len(q) = Len(p) + 1 /\ Len(p) \in Nat
      /\ \A k \in 0..Len(p) : Prefix(q, k) = Prefix(p, k)
  BY <1>0, <1>1, <1>2, ChildPath DEF Paths
<1>4. /\ w \in VisitorType(Entries) /\ w.nest = Advanced(v).nest /\ w.names = v.names \cup {a}
      /\ w.values = Append(v.values, a) /\ w.phase = "visiting" /\ v.phase = "visiting"
      /\ w.fields = v.fields /\ w.detached = v.detached
  BY ValuedVisitor DEF Visits
<1>5. \A E : /\ u \in VisitorType(E) /\ u.values = <<>> /\ u.fields = <<>>
             /\ u.phase = "launched" /\ u.detached = d
             /\ Len(u.nest) = 1
  BY <1>0, <1>1, NewVisitor, DocumentData
<1>6. /\ DOMAIN visitors' = DOMAIN visitors \cup made /\ visitors'[p] = w
      /\ \A t \in made : t = q /\ visitors'[t] = u
      /\ \A t \in DOMAIN visitors : t # p => visitors'[t] = visitors[t]
      /\ visitors' = [t \in DOMAIN visitors' |-> visitors'[t]]
  BY <1>0, <1>2, <1>3 DEF Awaits
<1>7. /\ DOMAIN results' = DOMAIN results \cup ready
      /\ \A t \in ready : t = q /\ results'[t] = r
      /\ \A t \in DOMAIN results : results'[t] = results[t]
      /\ results' = [t \in DOMAIN results' |-> results'[t]]
  BY <1>0, <1>2 DEF Awaits
<1>8. /\ DOMAIN observed' = DOMAIN observed \cup called
      /\ observed' \in [DOMAIN observed' -> ObservedType]
  BY <1>0, <1>2 DEF Awaits, Inv, Typed
<1>9. UNCHANGED <<request, conditions, outcomes, definitions, spreads, inlines>> /\ awaited' = awaited \cup waits
  BY DEF Awaits, document, stacks
<1> HIDE DEF w, u, a
<1>10. /\ v.values \in Seq(Aliases) /\ Len(v.values) \in Nat /\ Len(w.values) = Len(v.values) + 1
       /\ w.values[Len(v.values) + 1] = a
       /\ DOMAIN v.values = 1..Len(v.values) /\ DOMAIN w.values = 1..(Len(v.values) + 1)
       /\ \A i \in 1..Len(v.values) : w.values[i] = v.values[i]
  BY <1>1, <1>4 DEF VisitorType
<1>11. /\ Entries \subseteq Entries' /\ VisitorType(Entries) \subseteq VisitorType(Entries')
       /\ results' \in [DOMAIN results' -> ResultType(Entries')]
  BY <1>0, <1>7, ResultsGrow DEF Inv, Typed
<1> HIDE DEF v
<1>12. Typed'
  <2>1. visitors' \in [DOMAIN visitors' -> VisitorType(Entries')]
    <3>1. ASSUME NEW t \in DOMAIN visitors'
          PROVE  visitors'[t] \in VisitorType(Entries')
      BY <1>1, <1>4, <1>5, <1>6, <1>11, <3>1
    <3> QED  BY <1>6, <3>1
  <2>2. DOMAIN visitors' \cup DOMAIN results' \cup DOMAIN observed' \subseteq Paths
    BY <1>0, <1>3, <1>6, <1>7, <1>8 DEF Inv, Typed
  <2>3. ObservedType' = ObservedType
    BY DEF ObservedType
  <2> QED  BY <1>8, <1>9, <1>11, <2>1, <2>2, <2>3 DEF Inv, Typed
<1>13. ASSUME NEW t \in DOMAIN visitors, NEW i \in DOMAIN visitors[t].values
       PROVE  i \in DOMAIN visitors'[t].values /\ visitors'[t].values[i] = visitors[t].values[i]
  <2>1. CASE t = p
    <3>1. visitors[t] = v /\ visitors'[t] = w
      BY <1>6, <2>1 DEF v
    <3>2. i \in DOMAIN v.values
      BY <3>1
    <3>3. i \in DOMAIN w.values /\ w.values[i] = v.values[i]
      BY <1>10, <3>2
    <3> QED  BY <3>1, <3>3
  <2>2. CASE t # p
    BY <1>6, <2>2
  <2> QED  BY <2>1, <2>2
<1>14. Tree'
  <2>1. ASSUME NEW t, HasParent(t)
        PROVE  HasParent(t)'
    <3>1. PICK s \in DOMAIN visitors : \E i \in DOMAIN visitors[s].values : t = Append(s, visitors[s].values[i])
      BY <2>1 DEF HasParent
    <3>2. PICK i \in DOMAIN visitors[s].values : t = Append(s, visitors[s].values[i])
      BY <3>1
    <3>3. s \in DOMAIN visitors' /\ i \in DOMAIN visitors'[s].values /\ t = Append(s, visitors'[s].values[i])
      BY <1>6, <1>13, <3>2
    <3> QED  BY <3>3 DEF HasParent
  <2>2. HasParent(q)'
    <3>1. Len(v.values) + 1 \in DOMAIN visitors'[p].values
          /\ q = Append(p, visitors'[p].values[Len(v.values) + 1])
      BY <1>0, <1>6, <1>10
    <3> QED  BY <1>6, <3>1 DEF HasParent
  <2>3. \A t \in (DOMAIN observed' \cup DOMAIN results') \ {<<>>} : HasParent(t)'
    BY <1>0, <1>7, <1>8, <2>1, <2>2 DEF Inv, Tree
  <2>4. \A t \in DOMAIN visitors' : t \in DOMAIN results' <=> visitors'[t].phase \in Ended
    <3>1. \A t \in DOMAIN visitors : visitors'[t].phase = visitors[t].phase
      BY <1>4, <1>6 DEF v
    <3>2. \A t \in DOMAIN visitors : t \notin made /\ t \notin ready
      BY <1>0, <1>2
    <3>3. \A t \in made : t \notin DOMAIN results /\ t \notin ready /\ visitors'[t].phase \notin Ended
      BY <1>0, <1>2, <1>5, <1>6 DEF Ended
    <3>4. \A t \in DOMAIN visitors : t \in DOMAIN results <=> visitors[t].phase \in Ended
      BY DEF Inv, Tree
    <3> QED  BY <1>6, <1>7, <3>1, <3>2, <3>3, <3>4
  <2>5. /\ awaited' \subseteq DOMAIN observed' \ (DOMAIN results' \cup DOMAIN visitors')
        /\ DOMAIN observed' \subseteq DOMAIN visitors' \cup awaited' \cup DOMAIN results'
    <3>1. /\ awaited \subseteq DOMAIN observed \ (DOMAIN results \cup DOMAIN visitors)
          /\ DOMAIN observed \subseteq DOMAIN visitors \cup awaited \cup DOMAIN results
      BY DEF Inv, Tree
    <3>2. DOMAIN observed' \subseteq DOMAIN visitors' \cup awaited' \cup DOMAIN results'
      BY <1>0, <1>6, <1>7, <1>8, <1>9, <3>1
    <3>3. \A t \in awaited : t # q /\ t \in DOMAIN observed /\ t \notin DOMAIN results /\ t \notin DOMAIN visitors
      BY <1>2, <3>1
    <3>4. \A t \in waits : t = q /\ t \in called /\ t \notin ready /\ t \notin made
      BY <1>0
    <3>5. \A t \in ready \cup made : t = q
      BY <1>0
    <3> QED  BY <1>2, <1>6, <1>7, <1>8, <1>9, <3>2, <3>3, <3>4, <3>5
  <2>6. /\ <<>> \in DOMAIN visitors' /\ <<>> \notin DOMAIN observed'
        /\ DOMAIN visitors' \subseteq DOMAIN observed' \cup {<<>>}
    BY <1>0, <1>3, <1>6, <1>8 DEF Inv, Tree
  <2> QED  BY <2>3, <2>4, <2>5, <2>6 DEF Tree
<1>15. AwaitedOnce'
  <2> SUFFICES ASSUME NEW t \in DOMAIN visitors', NEW i \in DOMAIN visitors'[t].values
               PROVE  /\ visitors'[t].values[i] \in visitors'[t].names
                      /\ \A j \in DOMAIN visitors'[t].values :
                            visitors'[t].values[i] = visitors'[t].values[j] => i = j
                      /\ Append(t, visitors'[t].values[i]) \in DOMAIN observed' \cup DOMAIN results'
    BY DEF AwaitedOnce
  <2>1. t \in DOMAIN visitors
    BY <1>5, <1>6
  <2>2. CASE t # p
    BY <1>6, <1>7, <1>8, <2>1, <2>2 DEF Inv, AwaitedOnce
  <2>3. CASE t = p
    <3>1. visitors'[t].values = w.values /\ visitors'[t].names = v.names \cup {a} /\ a \notin v.names
      BY <1>4, <1>6, <2>3 DEF v, a
    <3>2. \A j \in DOMAIN v.values :
            /\ v.values[j] \in v.names /\ v.values[j] # a
            /\ \A k \in DOMAIN v.values : v.values[j] = v.values[k] => j = k
            /\ Append(p, v.values[j]) \in DOMAIN observed \cup DOMAIN results
      BY <3>1 DEF Inv, AwaitedOnce, v
    <3>3. q \in DOMAIN observed' \cup DOMAIN results'
      BY <1>0, <1>7, <1>8
    <3>4. q = Append(p, a)
      BY <1>0
    <3> SUFFICES /\ w.values[i] \in v.names \cup {a}
                 /\ \A j \in DOMAIN w.values : w.values[i] = w.values[j] => i = j
                 /\ Append(p, w.values[i]) \in DOMAIN observed' \cup DOMAIN results'
      BY <2>3, <3>1
    <3>7. i \in 1..(Len(v.values) + 1)
      BY <1>10, <3>1
    <3>8. \A j \in 1..(Len(v.values) + 1) : j \in DOMAIN v.values \/ j = Len(v.values) + 1
      BY <1>10
    <3>9. \A j \in DOMAIN v.values : w.values[j] = v.values[j] /\ j # Len(v.values) + 1
      BY <1>10
    <3>5. CASE i \in DOMAIN v.values
      BY <1>7, <1>8, <1>10, <3>2, <3>5, <3>8, <3>9
    <3>6. CASE i = Len(v.values) + 1
      BY <1>10, <3>2, <3>3, <3>4, <3>6, <3>8, <3>9
    <3> QED  BY <3>5, <3>6, <3>7, <3>8
  <2> QED  BY <2>2, <2>3
<1>16. Assembled'
  <2>1. ASSUME NEW t \in DOMAIN visitors'
        PROVE  /\ Len(visitors'[t].fields) <= Len(visitors'[t].values)
               /\ \A i \in 1..Len(visitors'[t].fields) :
                    /\ Append(t, visitors'[t].values[i]) \in DOMAIN results'
                    /\ visitors'[t].fields[i] =
                         Entry(visitors[t].values[i], Append(t, visitors[t].values[i]))'
    <3>1. CASE t \in made
      BY <1>5, <1>6, <3>1
    <3>2. CASE t \in DOMAIN visitors
      <4>1. /\ visitors'[t].fields = visitors[t].fields
            /\ Len(visitors[t].values) \in Nat /\ Len(visitors'[t].values) \in Nat
            /\ Len(visitors[t].fields) \in Nat
            /\ Len(visitors[t].values) <= Len(visitors'[t].values)
            /\ DOMAIN visitors[t].values = 1..Len(visitors[t].values)
        <5>1. /\ visitors[t].values \in Seq(Aliases) /\ visitors[t].fields \in Seq(Entries)
          BY <1>1, <3>2 DEF VisitorType
        <5>2. CASE t = p
          BY <1>4, <1>6, <1>10, <5>1, <5>2 DEF v
        <5>3. CASE t # p
          BY <1>6, <3>2, <5>1, <5>3
        <5> QED  BY <5>2, <5>3
      <4>2. Len(visitors[t].fields) <= Len(visitors[t].values)
        BY <3>2 DEF Inv, Assembled
      <4>3. ASSUME NEW i \in 1..Len(visitors[t].fields)
            PROVE  /\ Append(t, visitors'[t].values[i]) \in DOMAIN results'
                   /\ visitors'[t].fields[i] =
                         Entry(visitors[t].values[i], Append(t, visitors[t].values[i]))'
        <5>1. visitors'[t].values[i] = visitors[t].values[i]
          BY <1>13, <3>2, <4>1, <4>2
        <5>2. /\ Append(t, visitors[t].values[i]) \in DOMAIN results
              /\ visitors[t].fields[i] = Entry(visitors[t].values[i], Append(t, visitors[t].values[i]))
          BY <3>2 DEF Inv, Assembled
        <5> DEFINE c == Append(t, visitors[t].values[i])
        <5> QED  BY <1>7, <4>1, <5>1, <5>2 DEF Entry
      <4> QED  BY <4>1, <4>2, <4>3
    <3> QED  BY <1>6, <3>1, <3>2
  <2>2. ASSUME NEW t \in DOMAIN visitors', visitors'[t].phase \in Ended
        PROVE  /\ t \in DOMAIN visitors /\ visitors'[t] = visitors[t]
               /\ results'[t] = results[t]
    <3>1. t \in DOMAIN visitors /\ visitors'[t] = visitors[t]
      BY <1>4, <1>5, <1>6, <2>2 DEF Ended
    <3>2. t \in DOMAIN results
      BY <2>2, <3>1 DEF Inv, Tree
    <3> QED  BY <1>7, <3>1, <3>2
  <2>3. ASSUME NEW t \in DOMAIN visitors'
        PROVE  /\ visitors'[t].phase = "done" =>
                    /\ Len(visitors'[t].fields) = Len(visitors'[t].values)
                    /\ results'[t].kind = "object" /\ results'[t].fields = visitors'[t].fields
               /\ visitors'[t].phase = "threw" => results'[t] = Null(<<<<>>>>)
    BY <2>2 DEF Inv, Assembled, Ended
  <2>4. \A t \in DOMAIN results' : results'[t].kind = "object" => t \in DOMAIN visitors'
    BY <1>0, <1>6, <1>7 DEF Inv, Assembled
  <2> HIDE DEF v, w, u, a
  <2> QED  BY ONLY <2>1, <2>3, <2>4 DEF Assembled, Null
<1>17. Orphans'
  <2>1. ASSUME NEW t \in DOMAIN visitors, NEW k \in 0..Len(t)
        PROVE  /\ Prefix(t, k) \in DOMAIN visitors
               /\ visitors'[Prefix(t, k)].detached = visitors[Prefix(t, k)].detached
               /\ visitors'[Prefix(t, k)].phase = visitors[Prefix(t, k)].phase
               /\ visitors'[t].phase = visitors[t].phase
    BY <1>4, <1>6 DEF Inv, Orphans, v
  <2>2. ASSUME NEW t \in DOMAIN visitors, NEW k \in 0..Len(t), visitors[Prefix(t, k)].phase \in Ended
        PROVE  visitors[t].phase \in Ended \/ Orphaned(t, k)'
    <3>1. visitors[t].phase \in Ended \/ Orphaned(t, k)
      BY <2>2 DEF Inv, Orphans
    <3>2. ASSUME Orphaned(t, k)
          PROVE  Orphaned(t, k)'
      <4>1. PICK j \in k..(Len(t) - 1) :
               visitors[Prefix(t, j)].phase = "threw" /\ visitors[Prefix(t, j + 1)].detached
        BY <3>2 DEF Orphaned
      <4>2. j \in 0..Len(t) /\ j + 1 \in 0..Len(t)
        BY <1>1 DEF Paths
      <4> QED  BY <2>1, <4>1, <4>2 DEF Orphaned
    <3> QED  BY <3>1, <3>2
  <2>3. ASSUME NEW k \in 0..Len(q), q \in made
        PROVE  /\ Prefix(q, k) \in DOMAIN visitors'
               /\ visitors'[Prefix(q, k)].phase \in Ended => Orphaned(q, k)'
    <3>1. CASE k = Len(q)
      <4>1. Prefix(q, k) = q
        BY <1>3, <3>1, SubSeqFull DEF Prefix, Paths
      <4> QED  BY <1>5, <1>6, <2>3, <4>1 DEF Ended
    <3>2. CASE k # Len(q)
      <4>1. k \in 0..Len(p) /\ Prefix(q, k) = Prefix(p, k)
        BY <1>3, <3>2
      <4>2. SUFFICES ASSUME visitors'[Prefix(p, k)].phase \in Ended
                     PROVE  Orphaned(q, k)'
        BY <1>6, <2>1, <4>1
      <4>3. Orphaned(p, k)'
        BY <1>4, <2>1, <2>2, <4>1, <4>2 DEF Ended, v
      <4>4. PICK j \in k..(Len(p) - 1) :
               visitors'[Prefix(p, j)].phase = "threw" /\ visitors'[Prefix(p, j + 1)].detached
        BY <4>3 DEF Orphaned
      <4>5. j \in 0..Len(p) /\ j + 1 \in 0..Len(p) /\ j \in k..(Len(q) - 1)
        BY <1>3
      <4> QED  BY <1>3, <4>4, <4>5 DEF Orphaned
    <3> QED  BY <3>1, <3>2
  <2>4. ASSUME NEW t \in DOMAIN visitors', NEW k \in 0..Len(t)
        PROVE  /\ Prefix(t, k) \in DOMAIN visitors'
               /\ visitors'[Prefix(t, k)].phase \in Ended =>
                     visitors'[t].phase \in Ended \/ Orphaned(t, k)'
    <3>1. CASE t \in DOMAIN visitors
      BY <1>6, <2>1, <2>2, <3>1
    <3>2. CASE t \in made
      BY <1>6, <2>3, <3>2
    <3> QED  BY <1>6, <3>1, <3>2
  <2> QED  BY <2>4 DEF Orphans
<1>18. Changing' /\ Pushed'
  <2>1. /\ v.nest \in Seq(Scopes) /\ w.nest \in Seq(Scopes)
        /\ Len(w.nest) = Len(v.nest) /\ \A i \in 1..Len(v.nest) : w.nest[i].kind = v.nest[i].kind
    BY <1>1, <1>4, VisitedVisitor, InnermostScope DEF v
  <2>2. /\ p \notin DOMAIN changes /\ UNCHANGED stacks
        /\ \A t \in made : visitors'[t].phase = "launched" /\ Len(visitors'[t].nest) = 1
    BY <1>5, <1>6 DEF Awaits, Visits
  <2>3. ASSUME NEW t \in DOMAIN visitors
        PROVE  /\ Len(visitors'[t].nest) = Len(visitors[t].nest)
               /\ \A i \in 1..Len(visitors[t].nest) : visitors'[t].nest[i].kind = visitors[t].nest[i].kind
               /\ visitors'[t].phase = "launched" <=> visitors[t].phase = "launched"
               /\ t \in DOMAIN changes => visitors'[t] = visitors[t]
    <3>1. CASE t = p
      BY <1>4, <1>6, <2>1, <2>2, <3>1 DEF v
    <3>2. CASE t # p
      BY <1>6, <3>2
    <3> QED  BY <3>1, <3>2
  <2> QED  BY <1>6, <2>2, <2>3, StacksSame DEF Inv
<1> QED  BY <1>2, <1>12, <1>14, <1>15, <1>16, <1>17, <1>18 DEF Inv

LEMMA UnknownFieldInv ==
  ASSUME Inv, NEW p \in DOMAIN visitors, NEW n \in Nodes, Visits(p, n), UnknownField(p, n)
  PROVE  Inv' /\ Append(p, Alias[n]) \notin DOMAIN results
<1> DEFINE q == Append(p, Alias[n])
           r == Null(<<p>>)
           w == Valued(visitors[p], n)
<1>1. n \in Fields /\ Alias[n] \notin visitors[p].names
  BY DEF UnknownField, Unseen
<1>2. p \in Paths /\ visitors = [t \in DOMAIN visitors |-> visitors[t]]
      /\ observed = [t \in DOMAIN observed |-> observed[t]]
  BY DEF Inv, Typed
<1>3. r \in ResultType(Entries) /\ r.kind # "object"
  BY <1>2, NullType
<1>4. /\ visitors' = [visitors EXCEPT ![p] = w] /\ results' = Set(results, q, r)
      /\ UNCHANGED <<document, awaited, stacks, observed>>
  BY DEF UnknownField
<1> HIDE DEF q, r, w
<1>5. PICK d : d \in BOOLEAN
  OBVIOUS
<1>6. PICK o : o \in ObservedType
  <2>0. <<>> \in Seq(Nodes) /\ TRUE \in BOOLEAN
    OBVIOUS
  <2>1. Visitor(<<>>, TRUE).nest \in Nests
    BY <2>0, NewVisitor DEF VisitorType
  <2>2. <<>> \in Seq(Definitions) /\ <<>> \in Seq(Spreads \cup {NoDirectives}) /\ <<>> \in Seq(Inlines \cup {NoDirectives})
    OBVIOUS
  <2>3. [node |-> n, nest |-> Visitor(<<>>, TRUE).nest, definitions |-> <<>>, spreads |-> <<>>, inlines |-> <<>>] \in ObservedType
    BY <1>1, <2>1, <2>2 DEF ObservedType
  <2> QED  BY <2>3
<1>7. visitors' = [t \in DOMAIN visitors \cup {} |->
                    IF t = p THEN w ELSE IF t \in {} THEN Visitor(Sub[n], d) ELSE visitors[t]]
  BY <1>2, <1>4
<1>8. results' = [t \in DOMAIN results \cup {q} |-> IF t \in {q} THEN r ELSE results[t]]
  BY <1>4 DEF Set
<1>9. observed' = [t \in DOMAIN observed \cup {} |-> IF t \in {} THEN o ELSE observed[t]]
  BY <1>2, <1>4
<1>10. awaited' = awaited \cup {}
  BY <1>4
<1>11. Inv' /\ q \notin DOMAIN results
  <2>1. Answered(q, {}, {}, {q}, {})
    BY DEF Answered
  <2>3. q = Append(p, Alias[n])
    BY DEF q
  <2>2. Awaits(p, n, q, {}, {}, {q}, {}, d, r, o)
    BY <1>3, <1>4, <1>5, <1>6, <1>7, <1>8, <1>9, <1>10, <2>1, <2>3 DEF Awaits, w
  <2> QED  BY <1>1, <2>2, LaunchInv
<1> QED  BY <1>11 DEF q

LEMMA CallAccessorInv ==
  ASSUME Inv, NEW p \in DOMAIN visitors, NEW n \in Nodes, Visits(p, n), CallAccessor(p, n)
  PROVE  /\ Inv'
         /\ Append(p, Alias[n]) \notin DOMAIN results
         /\ Append(p, Alias[n]) \notin DOMAIN observed
<1> DEFINE q == Append(p, Alias[n])
           r == Settled(p, n)
           w == Valued(visitors[p], n)
           o == [node |-> n, nest |-> visitors[p].nest, definitions |-> definitions,
                 spreads |-> spreads, inlines |-> inlines]
           d == Detached(n)
           object == Sub[n] # <<>> /\ outcomes[n] = "value"
           made == IF object THEN {q} ELSE {}
           waits == IF ~object /\ d THEN {q} ELSE {}
           ready == IF ~object /\ ~d THEN {q} ELSE {}
<1>1. n \in Fields /\ Alias[n] \notin visitors[p].names
  BY DEF CallAccessor, Unseen
<1>2. p \in Paths /\ visitors = [t \in DOMAIN visitors |-> visitors[t]]
      /\ results = [t \in DOMAIN results |-> results[t]] /\ visitors[p] \in VisitorType(Entries)
  BY DEF Inv, Typed
<1>3. r \in ResultType(Entries) /\ r.kind # "object"
  BY <1>1, <1>2, SettledType DEF Inv
<1>4. o \in ObservedType
  BY <1>1, <1>2 DEF Inv, Typed, ObservedType, VisitorType
<1>5. d \in BOOLEAN
  BY DEF Detached
<1>6. /\ observed' = Set(observed, q, o)
      /\ visitors' = IF object THEN Set([visitors EXCEPT ![p] = w], q, Visitor(Sub[n], d))
                     ELSE [visitors EXCEPT ![p] = w]
      /\ awaited' = IF ~object /\ d THEN awaited \cup {q} ELSE awaited
      /\ results' = IF ~object /\ ~d THEN Set(results, q, r) ELSE results
      /\ UNCHANGED <<document, stacks>>
  BY DEF CallAccessor
<1>7. q # p
  <2>1. Alias[n] \in Aliases
    BY <1>1 DEF Aliases
  <2>2. Len(q) = Len(p) + 1 /\ Len(p) \in Nat
    BY <1>2, <2>1, ChildPath DEF Paths
  <2> QED  BY <2>2
<1> HIDE DEF q, r, w, o, d, object
<1>8. visitors' = [t \in DOMAIN visitors \cup made |->
                    IF t = p THEN w ELSE IF t \in made THEN Visitor(Sub[n], d) ELSE visitors[t]]
  BY <1>2, <1>6, <1>7 DEF Set
<1>9. results' = [t \in DOMAIN results \cup ready |-> IF t \in ready THEN r ELSE results[t]]
  BY <1>2, <1>6 DEF Set
<1>10. observed' = [t \in DOMAIN observed \cup {q} |-> IF t \in {q} THEN o ELSE observed[t]]
  BY <1>6 DEF Set
<1>11. awaited' = awaited \cup waits
  BY <1>6
<1>12. Answered(q, made, waits, ready, {q})
  BY DEF Answered
<1> HIDE DEF made, waits, ready
<1>13. Awaits(p, n, q, made, waits, ready, {q}, d, r, o)
  <2>1. q = Append(p, Alias[n])
    BY DEF q
  <2> QED  BY <1>3, <1>4, <1>5, <1>6, <1>8, <1>9, <1>10, <1>11, <1>12, <2>1 DEF Awaits, w
<1>14. Inv' /\ q \notin DOMAIN results /\ q \notin DOMAIN observed
  BY <1>1, <1>13, LaunchInv
<1> QED  BY <1>14 DEF q

-----------------------------------------------------------------------------
(* The invariant                                                           *)

LEMMA InitInv ==
  ASSUME Init
  PROVE  Inv
<1> DEFINE v == Visitor(Root, TRUE)
<1>1. /\ visitors = [p \in {<<>>} |-> v] /\ awaited = {} /\ results = <<>> /\ observed = <<>>
      /\ definitions = <<>> /\ spreads = <<>> /\ inlines = <<>>
      /\ changes = <<>>
      /\ request \in [policy : {"sync", "async"}, isMutation : BOOLEAN]
      /\ conditions \in [Nodes -> ConditionValues] /\ outcomes \in [Fields -> OutcomeValues]
  BY DocumentData DEF Init
<1>2. \A E : /\ v \in VisitorType(E) /\ v.values = <<>> /\ v.fields = <<>> /\ v.phase = "launched"
             /\ Len(v.nest) = 1
  BY NewVisitor, DocumentData
<1> HIDE DEF v
<1>3. /\ DOMAIN visitors = {<<>>} /\ visitors[<<>>] = v
      /\ DOMAIN results = {} /\ DOMAIN observed = {} /\ <<>> \in Paths
      /\ DOMAIN v.values = {}
  BY <1>1, <1>2 DEF Paths
<1>4. Typed
  <2>1. visitors \in [DOMAIN visitors -> VisitorType(Entries)]
    BY <1>1, <1>2
  <2>2. /\ results \in [DOMAIN results -> ResultType(Entries)]
        /\ observed \in [DOMAIN observed -> ObservedType]
    BY <1>1
  <2>3. /\ definitions \in Seq(Definitions) /\ spreads \in Seq(Spreads \cup {NoDirectives})
        /\ inlines \in Seq(Inlines \cup {NoDirectives})
    BY <1>1
  <2>4. DOMAIN visitors \cup DOMAIN results \cup DOMAIN observed \subseteq Paths
    BY <1>3
  <2> QED  BY <1>1, <2>1, <2>2, <2>3, <2>4, DocumentData DEF Typed
<1>5. Tree
  BY <1>1, <1>2, <1>3 DEF Tree, Ended
<1>6. AwaitedOnce
  BY <1>3 DEF AwaitedOnce
<1>7. Assembled
  BY <1>2, <1>3 DEF Assembled
<1>8. Orphans
  <2>1. \A k \in 0..Len(<<>>) : Prefix(<<>>, k) = <<>>
    BY DEF Prefix
  <2> QED  BY <1>2, <1>3, <2>1 DEF Orphans, Ended
<1>9. Changing
  BY <1>1, <1>2, <1>3 DEF Changing
<1>10. Pushed
  <2>1. \A list \in Lists : Holders(list) = {}
    BY <1>2, <1>3 DEF Holders, Holds
  <2>2. IsFiniteSet({}) /\ Cardinality({}) = 0
    BY FS_EmptySet
  <2>3. Len(definitions) = 0 /\ Len(spreads) = 0 /\ Len(inlines) = 0
    BY <1>1
  <2> QED  BY <2>1, <2>2, <2>3 DEF Pushed, PoppedWasPushed, Lists
<1> QED  BY <1>4, <1>5, <1>6, <1>7, <1>8, <1>9, <1>10 DEF Inv

\* What is written once: the results, and what an accessor was called with.
Kept(f, g) == \A t \in DOMAIN f : t \in DOMAIN g /\ g[t] = f[t]

LEMMA SetKeeps ==
  ASSUME NEW f, NEW x, x \notin DOMAIN f, NEW y
  PROVE  Kept(f, Set(f, x, y))
BY DEF Kept, Set

LEMMA VisitInv ==
  ASSUME Inv, NEW p \in DOMAIN visitors, NEW n \in Nodes, Running(p), Visit(p, n)
  PROVE  Inv' /\ Kept(results, results') /\ Kept(observed, observed')
<1>1. Visits(p, n)
  BY DEF Visit
<1>2. CASE SkipName(p, n)
  BY <1>1, <1>2, SkipNameInv DEF SkipName, Kept
<1>3. CASE UnknownField(p, n)
  <2>1. /\ results' = Set(results, Append(p, Alias[n]), Null(<<p>>))
        /\ observed' = observed
    BY <1>3 DEF UnknownField
  <2>2. Inv' /\ Append(p, Alias[n]) \notin DOMAIN results
    BY <1>1, <1>3, UnknownFieldInv
  <2>3. Kept(results, results')
    BY <2>1, <2>2, SetKeeps
  <2> QED  BY <2>1, <2>2, <2>3 DEF Kept
<1>4. CASE SkipField(p, n)
  BY <1>1, <1>4, SkipFieldInv DEF SkipField, Kept
<1>5. CASE CallAccessor(p, n)
  <2>1. /\ Inv' /\ Append(p, Alias[n]) \notin DOMAIN results
        /\ Append(p, Alias[n]) \notin DOMAIN observed
    BY <1>1, <1>5, CallAccessorInv
  <2>2. Kept(observed, observed')
    BY <1>5, <2>1, SetKeeps DEF CallAccessor
  <2>3. Kept(results, results')
    <3>1. CASE results' = results
      BY <3>1 DEF Kept
    <3>2. CASE results' = Set(results, Append(p, Alias[n]), Settled(p, n))
      BY <2>1, <3>2, SetKeeps
    <3> QED  BY <1>5, <3>1, <3>2 DEF CallAccessor
  <2> QED  BY <2>1, <2>2, <2>3
<1>6. CASE SkipFragment(p, n)
  BY <1>1, <1>6, SkipFragmentInv DEF SkipFragment, Kept
<1>7. CASE EnterSpread(p, n)
  BY <1>1, <1>7, EnterSpreadInv DEF EnterSpread, Kept
<1>8. CASE EnterInline(p, n)
  BY <1>1, <1>8, EnterInlineInv DEF EnterInline, Kept
<1>9. CASE ThrowFromNode(p, n)
  <2>1. results' = Set(results, p, Null(<<<<>>>>)) /\ observed' = observed
    BY <1>9 DEF ThrowFromNode, Throw
  <2>2. Inv' /\ p \notin DOMAIN results
    BY <1>1, <1>9, ThrowInv
  <2>3. Kept(results, results')
    BY <2>1, <2>2, SetKeeps
  <2> QED  BY <2>1, <2>2, <2>3 DEF Kept
<1> QED  BY <1>2, <1>3, <1>4, <1>5, <1>6, <1>7, <1>8, <1>9 DEF Visit

LEMMA NextInv ==
  ASSUME Inv, [Next]_vars
  PROVE  Inv' /\ Kept(results, results') /\ Kept(observed, observed')
<1>1. ASSUME NEW p \in DOMAIN visitors, Running(p), Start(p)
      PROVE  Inv' /\ Kept(results, results') /\ Kept(observed, observed')
  BY <1>1, StartInv DEF Start, Kept
<1>2. ASSUME NEW p \in DOMAIN visitors, Running(p), NEW n \in Nodes, Visit(p, n)
      PROVE  Inv' /\ Kept(results, results') /\ Kept(observed, observed')
  BY <1>2, VisitInv
<1>3. ASSUME NEW p \in DOMAIN visitors, LeaveSpread(p)
      PROVE  Inv' /\ Kept(results, results') /\ Kept(observed, observed')
  BY <1>3, LeaveSpreadInv DEF LeaveSpread, Kept
<1>4. ASSUME NEW p \in DOMAIN visitors, LeaveInline(p)
      PROVE  Inv' /\ Kept(results, results') /\ Kept(observed, observed')
  BY <1>4, LeaveInlineInv DEF LeaveInline, Kept
<1>5. ASSUME NEW p \in DOMAIN visitors, GetValues(p)
      PROVE  Inv' /\ Kept(results, results') /\ Kept(observed, observed')
  BY <1>5, GetValuesInv DEF GetValues, Kept
<1>6. ASSUME NEW p \in DOMAIN visitors, Await(p)
      PROVE  Inv' /\ Kept(results, results') /\ Kept(observed, observed')
  BY <1>6, AwaitInv DEF Await, Kept
<1>7. ASSUME NEW p \in DOMAIN visitors, Running(p), Finish(p)
      PROVE  Inv' /\ Kept(results, results') /\ Kept(observed, observed')
  <2> DEFINE r == [kind |-> "object", fields |-> visitors[p].fields, errors |-> visitors[p].errors]
  <2>1. results' = Set(results, p, r) /\ observed' = observed
    BY <1>7 DEF Finish
  <2>2. Inv' /\ p \notin DOMAIN results
    BY <1>7, FinishInv
  <2> HIDE DEF r
  <2>3. Kept(results, results')
    BY <2>1, <2>2, SetKeeps
  <2> QED  BY <2>1, <2>2, <2>3 DEF Kept
<1>8. ASSUME NEW q \in awaited, Resolve(q)
      PROVE  Inv' /\ Kept(results, results') /\ Kept(observed, observed')
  BY <1>8, ResolveInv, SetKeeps DEF Resolve, Kept
<1>10. ASSUME NEW p \in DOMAIN visitors, Change(p)
       PROVE  Inv' /\ Kept(results, results') /\ Kept(observed, observed')
  BY <1>10, ChangeInv DEF Kept, Change, StartSpreads, StartInlines, PushSpread, PopDefinition
<1>9. CASE UNCHANGED vars
  <2>1. UNCHANGED <<request, conditions, outcomes, visitors, awaited, results, stacks, observed>>
    BY <1>9 DEF vars, document
  <2>2. Typed'
    <3>1. Entries' = Entries /\ ObservedType' = ObservedType
      BY <2>1 DEF Entries, Entry, ObservedType
    <3>2. VisitorType(Entries)' = VisitorType(Entries) /\ ResultType(Entries)' = ResultType(Entries)
      BY <3>1 DEF VisitorType, ResultType
    <3> QED  BY <2>1, <3>1, <3>2 DEF Inv, Typed, stacks
  <2>3. Tree' /\ AwaitedOnce' /\ Orphans'
    BY <2>1 DEF Inv, Tree, AwaitedOnce, Orphans, Orphaned, HasParent
  <2>4. Assembled'
    BY <2>1 DEF Inv, Assembled, Entry, Null
  <2>5. Changing' /\ Pushed'
    BY <2>1, StacksSame DEF Inv
  <2> QED  BY <2>1, <2>2, <2>3, <2>4, <2>5 DEF Inv, Kept
<1> QED  BY <1>1, <1>2, <1>3, <1>4, <1>5, <1>6, <1>7, <1>8, <1>9, <1>10 DEF Next, VisitorStep

\* Whatever visitors, accessors and exceptions do, in any order, the execution
\* of an operation keeps the invariant.
THEOREM Invariance == Spec => []Inv
<1>1. Inv /\ [Next]_vars => Inv'
  BY NextInv
<1> QED  BY <1>1, InitInv, PTL DEF Spec

-----------------------------------------------------------------------------
(* Consequences                                                            *)

\* Every visitor, stack, result and response name is as declared, and only
\* accessors that were called and have not answered are waited for.
THEOREM TypeCorrect == Spec => []TypeOK
<1>1. Inv => TypeOK
  <2> SUFFICES ASSUME Inv PROVE TypeOK
    OBVIOUS
  <2>1. ASSUME NEW p \in DOMAIN visitors
        PROVE  /\ visitors[p].phase \in {"launched", "visiting", "awaiting"} \cup Ended
               /\ visitors[p].nest[1].kind = "set"
               /\ visitors[p].names \subseteq {Alias[n] : n \in Fields}
               /\ Len(visitors[p].fields) <= Len(visitors[p].values)
               /\ p # <<>> => p \in DOMAIN observed
    <3>1. visitors[p] \in VisitorType(Entries)
      BY DEF Inv, Typed
    <3>2. /\ Len(visitors[p].nest) \in Nat \ {0}
          /\ \A i \in 1..Len(visitors[p].nest) : visitors[p].nest[i].kind = "set" <=> i = 1
      BY <3>1, InnermostScope DEF VisitorType, Nests
    <3>3. 1 \in 1..Len(visitors[p].nest)
      BY <3>2
    <3>4. visitors[p].nest[1].kind = "set"
      BY <3>2, <3>3
    <3>5. Len(visitors[p].fields) <= Len(visitors[p].values) /\ (p # <<>> => p \in DOMAIN observed)
      BY DEF Inv, Assembled, Tree
    <3> QED  BY <3>1, <3>4, <3>5 DEF VisitorType, Ended, Aliases
  <2>2. \A p \in DOMAIN results : results[p].kind \in {"null", "scalar", "object"}
    BY DEF Inv, Typed, ResultType
  <2>3. /\ \A i \in DOMAIN definitions : definitions[i] \in {Fragment[n] : n \in Spreads} \cup {NoDirectives}
        /\ \A i \in DOMAIN spreads : spreads[i] \in Spreads \cup {NoDirectives}
        /\ \A i \in DOMAIN inlines : inlines[i] \in Inlines \cup {NoDirectives}
    BY DEF Inv, Typed, Definitions
  <2>4. awaited \subseteq DOMAIN observed \ DOMAIN results
    BY DEF Inv, Tree
  <2>5. conditions \in [Nodes -> ConditionValues] /\ outcomes \in [Fields -> OutcomeValues]
    BY DEF Inv, Typed
  <2>6. \A p \in DOMAIN changes :
           /\ p \in DOMAIN visitors /\ visitors[p].phase = "visiting"
           /\ changes[p] \in DOMAIN Lacking
    BY DEF Inv, Changing, Between, Lacking
  <2> QED  BY <2>1, <2>2, <2>3, <2>4, <2>5, <2>6 DEF TypeOK
<1> QED  BY <1>1, Invariance, PTL

\* No push is lost and nothing is popped that another visitor still needs to
\* pop, whichever visitors push and pop between two pushes or pops of one and
\* wherever exceptions leave their entries: the lists are as long as the
\* selection sets that were started and the fragments that are open.
THEOREM StacksAddUp == Spec => []PoppedWasPushed
<1>1. Inv => PoppedWasPushed
  BY DEF Inv, Pushed
<1> QED  BY <1>1, Invariance, PTL

\* The end of a fragment calls pop_front on lists that are not empty.
THEOREM PopsFindEntries ==
  Spec => [][\A p \in DOMAIN visitors :
                /\ LeaveSpread(p) => spreads # <<>>
                /\ LeaveInline(p) => inlines # <<>>
                /\ p \in DOMAIN changes /\ PopDefinition(p) => definitions # <<>>]_vars
<1>1. Inv => \A p \in DOMAIN visitors :
                /\ LeaveSpread(p) => spreads # <<>>
                /\ LeaveInline(p) => inlines # <<>>
                /\ p \in DOMAIN changes /\ PopDefinition(p) => definitions # <<>>
  BY LeaveSpreadInv, LeaveInlineInv, PopDefinitionInv
<1> QED  BY <1>1, Invariance, PTL

\* No result is set twice, and none that was awaited changes afterwards; what
\* an accessor was called with is not replaced.
THEOREM WrittenOnce == Spec => [][Kept(results, results') /\ Kept(observed, observed')]_vars
<1>1. Inv /\ [Next]_vars => Kept(results, results') /\ Kept(observed, observed')
  BY NextInv
<1> QED  BY <1>1, Invariance, PTL DEF Spec

\* The field accessor is called at most once for each response name of an
\* object, and never for one whose result is there.
THEOREM CalledOnce ==
  Spec => [][\A p \in DOMAIN visitors, n \in Nodes :
                Visits(p, n) /\ CallAccessor(p, n) =>
                   Append(p, Alias[n]) \notin DOMAIN observed \cup DOMAIN results]_vars
<1>1. Inv => \A p \in DOMAIN visitors, n \in Nodes :
                Visits(p, n) /\ CallAccessor(p, n) =>
                   Append(p, Alias[n]) \notin DOMAIN observed \cup DOMAIN results
  BY CallAccessorInv
<1> QED  BY <1>1, Invariance, PTL

\* What Object::resolve returns at its end: each response name once, with the
\* result for its path, and none of the accessors that were called left out.
DocumentIsComplete ==
  \A p \in DOMAIN visitors : visitors[p].phase = "done" =>
    /\ \A i, j \in DOMAIN results[p].fields :
          results[p].fields[i].alias = results[p].fields[j].alias => i = j
    /\ \A i \in DOMAIN results[p].fields :
          LET q == Append(p, results[p].fields[i].alias)
          IN  q \in DOMAIN results /\ results[p].fields[i] = Entry(results[p].fields[i].alias, q)
    /\ \A a \in Aliases : Append(p, a) \in DOMAIN observed \cup DOMAIN results =>
          \E i \in DOMAIN results[p].fields : results[p].fields[i].alias = a

\* A path with a result or an accessor is that of a value of its parent.
LEMMA ValueOfParent ==
  ASSUME Inv, NEW p \in DOMAIN visitors, NEW a \in Aliases,
         Append(p, a) \in DOMAIN observed \cup DOMAIN results
  PROVE  \E i \in DOMAIN visitors[p].values : visitors[p].values[i] = a
<1> DEFINE q == Append(p, a)
<1>1. p \in Paths /\ q # <<>>
  BY ChildPath DEF Inv, Typed
<1>2. \A s \in Paths, b \in Aliases : q = Append(s, b) <=> p = s /\ a = b
  BY <1>1, AppendInjective DEF Paths
<1>3. PICK t \in DOMAIN visitors : \E i \in DOMAIN visitors[t].values : q = Append(t, visitors[t].values[i])
  BY <1>1 DEF Inv, Tree, HasParent
<1>4. PICK i \in DOMAIN visitors[t].values : q = Append(t, visitors[t].values[i])
  BY <1>3
<1>5. t \in Paths /\ visitors[t].values[i] \in Aliases
  BY DEF Inv, Typed, VisitorType
<1> HIDE DEF q
<1> QED  BY <1>2, <1>4, <1>5

LEMMA CompleteDocument ==
  ASSUME Inv, NEW p \in DOMAIN visitors, visitors[p].phase = "done"
  PROVE  /\ results[p].fields = visitors[p].fields /\ Len(visitors[p].fields) = Len(visitors[p].values)
         /\ DOMAIN visitors[p].fields = DOMAIN visitors[p].values
         /\ \A i \in DOMAIN visitors[p].values :
              /\ Append(p, visitors[p].values[i]) \in DOMAIN results
              /\ visitors[p].fields[i] = Entry(visitors[p].values[i], Append(p, visitors[p].values[i]))
              /\ visitors[p].fields[i].alias = visitors[p].values[i]
<1>1. /\ results[p].fields = visitors[p].fields /\ Len(visitors[p].fields) = Len(visitors[p].values)
      /\ \A i \in 1..Len(visitors[p].fields) :
           /\ Append(p, visitors[p].values[i]) \in DOMAIN results
           /\ visitors[p].fields[i] = Entry(visitors[p].values[i], Append(p, visitors[p].values[i]))
  BY DEF Inv, Assembled
<1>2. visitors[p].fields \in Seq(Entries) /\ visitors[p].values \in Seq(Aliases)
  BY DEF Inv, Typed, VisitorType
<1>3. DOMAIN visitors[p].fields = 1..Len(visitors[p].fields) /\ DOMAIN visitors[p].values = 1..Len(visitors[p].values)
  BY <1>2
<1> QED  BY <1>1, <1>3 DEF Entry

\* Whatever the order in which the results of its fields got ready, an object
\* is a map with each response name once and nothing missing.
THEOREM CompleteDocuments == Spec => []DocumentIsComplete
<1>1. Inv => DocumentIsComplete
  <2> SUFFICES ASSUME Inv, NEW p \in DOMAIN visitors, visitors[p].phase = "done"
               PROVE  /\ \A i, j \in DOMAIN results[p].fields :
                            results[p].fields[i].alias = results[p].fields[j].alias => i = j
                      /\ \A i \in DOMAIN results[p].fields :
                            /\ Append(p, results[p].fields[i].alias) \in DOMAIN results
                            /\ results[p].fields[i] =
                                 Entry(results[p].fields[i].alias, Append(p, results[p].fields[i].alias))
                      /\ \A a \in Aliases : Append(p, a) \in DOMAIN observed \cup DOMAIN results =>
                            \E i \in DOMAIN results[p].fields : results[p].fields[i].alias = a
    BY DEF DocumentIsComplete
  <2>1. \A i, j \in DOMAIN visitors[p].values : visitors[p].values[i] = visitors[p].values[j] => i = j
    BY DEF Inv, AwaitedOnce
  <2> QED  BY <2>1, CompleteDocument, ValueOfParent
<1> QED  BY <1>1, Invariance, PTL

-----------------------------------------------------------------------------
(* Who is resolved on a thread of its own                                  *)

\* A set of nodes with the selections of the fragments in it, and a visitor
\* that has nothing to visit outside it.
Closed(T) == T \subseteq Nodes /\ \A n \in T \cap (Spreads \cup Inlines) : Sub[n] \in Seq(T)
Within(v, T) == \A i \in DOMAIN v.nest : v.nest[i].todo \in Seq(T)

\* A step of a visitor changes neither where it runs nor what it may get to,
\* and ends with an exception only where a condition is malformed.
Keeps(v, w) ==
  /\ w.detached = v.detached
  /\ w.phase = "threw" => \E n \in Nodes : Malformed(conditions[n])
  /\ \A T : Closed(T) /\ Within(v, T) => Within(w, T)

LEMMA WithinAdvanced ==
  ASSUME NEW E, NEW v \in VisitorType(E), Innermost(v).todo # <<>>, NEW T, Within(v, T)
  PROVE  Head(Innermost(v).todo) \in T /\ Within(Advanced(v), T)
<1> DEFINE n == Len(v.nest)
           scope == [v.nest[n] EXCEPT !.todo = Tail(@)]
           nest == [v.nest EXCEPT ![n] = scope]
<1>1. n \in Nat \ {0} /\ v.nest \in Seq(Scopes) /\ v.nest[n] \in Scopes /\ v.nest[n].todo # <<>>
      /\ DOMAIN v.nest = 1..n
  BY InnermostScope
<1>2. v.nest[n].todo \in Seq(T)
  BY <1>1 DEF Within
<1>3. Head(v.nest[n].todo) \in T /\ Tail(v.nest[n].todo) \in Seq(T)
  BY <1>1, <1>2
<1>4. scope.todo = Tail(v.nest[n].todo)
  BY <1>1 DEF Scopes
<1>5. Advanced(v).nest = nest
  BY DEF Advanced, VisitorType
<1> HIDE DEF scope
<1>6. \A i \in DOMAIN nest : nest[i].todo \in Seq(T)
  BY <1>1, <1>3, <1>4 DEF Within
<1> HIDE DEF nest
<1> QED  BY <1>1, <1>3, <1>5, <1>6 DEF Innermost, Within

LEMMA WithinLeft ==
  ASSUME NEW E, NEW v \in VisitorType(E), NEW T, Within(v, T)
  PROVE  Within(Left(v), T)
<1> DEFINE n == Len(v.nest)
           nest == SubSeq(v.nest, 1, n - 1)
<1>1. n \in Nat \ {0} /\ v.nest \in Seq(Scopes) /\ DOMAIN v.nest = 1..n
  BY InnermostScope
<1>2. Left(v).nest = nest
  BY DEF Left, VisitorType
<1>3. DOMAIN nest = 1..(n - 1) /\ \A i \in 1..(n - 1) : nest[i] = v.nest[i]
  BY <1>1
<1> HIDE DEF nest
<1> QED  BY <1>1, <1>2, <1>3 DEF Within

LEMMA WithinEntered ==
  ASSUME Inv, NEW p \in DOMAIN visitors, NEW n \in Spreads \cup Inlines, Visits(p, n),
         NEW k \in {"spread", "inline"}, NEW T, Closed(T), Within(visitors[p], T)
  PROVE  Within(Entered(visitors[p], k, n), T)
<1> DEFINE v == Advanced(visitors[p])
           scope == Scope(k, n, Sub[n])
           nest == Append(v.nest, scope)
<1>1. n \in Nodes /\ visitors[p] \in VisitorType(Entries) /\ Innermost(visitors[p]).todo # <<>>
      /\ n = Head(Innermost(visitors[p]).todo)
  BY DEF Nodes, Inv, Typed, Visits
<1>2. n \in T /\ Within(v, T)
  BY <1>1, WithinAdvanced
<1>3. v \in VisitorType(Entries)
  BY <1>1, VisitedVisitor
<1>4. /\ Entered(visitors[p], k, n).nest = nest
      /\ scope \in Scopes /\ scope.todo = Sub[n]
  BY <1>1, EnteredVisitor DEF Scope
<1>5. Sub[n] \in Seq(T)
  BY <1>2 DEF Closed
<1>6. Len(v.nest) \in Nat /\ v.nest \in Seq(Scopes) /\ DOMAIN v.nest = 1..Len(v.nest)
  BY <1>3, InnermostScope
<1> HIDE DEF v, scope
<1>7. /\ DOMAIN nest = 1..(Len(v.nest) + 1) /\ nest[Len(v.nest) + 1] = scope
      /\ \A i \in 1..Len(v.nest) : nest[i] = v.nest[i]
  BY <1>4, <1>6
<1> HIDE DEF nest
<1> QED  BY <1>2, <1>4, <1>5, <1>6, <1>7 DEF Within

\* Every step but the call of an accessor.
QuietStep(p) ==
  /\ visitors' = [visitors EXCEPT ![p] = visitors'[p]]
  /\ Keeps(visitors[p], visitors'[p])
  /\ observed' = observed /\ awaited' \subseteq awaited

LEMMA NestKept ==
  ASSUME NEW v, NEW w, w.detached = v.detached, w.nest = v.nest, w.phase # "threw"
  PROVE  Keeps(v, w)
BY DEF Keeps, Within

LEMMA AdvancedKept ==
  ASSUME Inv, NEW p \in DOMAIN visitors, NEW n \in Nodes, Visits(p, n), NEW w,
         w.detached = visitors[p].detached, w.nest = Advanced(visitors[p]).nest, w.phase # "threw"
  PROVE  Keeps(visitors[p], w)
<1>1. visitors[p] \in VisitorType(Entries) /\ Innermost(visitors[p]).todo # <<>>
  BY DEF Inv, Typed, Visits
<1>2. \A T : Within(visitors[p], T) => Within(Advanced(visitors[p]), T)
  BY <1>1, WithinAdvanced
<1> QED  BY <1>2 DEF Keeps, Within

LEMMA VisitQuiet ==
  ASSUME Inv, NEW p \in DOMAIN visitors, NEW n \in Nodes, Visit(p, n), ~CallAccessor(p, n)
  PROVE  QuietStep(p)
<1> DEFINE v == visitors[p]
<1>1. Visits(p, n) /\ visitors \in [DOMAIN visitors -> VisitorType(Entries)]
  BY DEF Visit, Inv, Typed
<1>2. v.phase = "visiting" /\ Advanced(v).phase = "visiting" /\ Advanced(v).detached = v.detached
  BY <1>1, VisitedVisitor DEF VisitorType
<1>3. CASE SkipName(p, n) \/ SkipFragment(p, n)
  <2>1. visitors' = [visitors EXCEPT ![p] = Advanced(v)] /\ observed' = observed /\ awaited' = awaited
    BY <1>3 DEF SkipName, SkipFragment
  <2>2. Keeps(v, Advanced(v))
    BY <1>1, <1>2, AdvancedKept
  <2> QED  BY <1>1, <2>1, <2>2 DEF QuietStep
<1>4. CASE UnknownField(p, n)
  <2>1. visitors' = [visitors EXCEPT ![p] = Valued(v, n)] /\ observed' = observed /\ awaited' = awaited
        /\ n \in Fields
    BY <1>4 DEF UnknownField, Unseen
  <2>2. Keeps(v, Valued(v, n))
    BY <1>1, <1>2, <2>1, ValuedVisitor, AdvancedKept
  <2> QED  BY <1>1, <2>1, <2>2 DEF QuietStep
<1>5. CASE SkipField(p, n)
  <2>1. visitors' = [visitors EXCEPT ![p] = Named(v, n)] /\ observed' = observed /\ awaited' = awaited
        /\ n \in Fields
    BY <1>5 DEF SkipField, Unseen
  <2>2. Named(v, n).detached = v.detached /\ Named(v, n).phase = "visiting"
    BY <1>1, <1>2, VisitedVisitor DEF Named, VisitorType
  <2>3. Keeps(v, Named(v, n))
    BY <1>1, <2>1, <2>2, NamedVisitor, AdvancedKept
  <2> QED  BY <1>1, <2>1, <2>3 DEF QuietStep
<1>6. ASSUME NEW k \in {"spread", "inline"}, n \in Spreads \cup Inlines,
             visitors' = [visitors EXCEPT ![p] = Entered(@, k, n)], observed' = observed, awaited' = awaited
      PROVE  QuietStep(p)
  <2>1. visitors' = [visitors EXCEPT ![p] = Entered(v, k, n)]
    BY <1>6
  <2>2. Entered(v, k, n).detached = v.detached /\ Entered(v, k, n).phase = "visiting"
    BY <1>1, <1>2, VisitedVisitor DEF Entered, VisitorType
  <2>3. \A T : Closed(T) /\ Within(v, T) => Within(Entered(v, k, n), T)
    BY <1>1, <1>6, WithinEntered
  <2>4. Keeps(v, Entered(v, k, n))
    BY <2>2, <2>3 DEF Keeps
  <2> QED  BY <1>1, <1>6, <2>1, <2>4 DEF QuietStep
<1>7. CASE EnterSpread(p, n)
  BY <1>6, <1>7 DEF EnterSpread
<1>8. CASE EnterInline(p, n)
  BY <1>6, <1>8 DEF EnterInline
<1>9. CASE ThrowFromNode(p, n)
  <2> DEFINE w == [v EXCEPT !.phase = "threw"]
  <2>1. visitors' = [visitors EXCEPT ![p] = w] /\ observed' = observed /\ awaited' = awaited
        /\ Malformed(conditions[n])
    BY <1>9 DEF ThrowFromNode, Throw
  <2>2. w.nest = v.nest /\ w.detached = v.detached
    BY <1>1 DEF VisitorType
  <2>3. Keeps(v, w)
    BY <2>1, <2>2 DEF Keeps, Within
  <2> HIDE DEF w
  <2> QED  BY <1>1, <2>1, <2>3 DEF QuietStep
<1> QED  BY <1>3, <1>4, <1>5, <1>7, <1>8, <1>9 DEF Visit

\* An accessor is called for a field that its visitor may get to; what it
\* returns is resolved on a thread of its own or on that of its parent.
CallStep(p, n) ==
  /\ Visits(p, n) /\ n \in Fields /\ Running(p) /\ visitors[p].phase = "visiting"
  /\ Keeps(visitors[p], visitors'[p])
  /\ \E q : /\ q = Append(p, Alias[n]) /\ q \notin DOMAIN observed
            /\ DOMAIN observed' = DOMAIN observed \cup {q} /\ observed'[q].node = n
            /\ \A t \in DOMAIN observed : observed'[t] = observed[t]
            /\ DOMAIN visitors \subseteq DOMAIN visitors' /\ DOMAIN visitors' \subseteq DOMAIN visitors \cup {q}
            /\ \A t \in DOMAIN visitors \ {p} : visitors'[t] = visitors[t]
            /\ q \in DOMAIN visitors' =>
                  visitors'[q].detached = Detached(n) /\ Sub[n] # <<>> /\ visitors'[q].phase = "launched"
            /\ awaited' \subseteq awaited \cup {q} /\ (q \in awaited' => Detached(n))

LEMMA CallAccessorSteps ==
  ASSUME Inv, NEW p \in DOMAIN visitors, NEW n \in Nodes, Running(p), Visits(p, n), CallAccessor(p, n)
  PROVE  CallStep(p, n)
<1> DEFINE q == Append(p, Alias[n])
           w == Valued(visitors[p], n)
           u == Visitor(Sub[n], Detached(n))
<1>1. n \in Fields /\ q \notin DOMAIN observed \cup DOMAIN visitors \cup awaited /\ visitors[p].phase = "visiting"
  <2>1. n \in Fields /\ Alias[n] \in Aliases /\ Alias[n] \notin visitors[p].names
    BY DEF CallAccessor, Unseen, Aliases
  <2> QED  BY <2>1, FreshPath DEF Inv, Visits
<1>2. /\ visitors' = IF Sub[n] # <<>> /\ outcomes[n] = "value"
                     THEN Set([visitors EXCEPT ![p] = w], q, u)
                     ELSE [visitors EXCEPT ![p] = w]
      /\ awaited' = IF (Sub[n] = <<>> \/ outcomes[n] # "value") /\ Detached(n)
                    THEN awaited \cup {q} ELSE awaited
      /\ DOMAIN observed' = DOMAIN observed \cup {q} /\ observed'[q].node = n
      /\ \A t \in DOMAIN observed : observed'[t] = observed[t]
  BY <1>1 DEF CallAccessor, Set
<1>3. Keeps(visitors[p], w)
  BY <1>1, ValuedVisitor, AdvancedKept
<1>4. visitors \in [DOMAIN visitors -> VisitorType(Entries)] /\ u.phase = "launched" /\ u.detached = Detached(n)
  BY DEF Inv, Typed, Visitor
<1> HIDE DEF q, w, u
<1>5. CASE Sub[n] # <<>> /\ outcomes[n] = "value"
  <2>1. /\ DOMAIN visitors' = DOMAIN visitors \cup {q} /\ visitors'[q] = u /\ visitors'[p] = w
        /\ \A t \in DOMAIN visitors \ {p} : visitors'[t] = visitors[t]
    BY <1>1, <1>2, <1>4, <1>5 DEF Set
  <2> QED  BY <1>1, <1>2, <1>3, <1>4, <1>5, <2>1 DEF CallStep, q
<1>6. CASE ~(Sub[n] # <<>> /\ outcomes[n] = "value")
  <2>1. /\ DOMAIN visitors' = DOMAIN visitors /\ visitors'[p] = w
        /\ \A t \in DOMAIN visitors \ {p} : visitors'[t] = visitors[t]
    BY <1>2, <1>4, <1>6
  <2> QED  BY <1>1, <1>2, <1>3, <2>1 DEF CallStep, q
<1> QED  BY <1>5, <1>6

LEMMA NextSteps ==
  ASSUME Inv, Next
  PROVE  /\ UNCHANGED document
         /\ \/ \E p \in DOMAIN visitors : QuietStep(p)
            \/ \E p \in DOMAIN visitors, n \in Nodes : CallStep(p, n)
            \/ UNCHANGED <<visitors, observed>> /\ awaited' \subseteq awaited
<1>1. visitors \in [DOMAIN visitors -> VisitorType(Entries)]
  BY DEF Inv, Typed
<1>2. ASSUME NEW p \in DOMAIN visitors, NEW w, visitors' = [visitors EXCEPT ![p] = w],
             Keeps(visitors[p], w), observed' = observed, awaited' \subseteq awaited
      PROVE  QuietStep(p)
  BY <1>1, <1>2 DEF QuietStep
<1>3. ASSUME NEW p \in DOMAIN visitors, NEW phase, phase # "threw",
             visitors' = [visitors EXCEPT ![p].phase = phase], observed' = observed, awaited' = awaited
      PROVE  QuietStep(p)
  <2> DEFINE w == [visitors[p] EXCEPT !.phase = phase]
  <2>1. visitors' = [visitors EXCEPT ![p] = w]
    BY <1>3
  <2>2. w.nest = visitors[p].nest /\ w.detached = visitors[p].detached /\ w.phase = phase
    BY <1>1 DEF VisitorType
  <2> HIDE DEF w
  <2>3. Keeps(visitors[p], w)
    BY <1>3, <2>2, NestKept
  <2> QED  BY <1>2, <1>3, <2>1, <2>3
<1>4. ASSUME NEW p \in DOMAIN visitors, Running(p), VisitorStep(p)
      PROVE  /\ UNCHANGED document
             /\ \/ QuietStep(p) \/ \E n \in Nodes : CallStep(p, n)
                \/ UNCHANGED <<visitors, observed, awaited>>
  <2>1. CASE Start(p)
    BY <1>3, <2>1 DEF Start
  <2>2. CASE GetValues(p)
    BY <1>3, <2>2 DEF GetValues
  <2>3. CASE Finish(p)
    BY <1>3, <2>3 DEF Finish
  <2>4. CASE Await(p)
    <3>1. PICK fields, errors : visitors' = [visitors EXCEPT ![p].fields = fields, ![p].errors = errors]
      BY <2>4 DEF Await
    <3> DEFINE w == [visitors[p] EXCEPT !.fields = fields, !.errors = errors]
    <3>2. visitors' = [visitors EXCEPT ![p] = w]
      BY <1>1, <3>1
    <3>3. w.nest = visitors[p].nest /\ w.detached = visitors[p].detached /\ w.phase = "awaiting"
      BY <1>1, <2>4 DEF VisitorType, Await
    <3> HIDE DEF w
    <3>4. Keeps(visitors[p], w)
      BY <3>3, NestKept
    <3>5. observed' = observed /\ awaited' = awaited /\ UNCHANGED document
      BY <2>4 DEF Await
    <3> QED  BY <1>2, <3>2, <3>4, <3>5
  <2>5. CASE LeaveInline(p) \/ (p \in DOMAIN changes /\ PopDefinition(p))
    <3>1. /\ visitors' = [visitors EXCEPT ![p] = Left(visitors[p])] /\ visitors[p].phase = "visiting"
          /\ observed' = observed /\ awaited' = awaited /\ UNCHANGED document
      BY <2>5 DEF LeaveInline, AtEnd, PopDefinition, Inv, Changing, Between
    <3>2. Left(visitors[p]).detached = visitors[p].detached /\ Left(visitors[p]).phase = "visiting"
      BY <1>1, <3>1 DEF Left, VisitorType
    <3>3. \A T : Within(visitors[p], T) => Within(Left(visitors[p]), T)
      BY <1>1, WithinLeft
    <3>4. Keeps(visitors[p], Left(visitors[p]))
      BY <3>2, <3>3 DEF Keeps
    <3> QED  BY <1>2, <3>1, <3>4
  <2>6. ASSUME NEW n \in Nodes, Visit(p, n)
        PROVE  UNCHANGED document /\ (QuietStep(p) \/ CallStep(p, n))
    <3>1. UNCHANGED document
      BY <2>6 DEF Visit, SkipName, UnknownField, SkipField, CallAccessor, SkipFragment, EnterSpread,
                  EnterInline, ThrowFromNode, Throw
    <3>2. Visits(p, n)
      BY <2>6 DEF Visit
    <3>3. CASE CallAccessor(p, n)
      BY <1>4, <3>1, <3>2, <3>3, CallAccessorSteps
    <3>4. CASE ~CallAccessor(p, n)
      BY <2>6, <3>1, <3>4, VisitQuiet
    <3> QED  BY <3>3, <3>4
  <2>7. CASE LeaveSpread(p) \/ (p \in DOMAIN changes /\ (StartSpreads(p) \/ StartInlines(p) \/ PushSpread(p)))
    BY <2>7 DEF LeaveSpread, StartSpreads, StartInlines, PushSpread
  <2> QED  BY <1>4, <2>1, <2>2, <2>3, <2>4, <2>5, <2>6, <2>7 DEF VisitorStep, Change
<1>5. ASSUME NEW q \in awaited, Resolve(q)
      PROVE  UNCHANGED <<document, visitors, observed>> /\ awaited' \subseteq awaited
  BY <1>5 DEF Resolve
<1> QED  BY <1>4, <1>5 DEF Next, VisitorStep

\* What the operation was started with: nobody throws where no condition is
\* malformed, and no thread is made where nothing is launched on another one.
NothingThrows == \A chosen \in Cases, n \in Nodes : ~Malformed(chosen.conditions[n])
NothingDetached ==
  Futures = {} /\ \A chosen \in Cases : chosen.request.isMutation \/ chosen.request.policy = "sync"

OneOfCases ==
  \E chosen \in Cases :
    request = chosen.request /\ conditions = chosen.conditions /\ outcomes = chosen.outcomes

\* A visitor or a leaf is on a thread of its own because of the launch policy
\* or its accessor.  The root gets to the nodes of S only.
Launched(S) ==
  /\ OneOfCases
  /\ \A q \in DOMAIN visitors :
       /\ visitors[q].phase = "threw" => ~NothingThrows
       /\ q # <<>> => visitors[q].detached = Detached(observed[q].node) /\ Sub[observed[q].node] # <<>>
  /\ \A q \in awaited : Detached(observed[q].node)
  /\ Within(visitors[<<>>], S)
  /\ \A q \in DOMAIN observed : Len(q) = 1 => observed[q].node \in S

LEMMA LaunchedInit ==
  ASSUME NEW S, Root \in Seq(S), Init
  PROVE  Launched(S)
<1>1. /\ visitors = [p \in {<<>>} |-> Visitor(Root, TRUE)] /\ awaited = {} /\ DOMAIN observed = {}
      /\ OneOfCases
  BY DEF Init, OneOfCases
<1>2. Visitor(Root, TRUE).phase = "launched"
  BY DEF Visitor
<1>3. Within(Visitor(Root, TRUE), S)
  BY DEF Within, Visitor, Scope
<1> QED  BY <1>1, <1>2, <1>3 DEF Launched

LEMMA LaunchedNext ==
  ASSUME NEW S, Closed(S), Inv, Inv', Launched(S), [Next]_vars
  PROVE  Launched(S)'
<1>1. CASE UNCHANGED vars
  <2>1. UNCHANGED <<request, conditions, outcomes, visitors, awaited, observed>>
    BY <1>1 DEF vars, document
  <2> QED  BY <2>1 DEF Launched, OneOfCases, Detached, OperationLaunch, Within
<1>2. CASE Next
  <2>1. UNCHANGED <<request, conditions, outcomes>> /\ (OneOfCases => OneOfCases')
    BY <1>2, NextSteps DEF document, OneOfCases
  <2>2. \A n : Detached(n)' = Detached(n)
    BY <2>1 DEF Detached, OperationLaunch
  <2>3. (\E n \in Nodes : Malformed(conditions[n])) => ~NothingThrows
    BY DEF Launched, OneOfCases, NothingThrows
  <2>4. <<>> \in DOMAIN visitors /\ DOMAIN visitors \subseteq DOMAIN observed \cup {<<>>} /\ awaited \subseteq DOMAIN observed
    BY DEF Inv, Tree
  <2>5. CASE UNCHANGED <<visitors, observed>> /\ awaited' \subseteq awaited
    BY <2>1, <2>2, <2>5 DEF Launched, Within
  <2>6. ASSUME NEW p \in DOMAIN visitors, QuietStep(p)
        PROVE  Launched(S)'
    <3>1. /\ DOMAIN visitors' = DOMAIN visitors /\ observed' = observed /\ awaited' \subseteq awaited
          /\ \A q \in DOMAIN visitors : q # p => visitors'[q] = visitors[q]
          /\ Keeps(visitors[p], visitors'[p])
      BY <2>6 DEF QuietStep
    <3>2. ASSUME NEW q \in DOMAIN visitors
          PROVE  /\ visitors'[q].detached = visitors[q].detached
                 /\ visitors'[q].phase = "threw" => ~NothingThrows
                 /\ Within(visitors[q], S) => Within(visitors'[q], S)
      BY <2>3, <3>1 DEF Keeps, Launched
    <3>3. Within(visitors'[<<>>], S)
      BY <2>4, <3>2 DEF Launched
    <3>4. Within(visitors[<<>>], S)'
      BY <3>3 DEF Within
    <3> QED  BY <2>1, <2>2, <3>1, <3>2, <3>4 DEF Launched
  <2>7. ASSUME NEW p \in DOMAIN visitors, NEW n \in Nodes, CallStep(p, n)
        PROVE  Launched(S)'
    <3>1. PICK q :
            /\ q = Append(p, Alias[n]) /\ q \notin DOMAIN observed
            /\ DOMAIN observed' = DOMAIN observed \cup {q} /\ observed'[q].node = n
            /\ \A t \in DOMAIN observed : observed'[t] = observed[t]
            /\ DOMAIN visitors \subseteq DOMAIN visitors' /\ DOMAIN visitors' \subseteq DOMAIN visitors \cup {q}
            /\ \A t \in DOMAIN visitors \ {p} : visitors'[t] = visitors[t]
            /\ q \in DOMAIN visitors' =>
                  visitors'[q].detached = Detached(n) /\ Sub[n] # <<>> /\ visitors'[q].phase = "launched"
            /\ awaited' \subseteq awaited \cup {q} /\ (q \in awaited' => Detached(n))
      BY <2>7 DEF CallStep
    <3>2. Keeps(visitors[p], visitors'[p])
      BY <2>7 DEF CallStep
    <3>3. ASSUME NEW t \in DOMAIN visitors
          PROVE  /\ visitors'[t].detached = visitors[t].detached
                 /\ visitors'[t].phase = "threw" => ~NothingThrows
                 /\ Within(visitors[t], S) => Within(visitors'[t], S)
      BY <2>3, <3>1, <3>2 DEF Keeps, Launched
    <3>4. Within(visitors[<<>>], S)'
      BY <2>4, <3>3 DEF Launched, Within
    <3>5. ASSUME NEW t \in DOMAIN visitors'
          PROVE  /\ visitors'[t].phase = "threw" => ~NothingThrows
                 /\ t # <<>> => visitors'[t].detached = Detached(observed'[t].node) /\ Sub[observed'[t].node] # <<>>
      <4>1. CASE t = q
        BY <3>1, <4>1
      <4>2. CASE t # q
        BY <2>4, <3>1, <3>3, <4>2 DEF Launched
      <4> QED  BY <4>1, <4>2
    <3>6. \A t \in awaited' : Detached(observed'[t].node)
      BY <2>4, <3>1 DEF Launched
    <3>7. ASSUME NEW t \in DOMAIN observed', Len(t) = 1
          PROVE  observed'[t].node \in S
      <4>1. CASE t # q
        BY <3>1, <3>7, <4>1 DEF Launched
      <4>2. CASE t = q
        <5>1. p \in Paths /\ visitors[p] \in VisitorType(Entries) /\ Visits(p, n) /\ n \in Fields
          BY <2>7 DEF Inv, Typed, CallStep
        <5>2. Len(q) = Len(p) + 1 /\ Len(p) \in Nat
          BY <3>1, <5>1, ChildPath DEF Aliases, Paths
        <5>6. Len(p) = 0
          BY <3>7, <4>2, <5>2
        <5>3. p = <<>>
          BY <5>1, <5>6, EmptySeq DEF Paths
        <5>4. Innermost(visitors[p]).todo # <<>> /\ n = Head(Innermost(visitors[p]).todo)
          BY <5>1 DEF Visits
        <5>5. n \in S
          BY <5>1, <5>3, <5>4, WithinAdvanced DEF Launched
        <5> QED  BY <3>1, <4>2, <5>5
      <4> QED  BY <4>1, <4>2
    <3>8. OneOfCases'
      BY <2>1 DEF Launched
    <3> HIDE DEF Detached
    <3> QED  BY <2>2, <3>4, <3>5, <3>6, <3>7, <3>8 DEF Launched
  <2> QED  BY <1>2, <2>5, <2>6, <2>7, NextSteps
<1> QED  BY <1>1, <1>2

LEMMA LaunchedAlways ==
  ASSUME NEW S, Closed(S), Root \in Seq(S)
  PROVE  Spec => []Launched(S)
<1>1. Init => Launched(S)
  BY LaunchedInit
<1>2. Inv /\ Inv' /\ Launched(S) /\ [Next]_vars => Launched(S)'
  BY LaunchedNext
<1> QED  BY <1>1, <1>2, Invariance, PTL DEF Spec

LEMMA LaunchedNodes == Spec => []Launched(Nodes)
<1>1. Closed(Nodes) /\ Root \in Seq(Nodes)
  BY DocumentData DEF Closed, Nodes
<1>2. Init => Launched(Nodes)
  BY <1>1, LaunchedInit
<1>3. Inv /\ Inv' /\ Launched(Nodes) /\ [Next]_vars => Launched(Nodes)'
  BY <1>1, LaunchedNext
<1> QED  BY <1>2, <1>3, Invariance, PTL DEF Spec

\* The operation is over: nobody is still resolving an object of it or waiting
\* for the value of a field.
Over == (\A p \in DOMAIN visitors : visitors[p].phase \in Ended) /\ awaited = {}

LEMMA OverAtEnd ==
  ASSUME Inv, Launched(Nodes), NothingThrows \/ NothingDetached, Ready(<<>>)
  PROVE  Over
<1>1. visitors[<<>>].phase \in Ended /\ <<>> \in DOMAIN visitors
  BY DEF Ready, Inv, Tree
<1>2. \A q \in DOMAIN observed : Detached(observed[q].node) => ~NothingDetached
  BY DEF Launched, OneOfCases, Detached, OperationLaunch, NothingDetached
<1>3. ASSUME NEW q \in DOMAIN visitors
      PROVE  visitors[q].phase \in Ended
  <2>1. q \in Paths /\ Len(q) \in Nat /\ Prefix(q, 0) = <<>>
    BY DEF Inv, Typed, Paths, Prefix
  <2>2. 0 \in 0..Len(q)
    BY <2>1
  <2>3. visitors[q].phase \in Ended \/ Orphaned(q, 0)
    BY <1>1, <2>1, <2>2 DEF Inv, Orphans
  <2>4. SUFFICES ASSUME Orphaned(q, 0) PROVE FALSE
    BY <2>3
  <2>5. PICK j \in 0..(Len(q) - 1) :
           visitors[Prefix(q, j)].phase = "threw" /\ visitors[Prefix(q, j + 1)].detached
    BY <2>4 DEF Orphaned
  <2> DEFINE c == Prefix(q, j + 1)
  <2>6. j \in 0..Len(q) /\ j + 1 \in 0..Len(q)
    BY <2>1
  <2>7. Prefix(q, j) \in DOMAIN visitors /\ c \in DOMAIN visitors
    BY <2>6 DEF Inv, Orphans
  <2>8. ~NothingThrows
    BY <2>5, <2>7 DEF Launched
  <2>9. c # <<>>
    BY <2>1, <2>6 DEF Prefix, Paths
  <2>10. c \in DOMAIN observed /\ visitors[c].detached = Detached(observed[c].node)
    BY <2>7, <2>9 DEF Launched, Inv, Tree
  <2> QED  BY <1>2, <2>5, <2>8, <2>10
<1>4. ASSUME NEW q \in awaited
      PROVE  FALSE
  <2>1. q \in DOMAIN observed /\ q \notin DOMAIN results /\ q # <<>> /\ Detached(observed[q].node)
    BY DEF Inv, Tree, Launched
  <2>2. NothingThrows
    BY <1>2, <2>1
  <2>3. PICK p \in DOMAIN visitors : \E i \in DOMAIN visitors[p].values : q = Append(p, visitors[p].values[i])
    BY <2>1 DEF Inv, Tree, HasParent
  <2>4. PICK i \in DOMAIN visitors[p].values : q = Append(p, visitors[p].values[i])
    BY <2>3
  <2>5. visitors[p].phase = "done"
    BY <1>3, <2>2 DEF Launched, Ended
  <2> QED  BY <2>1, <2>4, <2>5, CompleteDocument
<1> QED  BY <1>3, <1>4 DEF Over

\* Where no exception leaves a selection, or nothing runs on another thread,
\* the data of the operation outlives everybody who refers to it: the accessors
\* that were called have answered when Request::resolve has its result.
THEOREM OverWhenReady ==
  ASSUME NothingThrows \/ NothingDetached
  PROVE  Spec => [](Ready(<<>>) => Over)
<1>1. Inv /\ Launched(Nodes) => (Ready(<<>>) => Over)
  BY OverAtEnd
<1> QED  BY <1>1, LaunchedNodes, Invariance, PTL

\* An exception from a malformed condition, with an object that is resolved on
\* another thread, is the only way in which references are left dangling.
THEOREM BorrowedIsAlive ==
  ASSUME NothingThrows \/ NothingDetached
  PROVE  Spec => []BorrowedAlive
<1>1. (Ready(<<>>) => Over) => BorrowedAlive
  BY DEF Over, BorrowedAlive
<1>2. Spec => [](Ready(<<>>) => Over)
  BY OverWhenReady
<1> QED  BY <1>1, <1>2, PTL

\* At the launch of a field of a mutation, those before it are over.
LEMMA SerialStep ==
  ASSUME NEW S, S \cap Futures = {}, NothingThrows \/ \A n \in Futures : Sub[n] = <<>>,
         Inv, Launched(S), Next, request.isMutation,
         NEW p \in DOMAIN observed' \ DOMAIN observed, Len(p) = 1, NEW q \in DOMAIN observed
  PROVE  (Ready(q) \/ Len(q) > 1) /\ (q \in DOMAIN visitors => visitors[q].phase \in Ended)
<1>1. PICK r \in DOMAIN visitors, n \in Nodes : CallStep(r, n)
  BY NextSteps DEF QuietStep
<1>2. p = Append(r, Alias[n]) /\ Alias[n] \in Aliases /\ Running(r) /\ r \in Paths
  BY <1>1 DEF CallStep, Aliases, Inv, Typed
<1>3. Len(r) + 1 = 1 /\ Len(r) \in Nat
  BY <1>2, ChildPath DEF Paths
<1>4. r = <<>>
  BY <1>2, <1>3, EmptySeq DEF Paths
<1>5. \A m \in S : ~Detached(m)
  BY DEF Detached, OperationLaunch
<1>6. q \in Paths /\ Len(q) \in Nat /\ q # <<>>
  BY DEF Inv, Typed, Tree, Paths
<1>7. Len(q) >= 1
  BY <1>6, EmptySeq DEF Paths
<1>8. ASSUME q \in DOMAIN visitors
      PROVE  visitors[q].phase \in Ended
  <2> DEFINE c == Prefix(q, 1)
  <2>1. 1 \in 0..Len(q)
    BY <1>6, <1>7
  <2>2. c \in DOMAIN visitors
    BY <1>8, <2>1 DEF Inv, Orphans
  <2>3. Len(c) = 1 /\ SubSeq(c, 1, 0) = <<>> /\ c # <<>>
    BY <1>6, <1>7 DEF Prefix, Paths
  <2>4. c \in Children(<<>>)
    BY <2>2, <2>3 DEF Children
  <2>5. c \in DOMAIN observed /\ visitors[c].detached = Detached(observed[c].node) /\ observed[c].node \in S
    BY <2>2, <2>3 DEF Launched, Inv, Tree
  <2>6. visitors[c].phase \in Ended
    BY <1>2, <1>4, <1>5, <2>4, <2>5 DEF Running
  <2>7. visitors[q].phase \in Ended \/ Orphaned(q, 1)
    BY <1>8, <2>1, <2>6 DEF Inv, Orphans
  <2>8. SUFFICES ASSUME Orphaned(q, 1) PROVE FALSE
    BY <2>7
  <2>9. PICK j \in 1..(Len(q) - 1) :
           visitors[Prefix(q, j)].phase = "threw" /\ visitors[Prefix(q, j + 1)].detached
    BY <2>8 DEF Orphaned
  <2> DEFINE d == Prefix(q, j + 1)
  <2>10. j \in 0..Len(q) /\ j + 1 \in 0..Len(q)
    BY <1>6
  <2>11. Prefix(q, j) \in DOMAIN visitors /\ d \in DOMAIN visitors
    BY <1>8, <2>10 DEF Inv, Orphans
  <2>12. ~NothingThrows
    BY <2>9, <2>11 DEF Launched
  <2>13. d # <<>>
    BY <1>6, <2>10 DEF Prefix, Paths
  <2>14. Detached(observed[d].node) /\ Sub[observed[d].node] # <<>>
    BY <2>9, <2>11, <2>13 DEF Launched
  <2> QED  BY <2>12, <2>14 DEF Detached, OperationLaunch
<1>9. ASSUME Len(q) = 1
      PROVE  Ready(q)
  <2>1. q \notin awaited
    BY <1>5, <1>9 DEF Launched
  <2>2. q \in DOMAIN visitors => q \in DOMAIN results
    BY <1>8 DEF Inv, Tree
  <2> QED  BY <2>1, <2>2 DEF Inv, Tree, Ready
<1>10. Len(q) = 1 \/ Len(q) > 1
  <2>1. \A k \in Nat : k >= 1 => k = 1 \/ k > 1
    OBVIOUS
  <2> QED  BY ONLY <1>6, <1>7, <2>1
<1> QED  BY <1>8, <1>9, <1>10

\* The fields of a mutation run one after the other, whatever was asked for,
\* if the accessors of the root's fields return no futures that are not ready
\* and those of other objects do not either, or no exception leaves them behind.
THEOREM MutationIsSerial ==
  ASSUME NEW S, Closed(S), Root \in Seq(S), S \cap Futures = {},
         NothingThrows \/ \A n \in Futures : Sub[n] = <<>>
  PROVE  Spec => SerialMutation
<1> DEFINE A == request.isMutation =>
                  \A p \in DOMAIN observed' \ DOMAIN observed : Len(p) = 1 =>
                      \A q \in DOMAIN observed :
                          /\ Ready(q) \/ Len(q) > 1
                          /\ q \in DOMAIN visitors => visitors[q].phase \in Ended
<1>1. Inv /\ Launched(S) /\ [Next]_vars => [A]_vars
  BY SerialStep
<1>2. Spec => []Launched(S)
  BY LaunchedAlways
<1> QED  BY <1>1, <1>2, Invariance, PTL DEF Spec, SerialMutation

-----------------------------------------------------------------------------
(* Nobody waits for ever                                                   *)

\* Induction, for sets of numbers.  If a number were missing, adding one would
\* map the set's numbers below it into those that are not zero.
LEMMA NumberInduction ==
  ASSUME NEW T, 0 \in T, \A n \in Nat : n \in T => n + 1 \in T
  PROVE  Nat \subseteq T
<1> SUFFICES ASSUME NEW k \in Nat, k \notin T PROVE FALSE
  OBVIOUS
<1> DEFINE below == {n \in 0..k : n \in T}
           next == [n \in below |-> n + 1]
<1>1. IsFiniteSet(below) /\ Cardinality(below) \in Nat
  <2>1. IsFiniteSet(0..k) /\ below \in SUBSET (0..k)
    BY FS_Interval
  <2> QED  BY <2>1, FS_Subset, FS_CardinalityType
<1>2. 0 \in below
  OBVIOUS
<1>3. IsFiniteSet(below \ {0}) /\ Cardinality(below \ {0}) = Cardinality(below) - 1
  BY <1>1, <1>2, FS_RemoveElement
<1>4. next \in Injection(below, below \ {0})
  BY DEF Injection, IsInjective
<1>5. Cardinality(below) <= Cardinality(below \ {0})
  BY <1>1, <1>3, <1>4, FS_Injection
<1> QED  BY <1>1, <1>3, <1>5

\* Objects are nested to a finite depth, at any time.
Shallow == \E bound \in Nat : \A p \in DOMAIN visitors : Len(p) <= bound

LEMMA ShallowNext ==
  ASSUME Inv, Shallow, [Next]_vars
  PROVE  Shallow'
<1>1. PICK bound \in Nat : \A p \in DOMAIN visitors : Len(p) <= bound
  BY DEF Shallow
<1>2. ASSUME DOMAIN visitors' = DOMAIN visitors
      PROVE  Shallow'
  BY <1>1, <1>2 DEF Shallow
<1>3. ASSUME NEW p \in DOMAIN visitors, NEW n \in Nodes, CallStep(p, n)
      PROVE  Shallow'
  <2>1. DOMAIN visitors' \subseteq DOMAIN visitors \cup {Append(p, Alias[n])} /\ Alias[n] \in Aliases
    BY <1>3 DEF CallStep, Aliases
  <2>2. p \in Paths /\ Len(p) \in Nat
    BY DEF Inv, Typed, Paths
  <2>3. Len(Append(p, Alias[n])) = Len(p) + 1
    BY <2>1, <2>2, ChildPath
  <2>4. \A q \in DOMAIN visitors : Len(q) \in Nat
    BY DEF Inv, Typed, Paths
  <2>5. \A q \in DOMAIN visitors' : Len(q) <= bound + 1
    BY <1>1, <2>1, <2>2, <2>3, <2>4
  <2> QED  BY <2>5 DEF Shallow
<1>4. ASSUME NEW p \in DOMAIN visitors, QuietStep(p)
      PROVE  DOMAIN visitors' = DOMAIN visitors
  BY <1>4 DEF QuietStep, Inv, Typed
<1>5. CASE UNCHANGED vars
  BY <1>2, <1>5 DEF vars
<1>6. CASE Next
  BY <1>2, <1>3, <1>4, <1>6, NextSteps
<1> QED  BY <1>5, <1>6

LEMMA ShallowAlways == Spec => []Shallow
<1>1. Init => Shallow
  <2> SUFFICES ASSUME Init PROVE \A p \in DOMAIN visitors : Len(p) <= 0
    BY DEF Shallow
  <2> QED  BY DEF Init
<1>2. Inv /\ Shallow /\ [Next]_vars => Shallow'
  BY ShallowNext
<1> QED  BY <1>1, <1>2, Invariance, PTL DEF Spec

\* Somebody among a visitor's unfinished descendants has none below it.
LEMMA Deepest ==
  ASSUME Inv, Shallow, NEW p \in DOMAIN visitors, visitors[p].phase \notin Ended
  PROVE  \E d \in DOMAIN visitors :
            /\ visitors[d].phase \notin Ended
            /\ \A q \in DOMAIN visitors : Len(q) > Len(d) => visitors[q].phase \in Ended
<1> DEFINE unfinished == {q \in DOMAIN visitors : visitors[q].phase \notin Ended}
           T == {n \in Nat : \E q \in unfinished : n <= Len(q)}
<1> SUFFICES ASSUME \A d \in unfinished : \E q \in unfinished : Len(q) > Len(d) PROVE FALSE
  OBVIOUS
<1>1. PICK bound \in Nat : \A q \in DOMAIN visitors : Len(q) <= bound
  BY DEF Shallow
<1>2. \A q \in unfinished : Len(q) \in Nat /\ Len(q) <= bound
  BY <1>1 DEF Inv, Typed, Paths
<1>3. 0 \in T
  BY <1>2
<1>4. ASSUME NEW n \in Nat, n \in T
      PROVE  n + 1 \in T
  <2>1. PICK d \in unfinished : n <= Len(d)
    BY <1>4
  <2>2. PICK q \in unfinished : Len(q) > Len(d)
    OBVIOUS
  <2>3. n + 1 <= Len(q)
    BY <1>2, <2>1, <2>2
  <2> QED  BY <2>3
<1> HIDE DEF unfinished
<1>5. bound + 1 \in T
  <2> HIDE DEF T
  <2> QED  BY <1>3, <1>4, NumberInduction
<1> QED  BY <1>2, <1>5

\* The visitor may go on: nobody is on top of it, and if it awaits a value, that
\* is ready.
Moves(p) ==
  /\ visitors[p].phase \notin Ended
  /\ Running(p)
  /\ visitors[p].phase = "awaiting" /\ Len(visitors[p].fields) < Len(visitors[p].values) =>
        Ready(Append(p, visitors[p].values[Len(visitors[p].fields) + 1]))

LEMMA DeepestMoves ==
  ASSUME Inv, awaited = {}, NEW d \in DOMAIN visitors, visitors[d].phase \notin Ended,
         \A q \in DOMAIN visitors : Len(q) > Len(d) => visitors[q].phase \in Ended
  PROVE  Moves(d)
<1>1. d \in Paths /\ Len(d) \in Nat
  BY DEF Inv, Typed, Paths
<1>2. Running(d)
  BY <1>1 DEF Running, Children
<1>3. ASSUME Len(visitors[d].fields) < Len(visitors[d].values)
      PROVE  Ready(Append(d, visitors[d].values[Len(visitors[d].fields) + 1]))
  <2> DEFINE i == Len(visitors[d].fields) + 1
             q == Append(d, visitors[d].values[i])
  <2>1. visitors[d].values \in Seq(Aliases) /\ Len(visitors[d].fields) \in Nat
    BY DEF Inv, Typed, VisitorType
  <2>2. i \in DOMAIN visitors[d].values /\ visitors[d].values[i] \in Aliases
    BY <1>3, <2>1
  <2>3. q \in DOMAIN observed \cup DOMAIN results
    BY <2>2 DEF Inv, AwaitedOnce
  <2>4. q \in DOMAIN visitors => q \in DOMAIN results
    <3>1. Len(q) > Len(d)
      BY <1>1, <2>2, ChildPath
    <3> QED  BY <3>1 DEF Inv, Tree
  <2> QED  BY <2>3, <2>4 DEF Inv, Tree, Ready
<1> QED  BY <1>2, <1>3 DEF Moves

\* Visitors that wait for results, for children on their own thread and for each
\* other never all wait: while one is unfinished, a thread that was started for a
\* leaf has to answer, or some visitor may go on.
THEOREM SomebodyMoves ==
  Spec => []((\E p \in DOMAIN visitors : visitors[p].phase \notin Ended)
               => awaited # {} \/ \E p \in DOMAIN visitors : Moves(p))
<1>1. Inv /\ Shallow => ((\E p \in DOMAIN visitors : visitors[p].phase \notin Ended)
                           => awaited # {} \/ \E p \in DOMAIN visitors : Moves(p))
  BY Deepest, DeepestMoves
<1> QED  BY <1>1, ShallowAlways, Invariance, PTL

=============================================================================
