----------------------------- MODULE Execution -----------------------------
(***************************************************************************)
(* The execution of one query or mutation: Request::resolve, which starts  *)
(* an Object::resolve for the root and one for every object below it.      *)
(* Each of them visits its selection set with a SelectionVisitor, calls    *)
(* the field accessors, and then awaits their results in order.            *)
(*                                                                         *)
(* A visitor is named by its path, the aliases that lead to its object.    *)
(* With the launch policy "sync" (the default, a mutation, or everything   *)
(* on the thread of a worker queue) a visitor runs to its end inside the   *)
(* visit of the field it belongs to.  With "async" (std::launch::async)    *)
(* it runs on a thread of its own while its parent goes on.  So it does    *)
(* with any policy when the accessor returned a future that is not ready:  *)
(* awaiting it detaches a thread that goes on when it is.                  *)
(*                                                                         *)
(* The visitors of an operation share three lists of directives, without a *)
(* lock: each push and each pop is a step of its own, between which those  *)
(* on other threads push and pop theirs.                                   *)
(*                                                                         *)
(* The document is a constant; the type and the launch policy of the       *)
(* operation, what its @skip and @include evaluate to and what its         *)
(* accessors return are chosen initially.                                  *)
(***************************************************************************)
EXTENDS Naturals, Sequences, FiniteSets

CONSTANTS
    Fields,       \* field nodes of the document
    Spreads,      \* fragment spread nodes
    Inlines,      \* inline fragment nodes
    Alias,        \* the response name of each field
    Sub,          \* a node's selection; a spread's is that of its definition
    Fragment,     \* the fragment definition each spread names
    Applies,      \* fragments whose type condition the object matches
    Root,         \* the operation's selection
    Cases,        \* the operations: their request, conditions and outcomes
    Futures,      \* fields whose accessors return futures that are not ready
    NoDirectives  \* an empty list of directives

Nodes == Fields \cup Spreads \cup Inlines

\* A node without the directive, with if: true or if: false, or without a
\* Boolean argument, which is "bad".
ConditionValues == [skip : {"none", "true", "false", "bad"},
                    include : {"none", "true", "false", "bad"}]

\* The accessor returns a value or null, it throws or returns something that
\* fails when awaited, it rejects the await with a schema_exception, or the
\* object has no such field.
OutcomeValues == {"value", "null", "fails", "rejects", "unknown"}

ASSUME DocumentData ==
    /\ Fields \cap Spreads = {}
    /\ (Fields \cup Spreads) \cap Inlines = {}
    /\ Sub \in [Nodes -> Seq(Nodes)]
    /\ Root \in Seq(Nodes)
    /\ DOMAIN Alias = Fields
    /\ DOMAIN Fragment = Spreads
    /\ Applies \subseteq Spreads \cup Inlines
    /\ Cases \subseteq [request : [policy : {"sync", "async"}, isMutation : BOOLEAN],
                       conditions : [Nodes -> ConditionValues],
                       outcomes : [Fields -> OutcomeValues]]
    /\ Futures \subseteq Fields
    /\ NoDirectives \notin Nodes

VARIABLES
    request,      \* params.launch and the type of the operation
    conditions,   \* the @skip and @include of each node, evaluated
    outcomes,     \* what each accessor does
    visitors,     \* Object::resolve calls, by path
    awaited,      \* the paths of leaves that wait on threads of their own
    results,      \* the AwaitableResolvers that are ready, by path
    definitions,  \* fragmentDefinitionDirectives, front first
    spreads,      \* fragmentSpreadDirectives
    inlines,      \* inlineFragmentDirectives
    changes,      \* the push or pop that comes next, by the visitor's path
    observed      \* what each accessor that was called found on the stacks

document == <<request, conditions, outcomes>>
stacks == <<definitions, spreads, inlines, changes>>
vars == <<document, visitors, awaited, results, stacks, observed>>

-----------------------------------------------------------------------------
(* Results and visitors                                                    *)

Null(errors) == [kind |-> "null", fields |-> <<>>, errors |-> errors]

Scalar == [kind |-> "scalar", fields |-> <<>>, errors |-> <<>>]

Set(f, x, y) == [z \in DOMAIN f \cup {x} |-> IF z = x THEN y ELSE f[z]]

\* The fragments a visitor is in, outermost first; the first one is the
\* selection set itself.  todo is what is left of each.
Scope(kind, node, todo) == [kind |-> kind, node |-> node, todo |-> todo]

Innermost(v) == v.nest[Len(v.nest)]

\* The visitor with the first node of the innermost selection visited.
Advanced(v) ==
    [v EXCEPT !.nest[Len(v.nest)].todo = Tail(@)]

\* Who the visitor is to visit next.
Visits(p, n) ==
    /\ visitors[p].phase = "visiting"
    /\ p \notin DOMAIN changes
    /\ Innermost(visitors[p]).todo # <<>>
    /\ n = Head(Innermost(visitors[p]).todo)

Ended == {"done", "threw"}

Children(p) == {q \in DOMAIN visitors : Len(q) = Len(p) + 1 /\ SubSeq(q, 1, Len(p)) = p}

\* Mutant of OperationLaunch: the launch policy of the request for all.
OperationLaunchShared == request.policy

\* A mutation's fields are launched serially.
OperationLaunch == IF request.isMutation THEN "sync" ELSE request.policy

\* The field's result is resolved on another thread than that of its parent.
Detached(n) == OperationLaunch = "async" \/ n \in Futures

\* Any other child runs on top of its parent.
Running(p) ==
    \A q \in Children(p) : visitors[q].detached \/ visitors[q].phase \in Ended

-----------------------------------------------------------------------------
(* DirectiveVisitor::shouldSkip                                            *)

\* The first of @skip and @include decides.
ShouldSkip(c) ==
    IF c.skip # "none" THEN c.skip = "true" ELSE c.include = "false"

\* It throws, if its argument is not a Boolean.
Malformed(c) == c.skip = "bad" \/ (c.skip = "none" /\ c.include = "bad")

-----------------------------------------------------------------------------
(* SelectionVisitor                                                        *)

Visitor(todo, detached) ==
    [phase |-> "launched", detached |-> detached, nest |-> <<Scope("set", NoDirectives, todo)>>, names |-> {},
     values |-> <<>>, fields |-> <<>>, errors |-> <<>>]

Without(f, x) == [z \in DOMAIN f \ {x} |-> f[z]]

\* Object::resolve constructs its SelectionVisitor, which starts the tracking
\* of fragment directives anew on the stacks it shares with its ancestors.
Start(p) ==
    /\ visitors[p].phase = "launched"
    /\ visitors' = [visitors EXCEPT ![p].phase = "visiting"]
    /\ definitions' = <<NoDirectives>> \o definitions
    /\ changes' = Set(changes, p, "startSpreads")
    /\ UNCHANGED <<document, awaited, results, spreads, inlines, observed>>

StartSpreads(p) ==
    /\ changes[p] = "startSpreads"
    /\ spreads' = <<NoDirectives>> \o spreads
    /\ changes' = Set(changes, p, "startInlines")
    /\ UNCHANGED <<document, visitors, awaited, results, definitions, inlines, observed>>

StartInlines(p) ==
    /\ changes[p] = "startInlines"
    /\ inlines' = <<NoDirectives>> \o inlines
    /\ changes' = Without(changes, p)
    /\ UNCHANGED <<document, visitors, awaited, results, definitions, spreads, observed>>

\* An exception leaves Object::resolve, whatever was launched before.
Throw(p) ==
    /\ visitors' = [visitors EXCEPT ![p].phase = "threw"]
    /\ results' = Set(results, p, Null(<<<<>>>>))
    /\ UNCHANGED <<document, awaited, stacks, observed>>

\* A response name that was seen before is not visited again.
SkipName(p, n) ==
    /\ n \in Fields
    /\ Alias[n] \in visitors[p].names
    /\ visitors' = [visitors EXCEPT ![p] = Advanced(@)]
    /\ UNCHANGED <<document, awaited, results, stacks, observed>>

\* Mutant of Named: forget the name.
NamedForgets(v, n) == Advanced(v)

\* The visitor after a field of which only the name is remembered.
Named(v, n) == [Advanced(v) EXCEPT !.names = @ \cup {Alias[n]}]

\* The visitor after a field whose result will be awaited.
Valued(v, n) == [Named(v, n) EXCEPT !.values = Append(@, Alias[n])]

Unseen(p, n) == n \in Fields /\ Alias[n] \notin visitors[p].names

\* The resolver of the field is not found, whatever its directives.
UnknownField(p, n) ==
    /\ Unseen(p, n)
    /\ outcomes[n] = "unknown"
    /\ visitors' = [visitors EXCEPT ![p] = Valued(@, n)]
    /\ results' = Set(results, Append(p, Alias[n]), Null(<<p>>))
    /\ UNCHANGED <<document, awaited, stacks, observed>>

\* Mutant of SkipField: await a result that nobody sets.
SkipFieldValued(p, n) ==
    /\ Unseen(p, n)
    /\ outcomes[n] # "unknown"
    /\ ~Malformed(conditions[n])
    /\ ShouldSkip(conditions[n])
    /\ visitors' = [visitors EXCEPT ![p] = Valued(@, n)]
    /\ UNCHANGED <<document, awaited, results, stacks, observed>>

SkipField(p, n) ==
    /\ Unseen(p, n)
    /\ outcomes[n] # "unknown"
    /\ ~Malformed(conditions[n])
    /\ ShouldSkip(conditions[n])
    /\ visitors' = [visitors EXCEPT ![p] = Named(@, n)]
    /\ UNCHANGED <<document, awaited, results, stacks, observed>>

\* The result of a field without an object of its own, as its parent will get
\* it: exceptions other than a rejected await have the path of the field.
Settled(p, n) ==
    CASE outcomes[n] = "value" -> Scalar
      [] outcomes[n] = "null" -> Null(<<>>)
      [] outcomes[n] = "rejects" -> Null(<<<<>>>>)
      [] OTHER -> Null(<<Append(p, Alias[n])>>)

\* The accessor is called; an object it returns is resolved by a visitor.
CallAccessor(p, n) ==
    /\ Unseen(p, n)
    /\ outcomes[n] # "unknown"
    /\ ~Malformed(conditions[n])
    /\ ~ShouldSkip(conditions[n])
    /\ observed' = Set(observed, Append(p, Alias[n]),
                       [node |-> n, nest |-> visitors[p].nest,
                        definitions |-> definitions, spreads |-> spreads,
                        inlines |-> inlines])
    /\ visitors' =
        IF Sub[n] # <<>> /\ outcomes[n] = "value"
        THEN Set([visitors EXCEPT ![p] = Valued(@, n)],
                 Append(p, Alias[n]), Visitor(Sub[n], Detached(n)))
        ELSE [visitors EXCEPT ![p] = Valued(@, n)]
    /\ awaited' =
        IF (Sub[n] = <<>> \/ outcomes[n] # "value") /\ Detached(n)
        THEN awaited \cup {Append(p, Alias[n])} ELSE awaited
    /\ results' =
        IF (Sub[n] = <<>> \/ outcomes[n] # "value") /\ ~Detached(n)
        THEN Set(results, Append(p, Alias[n]), Settled(p, n)) ELSE results
    /\ UNCHANGED <<document, stacks>>

\* The thread that awaited a leaf goes on.
Resolve(q) ==
    /\ q \in awaited
    /\ awaited' = awaited \ {q}
    /\ results' = Set(results, q, Settled(SubSeq(q, 1, Len(q) - 1), observed[q].node))
    /\ UNCHANGED <<document, visitors, stacks, observed>>

\* Mutant of ThrowFromNode: end the selection, and keep what was visited.
ThrowFromNodeEnds(p, n) ==
    /\ Malformed(conditions[n])
    /\ n \in Fields => Unseen(p, n) /\ outcomes[n] # "unknown"
    /\ n \in Spreads => n \in Applies
    /\ visitors' = [visitors EXCEPT ![p].phase = "awaiting"]
    /\ UNCHANGED <<document, awaited, results, stacks, observed>>

\* Without a Boolean argument, @skip or an @include that is looked at throws out
\* of the visit of any node.  A spread of an unknown fragment would throw too,
\* but Request::resolve has such a document rejected before.
ThrowFromNode(p, n) ==
    /\ Malformed(conditions[n])
    /\ n \in Fields => Unseen(p, n) /\ outcomes[n] # "unknown"
    /\ n \in Spreads => n \in Applies
    /\ Throw(p)

\* Fragments for other types, and skipped ones.
SkipFragment(p, n) ==
    /\ n \in Spreads \cup Inlines
    /\ n \in Applies => ~Malformed(conditions[n]) /\ ShouldSkip(conditions[n])
    /\ n \in Inlines => ~Malformed(conditions[n])
    /\ visitors' = [visitors EXCEPT ![p] = Advanced(@)]
    /\ UNCHANGED <<document, awaited, results, stacks, observed>>

Entered(v, kind, n) ==
    [Advanced(v) EXCEPT !.nest = Append(@, Scope(kind, n, Sub[n]))]

\* The directives of the definition are pushed, and then those of the spread.
EnterSpread(p, n) ==
    /\ n \in Spreads \cap Applies
    /\ ~Malformed(conditions[n])
    /\ ~ShouldSkip(conditions[n])
    /\ visitors' = [visitors EXCEPT ![p] = Entered(@, "spread", n)]
    /\ definitions' = <<Fragment[n]>> \o definitions
    /\ changes' = Set(changes, p, "pushSpread")
    /\ UNCHANGED <<document, awaited, results, spreads, inlines, observed>>

PushSpread(p) ==
    /\ changes[p] = "pushSpread"
    /\ spreads' = <<Innermost(visitors[p]).node>> \o spreads
    /\ changes' = Without(changes, p)
    /\ UNCHANGED <<document, visitors, awaited, results, definitions, inlines, observed>>

\* Mutant of EnterInline: push the directives onto the other stack.
EnterInlineOther(p, n) ==
    /\ n \in Inlines \cap Applies
    /\ ~Malformed(conditions[n])
    /\ ~ShouldSkip(conditions[n])
    /\ visitors' = [visitors EXCEPT ![p] = Entered(@, "inline", n)]
    /\ spreads' = <<n>> \o spreads
    /\ UNCHANGED <<document, awaited, results, definitions, inlines, changes, observed>>

EnterInline(p, n) ==
    /\ n \in Inlines \cap Applies
    /\ ~Malformed(conditions[n])
    /\ ~ShouldSkip(conditions[n])
    /\ visitors' = [visitors EXCEPT ![p] = Entered(@, "inline", n)]
    /\ inlines' = <<n>> \o inlines
    /\ UNCHANGED <<document, awaited, results, definitions, spreads, changes, observed>>

Left(v) == [v EXCEPT !.nest = SubSeq(@, 1, Len(@) - 1)]

AtEnd(p, kind) ==
    /\ visitors[p].phase = "visiting"
    /\ p \notin DOMAIN changes
    /\ Innermost(visitors[p]).todo = <<>>
    /\ Innermost(visitors[p]).kind = kind

\* Mutant of LeaveSpread: keep the directives of the spread.
LeaveSpreadHalf(p) ==
    /\ AtEnd(p, "spread")
    /\ changes' = Set(changes, p, "popDefinition")
    /\ UNCHANGED <<document, visitors, awaited, results, definitions, spreads, inlines, observed>>

\* The fragment's last selection was visited: pop its directives, those of the
\* spread first.
LeaveSpread(p) ==
    /\ AtEnd(p, "spread")
    /\ spreads' = Tail(spreads)
    /\ changes' = Set(changes, p, "popDefinition")
    /\ UNCHANGED <<document, visitors, awaited, results, definitions, inlines, observed>>

PopDefinition(p) ==
    /\ changes[p] = "popDefinition"
    /\ visitors' = [visitors EXCEPT ![p] = Left(@)]
    /\ definitions' = Tail(definitions)
    /\ changes' = Without(changes, p)
    /\ UNCHANGED <<document, awaited, results, spreads, inlines, observed>>

LeaveInline(p) ==
    /\ AtEnd(p, "inline")
    /\ visitors' = [visitors EXCEPT ![p] = Left(@)]
    /\ inlines' = Tail(inlines)
    /\ UNCHANGED <<document, awaited, results, definitions, spreads, changes, observed>>

-----------------------------------------------------------------------------
(* Object::resolve after its visit                                         *)

GetValues(p) ==
    /\ AtEnd(p, "set")
    /\ visitors' = [visitors EXCEPT ![p].phase = "awaiting"]
    /\ UNCHANGED <<document, awaited, results, stacks, observed>>

\* Await the next result: its value, or null, and its errors are added.
Await(p) ==
    LET v == visitors[p]
        alias == v.values[Len(v.fields) + 1]
        result == results[Append(p, alias)]
    IN  /\ v.phase = "awaiting"
        /\ Len(v.fields) < Len(v.values)
        /\ Append(p, alias) \in DOMAIN results
        /\ visitors' = [visitors EXCEPT
                          ![p].fields = Append(@, [alias |-> alias, kind |-> result.kind,
                                                   fields |-> result.fields]),
                          ![p].errors = @ \o result.errors]
        /\ UNCHANGED <<document, awaited, results, stacks, observed>>

\* co_return the document.
Finish(p) ==
    /\ visitors[p].phase = "awaiting"
    /\ Len(visitors[p].fields) = Len(visitors[p].values)
    /\ visitors' = [visitors EXCEPT ![p].phase = "done"]
    /\ results' = Set(results, p, [kind |-> "object", fields |-> visitors[p].fields,
                                   errors |-> visitors[p].errors])
    /\ UNCHANGED <<document, awaited, stacks, observed>>

-----------------------------------------------------------------------------
(* Request::resolve                                                        *)

Init ==
    /\ \E chosen \in Cases :
          request = chosen.request /\ conditions = chosen.conditions /\ outcomes = chosen.outcomes
    /\ visitors = [p \in {<<>>} |-> Visitor(Root, TRUE)]
    /\ awaited = {}
    /\ results = <<>>
    /\ definitions = <<>>
    /\ spreads = <<>>
    /\ inlines = <<>>
    /\ changes = <<>>
    /\ observed = <<>>

Visit(p, n) ==
    /\ Visits(p, n)
    /\ \/ SkipName(p, n)
       \/ UnknownField(p, n)
       \/ SkipField(p, n)
       \/ CallAccessor(p, n)
       \/ SkipFragment(p, n)
       \/ EnterSpread(p, n)
       \/ EnterInline(p, n)
       \/ ThrowFromNode(p, n)

\* The next push or pop of a visitor that is between two of them.
Change(p) ==
    /\ p \in DOMAIN changes
    /\ \/ StartSpreads(p)
       \/ StartInlines(p)
       \/ PushSpread(p)
       \/ PopDefinition(p)

VisitorStep(p) ==
    /\ Running(p)
    /\ \/ Change(p)
       \/ Start(p)
       \/ \E n \in Nodes : Visit(p, n)
       \/ LeaveSpread(p)
       \/ LeaveInline(p)
       \/ GetValues(p)
       \/ Await(p)
       \/ Finish(p)

Next ==
    \/ \E p \in DOMAIN visitors : VisitorStep(p)
    \/ \E q \in awaited : Resolve(q)

Spec == Init /\ [][Next]_vars

\* Threads are scheduled and accessors return.
FairSpec == Spec /\ WF_vars(Next)

-----------------------------------------------------------------------------
(* Invariants                                                              *)

Ready(p) == p \in DOMAIN results

\* The operation's response.
Response == results[<<>>]

\* The lists in which the innermost scope of a visitor has no entry, for each
\* push or pop that comes next.
Lacking ==
    [startSpreads |-> {"spreads", "inlines"}, startInlines |-> {"inlines"},
     pushSpread |-> {"spreads"}, popDefinition |-> {"spreads"}]

\* The scopes of the visitor at p that have an entry in the list.
Holds(list, p) ==
    {i \in 1..Len(visitors[p].nest) :
        /\ visitors[p].phase # "launched"
        /\ visitors[p].nest[i].kind \in {"set", IF list = "inlines" THEN "inline" ELSE "spread"}
        /\ i = Len(visitors[p].nest) /\ p \in DOMAIN changes => list \notin Lacking[changes[p]]}

Holders(list) == UNION {{p} \X Holds(list, p) : p \in DOMAIN visitors}

TypeOK ==
    /\ conditions \in [Nodes -> ConditionValues]
    /\ outcomes \in [Fields -> OutcomeValues]
    /\ \A p \in DOMAIN visitors :
        /\ visitors[p].phase \in {"launched", "visiting", "awaiting"} \cup Ended
        /\ visitors[p].nest[1].kind = "set"
        /\ visitors[p].names \subseteq {Alias[n] : n \in Fields}
        /\ Len(visitors[p].fields) <= Len(visitors[p].values)
        /\ p # <<>> => p \in DOMAIN observed
    /\ awaited \subseteq DOMAIN observed \ DOMAIN results
    /\ \A p \in DOMAIN results : results[p].kind \in {"null", "scalar", "object"}
    /\ \A i \in DOMAIN definitions :
        definitions[i] \in {Fragment[n] : n \in Spreads} \cup {NoDirectives}
    /\ \A i \in DOMAIN spreads : spreads[i] \in Spreads \cup {NoDirectives}
    /\ \A i \in DOMAIN inlines : inlines[i] \in Inlines \cup {NoDirectives}
    /\ \A p \in DOMAIN changes :
        /\ p \in DOMAIN visitors /\ visitors[p].phase = "visiting"
        /\ changes[p] \in DOMAIN Lacking

\* Every selection set that was started and every fragment that a visitor is
\* in, or was in when an exception ended it, has one entry in each list it is
\* for, and there are no others.  So whichever visitors push and pop between
\* the pushes and pops of a visitor, no entry is lost, and what it pops is an
\* entry: pop_front of an empty list is undefined.
PoppedWasPushed ==
    /\ Len(definitions) = Cardinality(Holders("definitions"))
    /\ Len(spreads) = Cardinality(Holders("spreads"))
    /\ Len(inlines) = Cardinality(Holders("inlines"))

Enclosing(nest, kind) == {i \in DOMAIN nest : nest[i].kind = kind}

\* The node whose directives an accessor has to find in front: that of the
\* innermost fragment of its kind within the field's own selection set.
InFront(nest, kind) ==
    IF Enclosing(nest, kind) = {} THEN NoDirectives
    ELSE nest[CHOOSE i \in Enclosing(nest, kind) :
                 \A j \in Enclosing(nest, kind) : j <= i].node

\* "Fragment directives are shared for all fields in that fragment" and "will
\* be popped from the stack when the last field has been visited": an accessor
\* finds the directives of the fragments its own field is in.
DirectivesInScope ==
    \A p \in DOMAIN observed :
        /\ Head(observed[p].spreads) = InFront(observed[p].nest, "spread")
        /\ Head(observed[p].inlines) = InFront(observed[p].nest, "inline")

\* The nodes of the fragments of a kind that the accessor at p is in, innermost
\* first: those around its field and those around the objects it is in.
Surrounding(p, kind) ==
    LET ofField[k \in 0..Len(p)] ==
          IF k = 0 THEN <<>>
          ELSE LET nest == observed[SubSeq(p, 1, k)].nest
                   around == SelectSeq(nest, LAMBDA scope : scope.kind = kind)
               IN  [i \in DOMAIN around |-> around[Len(around) + 1 - i].node] \o ofField[k - 1]
    IN  ofField[Len(p)]

\* The nodes are in the list in their order, with others between them.
InOrder(nodes, list) ==
    LET rest[i \in 0..Len(list)] ==
          IF i = 0 THEN nodes
          ELSE IF rest[i - 1] # <<>> /\ Head(rest[i - 1]) = list[i] THEN Tail(rest[i - 1])
          ELSE rest[i - 1]
    IN  rest[Len(list)] = <<>>

\* "The outer fragment directives are still there in the
\* FragmentSpreadDirectiveStack if the field accessors want to inspect them":
\* as long as every object is resolved within the visit of its field, an
\* accessor finds those of all the fragments it is in, in their order.
OuterDirectivesThere ==
    (OperationLaunch = "sync" /\ \A n \in Futures : Sub[n] = <<>>) =>
        \A p \in DOMAIN observed :
            /\ InOrder(Surrounding(p, "spread"), observed[p].spreads)
            /\ InOrder(Surrounding(p, "inline"), observed[p].inlines)

\* "The lifetime of each of these borrowed references is guaranteed until the
\* future returned by the accessor is resolved or destroyed.  They are owned by
\* the OperationData": no object of the operation is still being resolved when
\* the operation has its result, and its data is destroyed.
BorrowedAlive ==
    Ready(<<>>) => \A p \in DOMAIN visitors : visitors[p].phase \in Ended

-----------------------------------------------------------------------------
(* Action and liveness properties                                          *)

\* "Normal and Serial Execution": a mutation's fields run one after the other.
\* When the accessor of one is called, the results of the ones before are there.
SerialMutation ==
    [][request.isMutation =>
          \A p \in DOMAIN observed' \ DOMAIN observed : Len(p) = 1 =>
              \A q \in DOMAIN observed :
                  /\ Ready(q) \/ Len(q) > 1
                  /\ q \in DOMAIN visitors => visitors[q].phase \in Ended]_vars

\* Every operation gets its response, although visitors wait for each other.
ResponseArrives == <>Ready(<<>>)
=============================================================================
