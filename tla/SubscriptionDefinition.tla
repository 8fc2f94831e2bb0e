----------------------- MODULE SubscriptionDefinition -----------------------
(***************************************************************************)
(* Request::addSubscription for a validated document: the operation that   *)
(* is subscribed to is found by its name, and SubscriptionDefinitionVisitor*)
(* collects the one field that the subscription listens to.                *)
(*                                                                         *)
(* The visitor owns the parameters of the request (query, state, callback, *)
(* fragments, variables) until it moves them into a SubscriptionData.  It  *)
(* is a record that every visit takes and returns.                         *)
(***************************************************************************)
EXTENDS ValidatedExecution

CONSTANT Variables    \* the variables of a request: name -> BOOLEAN

NoResult == [field |-> "no subscription", params |-> FALSE]
NewVisitor == [params |-> TRUE, field |-> "", thrown |-> FALSE, result |-> NoResult]
Throw(s) == [s EXCEPT !.thrown = TRUE]

\* ValueVisitor finds no variable once the map of variables has moved away.
Evaluates(s, args) ==
  \A i \in DOMAIN args :
    VariablesIn(args[i][2]) = {} \/ (s.params /\ VariablesIn(args[i][2]) \subseteq DOMAIN Variables)
Truth(value) == IF value.kind = "variable" THEN Variables[value.name] ELSE value.value

DirectivesEvaluate(s, dirs) == \A i \in DOMAIN dirs : Evaluates(s, dirs[i].args)
ShouldSkip(dirs) ==    \* the first @skip decides, or else the first @include
  LET Named_(n) == SelectSeq(dirs, LAMBDA d : d.name = n)
  IN  IF Named_("skip") # <<>> THEN Truth(Head(Named_("skip")).args[1][2])
      ELSE Named_("include") # <<>> /\ ~Truth(Head(Named_("include")).args[1][2])
NoCondition(dirs) ==    \* without its argument "if" the deciding one throws
  LET Named_(n) == SelectSeq(dirs, LAMBDA d : d.name = n)
  IN  \/ Named_("skip") # <<>> /\ Head(Named_("skip")).args = <<>>
      \/ Named_("skip") = <<>> /\ Named_("include") # <<>> /\ Head(Named_("include")).args = <<>>
DirectivesThrow(s, dirs) == ~DirectivesEvaluate(s, dirs) \/ NoCondition(dirs)

RootFieldAlias(s, field) ==
  IF s.field # "" \/ DirectivesThrow(s, field.dirs) \/ ~Evaluates(s, field.args) THEN Throw(s)
  ELSE IF ShouldSkip(field.dirs) THEN s ELSE [s EXCEPT !.field = Alias(field)]

RootField(s, field) ==
  IF s.field # "" THEN Throw(s)    \* extra subscription root field
  ELSE IF DirectivesThrow(s, field.dirs) THEN Throw(s)
  ELSE IF ShouldSkip(field.dirs) THEN s
  ELSE IF ~Evaluates(s, field.args) THEN Throw(s)
  ELSE [s EXCEPT !.field = field.name]

\* visit takes the last child of its node for a selection set: the one of an
\* operation, a field or an inline fragment, and nothing in any other node.
LastChild(node) == IF node.kind = "spread" THEN <<>> ELSE node.sel

RECURSIVE VisitNode(_, _, _)
VisitAll(doc, s, sel) ==    \* each selection is visited like an operation
  FoldLeft(LAMBDA w, node : VisitNode(doc, w, node), s, sel)
RootFragmentSpread(doc, s, spread) ==
  IF ~s.params \/ ~HasFragment(doc, spread.name) THEN Throw(s)
  ELSE LET f == Fragment(doc, spread.name)
       IN  IF ~MatchesType(OperationTypes["subscription"], f.on) THEN s
           ELSE IF DirectivesThrow(s, spread.dirs) THEN Throw(s)
           ELSE IF ShouldSkip(spread.dirs) THEN s
           ELSE VisitAll(doc, s, f.sel)
RootInlineFragment(doc, s, inline) ==
  IF DirectivesThrow(s, inline.dirs) THEN Throw(s)
  ELSE IF ShouldSkip(inline.dirs) THEN s
  ELSE IF inline.on = "" \/ MatchesType(OperationTypes["subscription"], inline.on)
       THEN VisitAll(doc, s, inline.sel) ELSE s

VisitNode(doc, s, node) ==
  LET Step(w, child) ==
        CASE w.thrown -> w
          [] ~w.thrown /\ child.kind = "field" -> RootField(w, child)
          [] ~w.thrown /\ child.kind = "spread" -> RootFragmentSpread(doc, w, child)
          [] ~w.thrown /\ child.kind = "inline" -> RootInlineFragment(doc, w, child)
      visited == FoldLeft(Step, s, LastChild(node))
  IN  IF visited.thrown THEN visited
      ELSE IF ~DirectivesEvaluate(visited, node.dirs) THEN Throw(visited)
      ELSE [visited EXCEPT !.result = [field |-> visited.field, params |-> visited.params],
                           !.field = "", !.params = FALSE]

\* findOperationDefinition: the first operation, or the first of the name.
Operations(doc) == OfKind(doc, "operation")
Chosen(doc, operationName) ==
  SelectSeq(Operations(doc), LAMBDA op : operationName = "" \/ op.name = operationName)
Throws == [field |-> "throws", params |-> FALSE]
AddSubscription(doc, operationName) ==
  LET chosen == Chosen(doc, operationName)
      visited == FoldLeft(LAMBDA s, op : IF s.thrown THEN s ELSE VisitNode(doc, s, op),
                          NewVisitor, Operations(doc))
  IN  IF chosen = <<>> \/ Head(chosen).op # "subscription" THEN Throws
      ELSE IF visited.thrown THEN Throws ELSE visited.result

\* What a client expects of it: the key of a registration for the one field
\* of the operation, which still has the query and the callback.
Registers(doc, operationName) ==
  LET op == Head(Chosen(doc, operationName))
      root == Selected(doc, OperationTypes["subscription"], op.sel, {})[1]
  IN  [field |-> root.name, params |-> TRUE]
=============================================================================
