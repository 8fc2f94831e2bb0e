----------------------------- MODULE Validation -----------------------------
(***************************************************************************)
(* ValidateExecutableVisitor: the rules that decide whether a document may *)
(* be executed against a schema.  The visitor is one record that every     *)
(* visit takes and returns; a Request keeps the same visitor for all of    *)
(* its queries, so what a visit leaves in it matters to the next one.      *)
(*                                                                         *)
(* A document is the sequence of its definitions, a selection set the      *)
(* sequence of its nodes.  Names are model strings, a type is a sequence   *)
(* of wrappers that ends in the name of a type, an error is its rule and   *)
(* the name it is about.                                                   *)
(***************************************************************************)
EXTENDS Naturals, SequencesExt

CONSTANTS
  Types,           \* name -> [kind, fields, possible, inputs, values]
  OperationTypes,  \* kind of operation -> name of its root type
  Directives,      \* name -> [repeatable, locations, args]
  Introspects      \* whether the schema supports introspection

NoVariables == <<>>    \* an optional map is empty or the sequence of one
Fn(pairs) ==    \* the function of a sequence of pairs, the first of a name first
  [n \in {pairs[i][1] : i \in DOMAIN pairs} |->
     pairs[CHOOSE i \in DOMAIN pairs : pairs[i][1] = n /\ \A j \in 1..(i - 1) : pairs[j][1] # n][2]]
With(f, k, x) == [n \in DOMAIN f \cup {k} |-> IF n = k /\ k \notin DOMAIN f THEN x ELSE f[n]]
Sorted(names) ==    \* a sorted map is walked in one fixed order
  FoldSet(LAMBDA n, seq : Append(seq, n), <<>>, names)

Kind(type) == IF Len(type) > 1 THEN Head(type) ELSE Types[type[1]].kind
OfType(type) == Tail(type)
Composite(type) == Kind(type) \in {"OBJECT", "INTERFACE", "UNION"}
Named(type) == <<Last(type)>>
MatchingTypes(name) ==
  LET t == Types[name]
  IN  CASE t.kind = "OBJECT" -> {name}
        [] t.kind = "INTERFACE" -> {name} \cup t.possible
        [] t.kind = "UNION" -> t.possible
        [] OTHER -> {}
MatchesScopedType(v, name) ==
  \/ <<name>> = v.scopedType
  \/ MatchingTypes(v.scopedType[1]) \cap MatchingTypes(name) # {}

Meta == [__typename |-> [type |-> <<"NON_NULL", "String">>, args |-> <<>>]]
SchemaFields ==
  [__schema |-> [type |-> <<"NON_NULL", "__Schema">>, args |-> <<>>],
   __type |-> [type |-> <<"__Type">>,
               args |-> [name |-> [type |-> <<"NON_NULL", "String">>, default |-> "none"]]]]
ScopedTypeFields(scope) ==
  LET own == Types[scope[1]].fields
      root == IF Introspects /\ scope = <<OperationTypes["query"]>> THEN SchemaFields ELSE <<>>
  IN  [n \in DOMAIN own \cup DOMAIN root \cup DOMAIN Meta |->
         IF n \in DOMAIN Meta THEN Meta[n] ELSE IF n \in DOMAIN root THEN root[n] ELSE own[n]]

Fresh ==
  [errors |-> <<>>, ok |-> TRUE,
   fragmentDefinitions |-> <<>>, operationDefinitions |-> {}, referencedFragments |-> {},
   fragmentCycles |-> {}, operationVariables |-> NoVariables, variableDefinitions |-> {},
   referencedVariables |-> {}, fragmentStack |-> {}, fieldCount |-> 0,
   introspectionFieldCount |-> 0, scopedType |-> <<>>, selectionFields |-> <<>>]

Report(v, rule, name) == [v EXCEPT !.errors = Append(@, <<rule, name>>)]
ReportIf(v, wrong, rule, name) == IF wrong THEN Report(v, rule, name) ELSE v
Fail(v, rule, name) == [Report(v, rule, name) EXCEPT !.ok = FALSE]
Pass(v) == [v EXCEPT !.ok = TRUE]
UntilFailed(Step(_, _), v, seq) ==
  FoldLeft(LAMBDA w, x : IF w.ok THEN Step(w, x) ELSE w, Pass(v), seq)

(***************************************************************************)
(* Values against the types they are given to.                             *)
(***************************************************************************)
RECURSIVE VariableType(_, _, _, _)
VariableType(v, isNonNull, variable, input) ==
  LET kind == Kind(input)
  IN  IF Kind(variable) = "NON_NULL" THEN VariableType(v, TRUE, OfType(variable), input)
      ELSE IF kind = "NON_NULL"
           THEN IF isNonNull THEN VariableType(v, FALSE, variable, OfType(input))
                             ELSE Fail(v, "Expected Non-Null variable type", "")
      ELSE IF Kind(variable) # kind THEN Fail(v, "Unexpected variable type", kind)
      ELSE IF kind = "LIST" THEN VariableType(v, FALSE, OfType(variable), OfType(input))
      ELSE IF variable # input THEN Fail(v, "Incompatible variable type", input[1])
      ELSE Pass(v)

ScalarAccepts(name) ==
  CASE name = "Int" -> {"int"}
    [] name = "Float" -> {"float", "int"}
    [] name \in {"String", "ID"} -> {"string"}
    [] name = "Boolean" -> {"boolean"}
    [] OTHER -> {"int", "float", "string", "boolean", "enum", "list", "object"}

RECURSIVE Repeated(_)
Repeated(value) ==    \* input fields that an object value gives more than once
  CASE value.kind = "list" -> FlattenSeq([i \in DOMAIN value.values |-> Repeated(value.values[i])])
    [] value.kind = "object" ->
         FlattenSeq([i \in DOMAIN value.fields |->
           IF \E j \in 1..(i - 1) : value.fields[j][1] = value.fields[i][1]
           THEN <<value.fields[i][1]>> ELSE Repeated(value.fields[i][2])])
    [] OTHER -> <<>>
RECURSIVE Parsed(_)
Parsed(value) ==    \* ... of which the first counts
  CASE value.kind = "list" -> [value EXCEPT !.values = [i \in DOMAIN @ |-> Parsed(@[i])]]
    [] value.kind = "object" -> [value EXCEPT !.fields = [n \in DOMAIN Fn(@) |-> Parsed(Fn(@)[n])]]
    [] OTHER -> value
ArgumentValue(v, value) ==
  FoldLeft(LAMBDA w, n : Report(w, "Conflicting input field", n), v, Repeated(value))

RECURSIVE InputValue(_, _, _, _)
InputFields(v, value, type) ==
  LET fields == Types[type[1]].inputs
      Check(w, n) ==
        IF n \notin DOMAIN fields THEN Fail(w, "Undefined Input Object field", n)
        ELSE IF value.fields[n].kind = "null" /\ fields[n].default # "none" THEN w
        ELSE InputValue(w, fields[n].default = "value", value.fields[n], fields[n].type)
      Required(w, n) ==
        IF n \notin DOMAIN value.fields /\ fields[n].default = "none" /\ Kind(fields[n].type) = "NON_NULL"
        THEN Fail(w, "Missing Input Object field", n) ELSE w
      given == UntilFailed(Check, v, Sorted(DOMAIN value.fields))
  IN  IF given.ok THEN UntilFailed(Required, given, Sorted(DOMAIN fields)) ELSE given

InputValue(v, hasNonNullDefault, value, type) ==
  LET kind == Kind(type)
  IN  CASE value.kind = "variable" ->
             IF v.operationVariables = NoVariables THEN Pass(v)
             ELSE IF value.name \notin DOMAIN v.operationVariables[1]
             THEN Fail(v, "Undefined variable", value.name)
             ELSE LET variable == v.operationVariables[1][value.name]
                  IN  VariableType([v EXCEPT !.referencedVariables = @ \cup {value.name}],
                                   hasNonNullDefault \/ variable.default = "value",
                                   variable.type, type)
        [] value.kind = "null" ->
             IF kind = "NON_NULL" /\ ~hasNonNullDefault
             THEN Fail(v, "Expected Non-Null value", "") ELSE Pass(v)
        [] value.kind \notin {"variable", "null"} /\ kind = "NON_NULL" ->
             InputValue(v, hasNonNullDefault, value, OfType(type))
        [] value.kind \notin {"variable", "null"} /\ kind = "LIST" ->
             IF value.kind # "list" THEN Fail(v, "Expected List value", "")
             ELSE UntilFailed(LAMBDA w, x : InputValue(w, FALSE, x, OfType(type)), v, value.values)
        [] value.kind \notin {"variable", "null"} /\ kind = "INPUT_OBJECT" ->
             IF value.kind # "object" THEN Fail(v, "Expected Input Object value", type[1])
             ELSE InputFields(v, value, type)
        [] value.kind \notin {"variable", "null"} /\ kind = "ENUM" ->
             IF value.kind # "enum" THEN Fail(v, "Expected Enum value", type[1])
             ELSE IF value.value \notin Types[type[1]].values
             THEN Fail(v, "Undefined Enum value", value.value) ELSE Pass(v)
        [] value.kind \notin {"variable", "null"} /\ kind = "SCALAR" ->
             IF value.kind \notin ScalarAccepts(type[1])
             THEN Fail(v, "Expected Scalar value", type[1]) ELSE Pass(v)
        [] OTHER -> Fail(v, "Unexpected value type", "")

(***************************************************************************)
(* Arguments of fields and of directives, and directives.                  *)
(***************************************************************************)
GivenArguments(v, args) ==    \* reports the repeated ones, the rest is Fn(args)
  FoldLeftDomain(LAMBDA w, i :
    IF \E j \in 1..(i - 1) : args[j][1] = args[i][1]
    THEN Report(w, "Conflicting argument", args[i][1]) ELSE ArgumentValue(w, args[i][2]), v, args)

CheckArguments(v, defined, given) ==
  LET Undefined(w, n) == ReportIf(w, n \notin DOMAIN defined, "Undefined argument", n)
      Check(w, n) ==
        IF n \in DOMAIN given /\ given[n].kind # "null"
        THEN LET x == InputValue(w, defined[n].default = "value", given[n], defined[n].type)
             IN  ReportIf(x, ~x.ok, "Incompatible argument", n)
        ELSE ReportIf(w, defined[n].default = "none" /\ Kind(defined[n].type) = "NON_NULL",
                      "Missing argument", n)
  IN  FoldLeft(Check, FoldLeft(Undefined, v, Sorted(DOMAIN given)), Sorted(DOMAIN defined))

AsArguments(node) == [n \in DOMAIN Fn(node.args) |-> Parsed(Fn(node.args)[n])]
VisitDirective(v, location, directives, i) ==
  LET d == directives[i]
      known == Directives[d.name]
  IN  IF d.name \notin DOMAIN Directives THEN Report(v, "Undefined directive", d.name)
      ELSE IF ~known.repeatable /\ \E j \in 1..(i - 1) : directives[j].name = d.name
      THEN Report(v, "Conflicting directive", d.name)
      ELSE IF location \notin known.locations THEN Report(v, "Unexpected location", d.name)
      ELSE IF d.args = <<>> THEN v    \* no node of arguments, nothing is checked
      ELSE CheckArguments(GivenArguments(v, d.args), known.args, AsArguments(d))
VisitDirectives(v, location, directives) ==
  FoldLeftDomain(LAMBDA w, i : VisitDirective(w, location, directives, i), v, directives)

(***************************************************************************)
(* Selection sets.                                                         *)
(***************************************************************************)
SameFieldByType(a, b) == a.returnType = b.returnType
SameField(a, b) ==    \* ValidateField::operator==
  /\ a.returnType = b.returnType
  /\ \/ a.objectType # <<>> /\ b.objectType # <<>> /\ a.objectType # b.objectType
     \/ a.name = b.name /\ a.arguments = b.arguments

Alias(field) == IF field.alias = "" THEN field.name ELSE field.alias
AsValidated(v, field) ==
  [returnType |-> ScopedTypeFields(v.scopedType)[field.name].type,
   objectType |-> IF Kind(v.scopedType) = "OBJECT" THEN v.scopedType ELSE <<>>,
   name |-> field.name,
   arguments |-> AsArguments(field)]

RECURSIVE VisitSelection(_, _)
SubSelection(v, inner, field) ==
  LET w == VisitSelection([v EXCEPT !.fieldCount = 0, !.introspectionFieldCount = 0,
                                    !.selectionFields = <<>>, !.scopedType = inner], field.sel)
      count == IF field.sel = <<>> THEN 0 ELSE w.fieldCount
      back == [w EXCEPT !.fieldCount = v.fieldCount, !.selectionFields = v.selectionFields,
                        !.introspectionFieldCount = v.introspectionFieldCount,
                        !.scopedType = v.scopedType]
  IN  IF count = 0 /\ Composite(inner) THEN Report(back, "Missing fields", field.name)
      ELSE [back EXCEPT !.fieldCount = @ + 1,
                        !.introspectionFieldCount = @ + (IF field.meta THEN 1 ELSE 0)]

NewField(v, field, validated, conflict) ==
  LET defined == ScopedTypeFields(v.scopedType)[field.name]
      merged == ReportIf(v, conflict, "Conflicting field", field.name)
      checked == CheckArguments(merged, defined.args, validated.arguments)
  IN  SubSelection([checked EXCEPT !.selectionFields = With(@, Alias(field), validated)],
                   Named(defined.type), field)

VisitField(v, field) ==
  LET directed == VisitDirectives(v, "FIELD", field.dirs)
  IN  IF ~Composite(v.scopedType) THEN Report(directed, "Field on scalar type", field.name)
      ELSE IF Kind(v.scopedType) = "UNION" /\ field.name # "__typename"
      THEN Report(directed, "Field on union type", field.name)
      ELSE IF field.name \notin DOMAIN ScopedTypeFields(v.scopedType)
      THEN Report(directed, "Undefined field", field.name)
      ELSE LET given == GivenArguments(directed, field.args)
               validated == AsValidated(v, field)
               met == Alias(field) \in DOMAIN v.selectionFields
               same == met /\ SameField(v.selectionFields[Alias(field)], validated)
           IN  IF same THEN given    \* already validated
               ELSE NewField(given, field, validated, met)

VisitFragmentSpreadKeepsScope(v, spread) ==
  LET w == VisitDirectives(v, "FRAGMENT_SPREAD", spread.dirs)
      fragment == w.fragmentDefinitions[spread.name]
      inside == [w EXCEPT !.fragmentStack = @ \cup {spread.name}, !.scopedType = <<fragment.on>>]
  IN  IF spread.name \notin DOMAIN w.fragmentDefinitions \/ spread.name \in w.fragmentStack
      THEN Report(w, "Undefined or cyclic fragment spread", spread.name)
      ELSE IF fragment.on \notin DOMAIN Types \/ ~MatchesScopedType(w, fragment.on)
      THEN Report(w, "Incompatible fragment spread", spread.name)
      ELSE [VisitSelection(inside, fragment.sel)
              EXCEPT !.fragmentStack = @ \ {spread.name},
                     !.referencedFragments = @ \cup {spread.name}]
VisitFragmentSpread(v, spread) ==
  LET w == VisitDirectives(v, "FRAGMENT_SPREAD", spread.dirs)
      fragment == w.fragmentDefinitions[spread.name]
      inside == [w EXCEPT !.fragmentStack = @ \cup {spread.name}, !.scopedType = <<fragment.on>>]
  IN  IF spread.name \notin DOMAIN w.fragmentDefinitions
      THEN Report(w, "Undefined fragment spread", spread.name)
      ELSE IF spread.name \in w.fragmentStack
      THEN [ReportIf(w, spread.name \notin w.fragmentCycles, "Cyclic fragment spread", spread.name)
              EXCEPT !.fragmentCycles = @ \cup {spread.name}]
      ELSE IF fragment.on \notin DOMAIN Types \/ ~MatchesScopedType(w, fragment.on)
      THEN Report(w, "Incompatible fragment spread", spread.name)
      ELSE [VisitSelection(inside, fragment.sel)
              EXCEPT !.scopedType = v.scopedType, !.fragmentStack = @ \ {spread.name},
                     !.referencedFragments = @ \cup {spread.name}]

VisitInlineFragment(v, inline) ==
  LET w == VisitDirectives(v, "INLINE_FRAGMENT", inline.dirs)
      target == IF inline.on = "" THEN w.scopedType ELSE <<inline.on>>
  IN  IF inline.on # "" /\ inline.on \notin DOMAIN Types
      THEN Report(w, "Undefined target type", inline.on)
      ELSE IF inline.on # "" /\ (~Composite(target) \/ ~MatchesScopedType(w, inline.on))
      THEN Report(w, "Incompatible target type", inline.on)
      ELSE [VisitSelection([w EXCEPT !.scopedType = target], inline.sel)
              EXCEPT !.scopedType = v.scopedType]

VisitSelection(v, sel) ==
  FoldLeft(LAMBDA w, node :
    CASE node.kind = "field" -> VisitField(w, node)
      [] node.kind = "spread" -> VisitFragmentSpread(w, node)
      [] node.kind = "inline" -> VisitInlineFragment(w, node), v, sel)

(***************************************************************************)
(* Definitions and documents.                                              *)
(***************************************************************************)
VisitFragmentDefinitionKeepsFields(v, fragment) ==
  IF fragment.on \notin DOMAIN Types \/ ~Composite(<<fragment.on>>)
  THEN Report(v, "Undefined target type", fragment.name)
  ELSE [VisitSelection([v EXCEPT !.fragmentStack = @ \cup {fragment.name},
                                 !.scopedType = <<fragment.on>>], fragment.sel)
          EXCEPT !.scopedType = <<>>, !.fragmentStack = {}]
VisitFragmentDefinition(v, fragment) ==
  LET w == VisitDirectives(v, "FRAGMENT_DEFINITION", fragment.dirs)
  IN  IF fragment.on \notin DOMAIN Types THEN Report(w, "Undefined target type", fragment.name)
      ELSE IF ~Composite(<<fragment.on>>) THEN Report(w, "Scalar target type", fragment.name)
      ELSE [VisitSelection([w EXCEPT !.fragmentStack = @ \cup {fragment.name},
                                     !.scopedType = <<fragment.on>>], fragment.sel)
              EXCEPT !.scopedType = <<>>, !.fragmentStack = {}, !.selectionFields = <<>>]

IsInputType(type) ==    \* ValidateVariableTypeVisitor
  Last(type) \in DOMAIN Types /\ Types[Last(type)].kind \in {"SCALAR", "ENUM", "INPUT_OBJECT"}
DefaultOf(variable) ==
  CASE variable.default.kind = "absent" -> "none"
    [] variable.default.kind = "null" -> "null"
    [] OTHER -> "value"
VisitVariable(v, variable) ==
  LET checked == IF variable.default.kind = "absent" THEN Pass(v)
                 ELSE InputValue(ArgumentValue(v, variable.default), FALSE,
                                 Parsed(variable.default), variable.type)
  IN  IF variable.name \in DOMAIN v.operationVariables[1]
      THEN Report(v, "Conflicting variable", variable.name)
      ELSE IF ~IsInputType(variable.type) THEN Report(v, "Invalid variable type", variable.name)
      ELSE IF ~checked.ok THEN Report(checked, "Incompatible variable default value", variable.name)
      ELSE [checked EXCEPT
              !.variableDefinitions = @ \cup {variable.name},
              !.operationVariables[1] = With(@, variable.name,
                 [type |-> variable.type, default |-> DefaultOf(variable)])]

Location(op) ==
  CASE op = "mutation" -> "MUTATION" [] op = "subscription" -> "SUBSCRIPTION" [] OTHER -> "QUERY"
SingleRootField(v, op) ==
  IF op.op # "subscription" THEN v
  ELSE ReportIf(ReportIf(v, v.fieldCount > 1, "More than one root field", op.name),
                v.introspectionFieldCount # 0, "Introspection root field", op.name)
Unused(v) ==
  FoldLeft(LAMBDA w, n : Report(w, "Unused variable", n),
           v, Sorted(v.variableDefinitions \ v.referencedVariables))

VisitOperationDefinition(v, op) ==
  LET declared == FoldLeft(VisitVariable, [v EXCEPT !.operationVariables = <<<<>>>>], op.vars)
      directed == VisitDirectives(declared, Location(op.op), op.dirs)
      selected == VisitSelection([directed EXCEPT !.fieldCount = 0, !.introspectionFieldCount = 0,
                                                  !.scopedType = <<OperationTypes[op.op]>>], op.sel)
      left == [SingleRootField(selected, op)
                 EXCEPT !.scopedType = <<>>, !.fragmentStack = {}, !.selectionFields = <<>>]
  IN  IF op.op \notin DOMAIN OperationTypes
      THEN Report(directed, "Unsupported operation type", op.op)
      ELSE [Unused(left) EXCEPT !.operationVariables = NoVariables, !.variableDefinitions = {},
                                !.referencedVariables = {}]

CollectFragment(v, fragment) ==
  LET met == fragment.name \in DOMAIN v.fragmentDefinitions
  IN  [ReportIf(v, met, "Duplicate fragment", fragment.name)
         EXCEPT !.fragmentDefinitions = With(@, fragment.name, fragment)]
CollectOperation(v, op) ==
  [ReportIf(v, op.name \in v.operationDefinitions, "Duplicate operation", op.name)
     EXCEPT !.operationDefinitions = @ \cup {op.name}]
VisitDefinition(v, definition) ==
  CASE definition.kind = "fragment" -> VisitFragmentDefinition(v, definition)
    [] definition.kind = "operation" -> VisitOperationDefinition(v, definition)
    [] OTHER -> Report(v, "Unexpected type definition", "")

OfKind(doc, kind) == SelectSeq(doc, LAMBDA definition : definition.kind = kind)
Visit(v, doc) ==
  LET fragments == FoldLeft(CollectFragment, v, OfKind(doc, "fragment"))
      operations == FoldLeft(CollectOperation, fragments, OfKind(doc, "operation"))
      alone == ReportIf(operations,
                        /\ Cardinality(operations.operationDefinitions) > 1
                        /\ "" \in operations.operationDefinitions,
                        "Anonymous operation not alone", "")
      visited == FoldLeft(VisitDefinition, alone, doc)
  IN  FoldLeft(LAMBDA w, n : Report(w, "Unused fragment definition", n),
               [visited EXCEPT !.fragmentDefinitions = <<>>],
               Sorted(DOMAIN visited.fragmentDefinitions \ visited.referencedFragments))

GetStructuredErrors(v) == v.errors
ResetKeepsCycles(v) ==
  [v EXCEPT !.errors = <<>>, !.fragmentDefinitions = <<>>, !.operationDefinitions = {},
            !.referencedFragments = {}, !.ok = TRUE]
Reset(v) ==    \* what getStructuredErrors clears
  [v EXCEPT !.errors = <<>>, !.fragmentDefinitions = <<>>, !.operationDefinitions = {},
            !.referencedFragments = {}, !.fragmentCycles = {}, !.ok = TRUE]
=============================================================================
