--------------------------- MODULE ClientRequest ---------------------------
(***************************************************************************)
(* What clientgen makes of a request document that it has validated: for   *)
(* each operation the fields of its response, the enums and the input      *)
(* types that it refers to, in an order in which C++ can define them.      *)
(*                                                                         *)
(* A request is [operations, fragments, operationName]: operations are     *)
(* [operation, name, variables, selection], variables [name, type,         *)
(* wrappers, default], wrappers being those of TypeModifiers and default   *)
(* "none", "null" or "value".  Fragments are [name, on, selection]; the    *)
(* operationName is an option of clientgen, <<>> or <<name>>.  A selection *)
(* is a sequence of fields [is, name, response, selection], spreads        *)
(* [is, name] and inline fragments [is, on, selection], on being <<>> or   *)
(* <<type>>.                                                               *)
(***************************************************************************)
EXTENDS Naturals, SequencesExt

Written == INSTANCE TypeModifiers

\* [types, operations]: a type is [kind, fields, inputFields], and
\* a field and an input's field are [name, type, modifiers].
CONSTANT ClientSchema

KindOfType(type) == ClientSchema.types[type].kind
HasFields(type) == KindOfType(type) \in {"object", "interface", "union"}

-----------------------------------------------------------------------------
(* SelectionVisitor: its names are the ones it has seen, its fields those  *)
(* of the response.                                                        *)

NewVisitor == [names |-> {}, fields |-> <<>>]
Seen(visitor, name) == [visitor EXCEPT !.names = @ \cup {name}]
ResponseField(response, field, children) ==
  [name |-> response, type |-> field.type, modifiers |-> field.modifiers, children |-> children]

\* The field of a type by its name, as a sequence of at most one.
FindField(type, name) ==
  IF name = "__typename" THEN <<[name |-> name, type |-> "String", modifiers |-> <<>>]>>
  ELSE IF name = "__type" /\ type = ClientSchema.operations["query"]
  THEN <<[name |-> name, type |-> "__Type", modifiers |-> <<"Nullable">>]>>
  ELSE SelectSeq(ClientSchema.types[type].fields, LAMBDA field : field.name = name)

\* Mutant of MergeFragmentFields: a name may come twice.
MergeAllFields(visitor, fields) == [visitor EXCEPT !.fields = @ \o fields]

MergeFragmentFields(visitor, fields) ==
  [names |-> visitor.names \cup {fields[i].name : i \in DOMAIN fields},
   fields |-> visitor.fields \o SelectSeq(fields, LAMBDA field : field.name \notin visitor.names)]

RECURSIVE FieldsOf(_, _, _)
\* found is FindField of the node.
VisitFound(visitor, node, found, fragments) ==
  IF found = <<>> THEN Seen(visitor, node.response)
  ELSE [Seen(visitor, node.response) EXCEPT !.fields = Append(@,
         ResponseField(node.response, found[1],
           IF HasFields(found[1].type) THEN FieldsOf(node.selection, found[1].type, fragments) ELSE <<>>))]

\* A response name that was visited before is skipped before it is looked up.
VisitField(visitor, node, type, fragments) ==
  IF node.response \in visitor.names THEN visitor
  ELSE VisitFound(visitor, node, FindField(type, node.name), fragments)

VisitFragmentSpread(visitor, node, fragments) ==
  MergeFragmentFields(visitor, FieldsOf(fragments[node.name].selection, fragments[node.name].on, fragments))

VisitInlineFragment(visitor, node, type, fragments) ==
  MergeFragmentFields(visitor, FieldsOf(node.selection, IF node.on = <<>> THEN type ELSE node.on[1], fragments))

FieldsOf(selection, type, fragments) ==
  FoldLeft(LAMBDA visitor, node :
             CASE node.is = "field" -> VisitField(visitor, node, type, fragments)
               [] node.is = "spread" -> VisitFragmentSpread(visitor, node, fragments)
               [] node.is = "inline" -> VisitInlineFragment(visitor, node, type, fragments),
           NewVisitor, selection).fields

-----------------------------------------------------------------------------
(* The types that an operation refers to: the input types and the enums.   *)

Refer(list, type) == IF type \in ToSet(list) THEN list ELSE Append(list, type)

CollectEnums(operation, type) ==
  IF KindOfType(type) = "enum" THEN [operation EXCEPT !.enums = Refer(@, type)] ELSE operation

RECURSIVE CollectInputTypes(_, _)
CollectFields(operation, fields) ==
  FoldLeft(LAMBDA o, field : CollectEnums(CollectInputTypes(o, field.type), field.type), operation, fields)
CollectInputTypes(operation, type) ==
  IF KindOfType(type) # "input" \/ type \in ToSet(operation.inputTypes) THEN operation
  ELSE CollectFields([operation EXCEPT !.inputTypes = Append(@, type)], ClientSchema.types[type].inputFields)

RECURSIVE CollectResponseEnums(_, _)
CollectResponseEnums(operation, field) ==
  IF HasFields(field.type) THEN FoldLeft(CollectResponseEnums, operation, field.children)
  ELSE CollectEnums(operation, field.type)

\* With a modifier, another input need only be declared.
HeldInputs(type, byValue) ==
  LET fields == SelectSeq(ClientSchema.types[type].inputFields,
                          LAMBDA field : KindOfType(field.type) = "input" /\ (field.modifiers = <<>>) = byValue)
  IN  [i \in DOMAIN fields |-> fields[i].type]

\* reorderInputTypeDependencies, like SchemaLoader's (InputOrder).
RECURSIVE Ordered(_, _)
OrderedAfter(ready, others, handled) ==
  IF ready = <<>> THEN <<>> ELSE ready \o Ordered(others, handled \cup ToSet(ready))
Ordered(inputs, handled) ==
  OrderedAfter(SelectSeq(inputs, LAMBDA type : ToSet(HeldInputs(type, TRUE)) \subseteq handled),
               SelectSeq(inputs, LAMBDA type : ~(ToSet(HeldInputs(type, TRUE)) \subseteq handled)), handled)

-----------------------------------------------------------------------------
(* RequestLoader.                                                          *)

\* By its name, the first one, or all operations.
FindOperation(request) ==
  IF request.operationName = <<>> THEN request.operations
  ELSE SubSeq(SelectSeq(request.operations, LAMBDA o : o.name = request.operationName[1]), 1, 1)

GetOperationNamespace(operation) ==
  <<operation.operation,
    IF operation.name = "" THEN [query |-> "Query", mutation |-> "Mutation"][operation.operation] ELSE operation.name>>

\* By name, the first of each.
CollectFragments(request) ==
  LET all == request.fragments
  IN  [name \in {all[i].name : i \in DOMAIN all} |-> SelectSeq(all, LAMBDA fragment : fragment.name = name)[1]]

CollectVariable(definition) ==
  [name |-> definition.name, type |-> definition.type, modifiers |-> Written!VisitType(definition.wrappers)]
CollectVariables(operation) == [i \in DOMAIN operation.variables |-> CollectVariable(operation.variables[i])]

\* An exception that leaves a noexcept function: the program ends.
NullIsRefused(definition) ==
  /\ definition.default = "null"
  /\ CollectVariable(definition).modifiers = <<>> \/ Head(CollectVariable(definition).modifiers) # "Nullable"

\* The types of the variables, then those of the response.
Referring(operation, fields) ==
  FoldLeft(CollectResponseEnums,
           CollectFields([namespace |-> GetOperationNamespace(operation), variables |-> CollectVariables(operation),
                          fields |-> fields, inputTypes |-> <<>>, enums |-> <<>>], CollectVariables(operation)),
           fields)

LoadOperation(operation, fragments) ==
  LET loaded == Referring(operation, FieldsOf(operation.selection, ClientSchema.operations[operation.operation], fragments))
  IN  [loaded EXCEPT !.inputTypes = Ordered(@, {})]

Load(request) ==
  LET found == FindOperation(request)
  IN  [i \in DOMAIN found |-> LoadOperation(found[i], CollectFragments(request))]
=============================================================================
