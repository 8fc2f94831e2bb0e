---------------------------- MODULE BuiltSchema ----------------------------
(***************************************************************************)
(* What SchemaLoader has read is made into a schema::Schema twice: by the  *)
(* code that schemagen generates for the service, and by RequestLoader for *)
(* clientgen, which validates the requests of a client with it.  Both are  *)
(* a sequence of calls that add first the types and then what they have,   *)
(* since types refer to each other.                                        *)
(*                                                                         *)
(* A schema has names in the order they were added, what each type has,    *)
(* and the directives and operations.  A reference to a type is its name.  *)
(* The wrappers of types are in TypeModifiers and SchemaTypes.             *)
(***************************************************************************)
EXTENDS SchemaLoader

EmptySchema ==
  [names |-> <<>>, types |-> EmptyMap, directives |-> <<>>, operations |-> EmptyMap, thrown |-> FALSE]
NewBaseType(kind) ==
  [kind |-> kind, fields |-> <<>>, interfaces |-> <<>>, possibleTypes |-> <<>>, enumValues |-> <<>>, inputFields |-> <<>>]

-----------------------------------------------------------------------------
(* The calls.                                                              *)

AddType(schema, name, kind) ==
  [schema EXCEPT !.names = Append(@, name), !.types = With(@, name, NewBaseType(kind))]

AddPossibleType(schema, name, possibleType) ==
  [schema EXCEPT !.types[name].possibleTypes = Append(@, possibleType)]

\* Of objects and interfaces.
AddInterfaces(schema, name, interfaces) ==
  FoldLeft(LAMBDA s, interface : AddPossibleType(s, interface, name),
           [schema EXCEPT !.types[name].interfaces = interfaces], interfaces)

ArgumentTypes(arguments) == {arguments[i].type : i \in DOMAIN arguments}

\* The names that the arguments of a call are made from: LookupType throws if
\* it does not know one.
LookedUp(call) ==
  CASE call.add \in {"InputValues", "Directive"} -> ArgumentTypes(call.members)
    [] call.add = "Fields" ->
         UNION {{call.members[i].type} \cup ArgumentTypes(call.members[i].arguments) : i \in DOMAIN call.members}
    [] call.add \in {"PossibleTypes", "Interfaces"} -> ToSet(call.members)
    [] OTHER -> {}

Added(schema, call) ==
  CASE call.add = "Type" -> AddType(schema, call.name, call.members)
    [] call.add = "EnumValues" -> [schema EXCEPT !.types[call.name].enumValues = call.members]
    [] call.add = "InputValues" -> [schema EXCEPT !.types[call.name].inputFields = call.members]
    [] call.add = "Fields" -> [schema EXCEPT !.types[call.name].fields = call.members]
    [] call.add = "PossibleTypes" -> [schema EXCEPT !.types[call.name].possibleTypes = call.members]
    [] call.add = "Interfaces" -> AddInterfaces(schema, call.name, call.members)
    [] call.add = "Directive" ->
         [schema EXCEPT !.directives = Append(@, [name |-> call.name, arguments |-> call.members])]
    [] call.add = "OperationType" -> [schema EXCEPT !.operations = With(@, call.members, call.name)]

Apply(schema, call) ==
  IF schema.thrown THEN schema
  ELSE IF LookedUp(call) \subseteq DOMAIN schema.types THEN Added(schema, call)
  ELSE [schema EXCEPT !.thrown = TRUE]

Built(calls) == FoldLeft(Apply, EmptySchema, calls)

LOCAL Call(add, name, members) == [add |-> add, name |-> name, members |-> members]

-----------------------------------------------------------------------------
(* Who calls.                                                              *)

\* The introspection's own schema is added to every schema before, and has
\* the built-in types; its other types are left out.
AddBuiltins == SetToSeq({Call("Type", name, "scalar") : name \in Builtins})

AddTypes(kind) == [i \in DOMAIN types[kind] |-> Call("Type", types[kind][i].name, kind)]
AddEnumValues == [i \in DOMAIN types["enum"] |-> Call("EnumValues", types["enum"][i].name, types["enum"][i].members)]
AddInputValues ==
  [i \in DOMAIN types["input"] |-> Call("InputValues", types["input"][i].name, types["input"][i].members)]

NamesOf(members) == [j \in DOMAIN members |-> members[j].name]
AddUnionDetails ==
  [i \in DOMAIN types["union"] |-> Call("PossibleTypes", types["union"][i].name, NamesOf(types["union"][i].members))]

AddFields(kind) == [i \in DOMAIN types[kind] |-> Call("Fields", types[kind][i].name, types[kind][i].members)]
AddInterfaceNames(kind) ==
  [i \in DOMAIN types[kind] |-> Call("Interfaces", types[kind][i].name, types[kind][i].interfaces)]
AddDetails(kind) ==
  FlattenSeq([i \in DOMAIN types[kind] |-> <<AddInterfaceNames(kind)[i], AddFields(kind)[i]>>])

AddDirectives == [i \in DOMAIN directives |-> Call("Directive", directives[i].name, directives[i].arguments)]
AddOperationTypes ==
  [i \in DOMAIN operationTypes |-> Call("OperationType", operationTypes[i].name, operationTypes[i].operation)]

GeneratedTypes ==
  AddTypes("scalar") \o AddTypes("enum") \o AddTypes("input")
    \o AddTypes("interface") \o AddTypes("union") \o AddTypes("object")
GeneratedDetails ==
  AddEnumValues \o AddInputValues \o AddDetails("interface") \o AddUnionDetails \o AddDetails("object")

\* GetSchema, with the code of AddTypesToSchema.
GeneratedSchema ==
  Built(AddBuiltins \o GeneratedTypes \o GeneratedDetails
        \o AddDirectives \o (IF isIntrospection THEN <<>> ELSE AddOperationTypes))

RequestedTypes ==
  AddTypes("scalar") \o AddTypes("enum") \o AddTypes("input")
    \o AddTypes("union") \o AddTypes("interface") \o AddTypes("object")

\* addTypesToSchema says nothing of the interfaces of interfaces.
RequestedDetails ==
  AddEnumValues \o AddInputValues \o AddUnionDetails \o AddFields("interface") \o AddDetails("object")

RequestedSchema ==
  Built(AddBuiltins \o RequestedTypes \o RequestedDetails \o AddDirectives \o AddOperationTypes)

-----------------------------------------------------------------------------
(* What is read of a schema: by introspection, a list or <<>> for null, by *)
(* validation, and by the generated code of an object.                     *)

Current(members, includeDeprecated) ==
  SelectSeq(members, LAMBDA member : includeDeprecated \/ ~member.deprecated)

GetFields(type, includeDeprecated) ==
  IF type.kind \in {"object", "interface"} THEN <<Current(type.fields, includeDeprecated)>> ELSE <<>>
GetInterfaces(type) == IF type.kind = "object" THEN <<type.interfaces>> ELSE <<>>

\* Mutant of GetPossibleTypes: with the interfaces among them.
GetAllPossibleTypes(schema, type) ==
  IF type.kind \in {"interface", "union"} THEN <<type.possibleTypes>> ELSE <<>>

GetPossibleTypes(schema, type) ==
  IF type.kind \in {"interface", "union"}
  THEN <<SelectSeq(type.possibleTypes, LAMBDA name : schema.types[name].kind = "object")>>
  ELSE <<>>
GetEnumValues(type, includeDeprecated) ==
  IF type.kind = "enum" THEN <<Current(type.enumValues, includeDeprecated)>> ELSE <<>>
GetInputFields(type) == IF type.kind = "input" THEN <<type.inputFields>> ELSE <<>>

GetOperationType(schema, operation) ==
  IF operation \in DOMAIN schema.operations THEN <<schema.operations[operation]>> ELSE <<>>

\* The validator's _matchingTypes.
MatchingTypes(schema, name) ==
  LET type == schema.types[name]
  IN  (IF type.kind \in {"object", "interface"} THEN {name} ELSE {})
        \cup (IF type.kind \in {"interface", "union"} THEN ToSet(type.possibleTypes) ELSE {})

\* By which the fragments of a request apply to an object.
GetTypeNames(object) == ToSet(object.interfaces) \cup ToSet(object.unions) \cup {object.name}

-----------------------------------------------------------------------------
NamesUnique ==
  \A i, j \in DOMAIN document :
    i # j /\ document[i].kind # "schema" /\ ~document[i].extends /\ ~document[j].extends =>
      document[i].name # document[j].name

ArgumentsOf(i) ==
  IF document[i].kind \in TypeKinds THEN InputFieldsOf(document[i].kind, WholeMembers(i))
  ELSE InputFieldsOf(document[i].kind, document[i].members)

\* SchemaLoader does not look at all of them.
ArgumentTypesKnown ==
  \A i \in DOMAIN document :
    ~document[i].extends => {f.type : f \in ArgumentsOf(i)} \subseteq Defined \cup Builtins

\* What introspection should say of the type that a definition is about.
Signature(members) ==
  [j \in DOMAIN members |-> <<members[j].name, members[j].type,
     [k \in DOMAIN members[j].arguments |-> <<members[j].arguments[k].name, members[j].arguments[k].type>>]>>]

Shows(schema, i) ==
  LET name == document[i].name
      kind == document[i].kind
      type == schema.types[name]
      objects == {document[j].name : j \in {k \in Definitions("object") : name \in ToSet(WholeInterfaces(k))}}
      visible == SelectSeq(WholeMembers(i), LAMBDA member : ~member.deprecated)
  IN  /\ type.kind = kind
      /\ kind \in {"object", "interface"} =>
           /\ Signature(GetFields(type, FALSE)[1]) = Signature(visible)
           /\ Signature(GetFields(type, TRUE)[1]) = Signature(WholeMembers(i))
      /\ kind = "object" => GetInterfaces(type) = <<WholeInterfaces(i)>>
      /\ kind = "interface" => ToSet(GetPossibleTypes(schema, type)[1]) = objects
      /\ kind = "union" => GetPossibleTypes(schema, type) = <<NamesOf(WholeMembers(i))>>
      /\ kind = "enum" => GetEnumValues(type, FALSE) = <<visible>> /\ GetEnumValues(type, TRUE) = <<WholeMembers(i)>>
      /\ kind = "input" => NamesOf(GetInputFields(type)[1]) = NamesOf(WholeMembers(i))

ObjectNames == {types["object"][i].name : i \in DOMAIN types["object"]}

\* By its default name if no operation is named.
ShowsOperation(schema, operation, default) ==
  LET named == SelectSeq(Operations, LAMBDA o : o.operation = operation)
  IN  GetOperationType(schema, operation) =
        IF Operations = <<>> THEN IF default \in DefinedNames("object") THEN <<default>> ELSE <<>>
        ELSE IF named = <<>> THEN <<>> ELSE <<named[Len(named)].name>>

\* A fragment that validation lets pass for an object is applied to it, and
\* the validator of clientgen knows the same objects by each name.
FragmentsFit(generated, requested) ==
  \A name \in DOMAIN generated.types :
    /\ MatchingTypes(generated, name) \cap ObjectNames =
         {types["object"][i].name : i \in {j \in DOMAIN types["object"] : name \in GetTypeNames(types["object"][j])}}
    /\ MatchingTypes(generated, name) \cap ObjectNames = MatchingTypes(requested, name) \cap ObjectNames

SameForValidation(generated, requested) ==
  /\ ToSet(generated.names) = ToSet(requested.names)
  /\ \A name \in DOMAIN generated.types :
       [generated.types[name] EXCEPT !.interfaces = <<>>, !.possibleTypes = <<>>] =
         [requested.types[name] EXCEPT !.interfaces = <<>>, !.possibleTypes = <<>>]
  /\ generated.directives = requested.directives
  /\ generated.operations = requested.operations

\* Of a document that is loaded and has no name twice, the generated code
\* builds a schema, unless an argument that SchemaLoader did not look at has
\* no type, and introspection shows of it what the document says; clientgen
\* builds one that has the same names for its requests (AddTypesToSchema,
\* GetSchema, Schema.cpp, Introspection.cpp, RequestLoader::addTypesToSchema).
SchemaIsShown ==
  phase = "loaded" /\ NamesUnique =>
    LET generated == GeneratedSchema
        requested == RequestedSchema
    IN  /\ generated.thrown = ~ArgumentTypesKnown /\ requested.thrown = ~ArgumentTypesKnown
        /\ ~generated.thrown =>
             /\ \A kind \in TypeKinds : \A i \in Definitions(kind) : Shows(generated, i)
             /\ FragmentsFit(generated, requested)
             /\ isIntrospection \/ SameForValidation(generated, requested)
             /\ isIntrospection \/
                  /\ ShowsOperation(generated, "query", "Query")
                  /\ ShowsOperation(generated, "mutation", "Mutation")
                  /\ ShowsOperation(generated, "subscription", "Subscription")
             /\ NamesOf(generated.directives) = NamesOf(SelectSeq(document, LAMBDA d : d.kind = "directive"))
=============================================================================
