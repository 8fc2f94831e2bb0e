---------------------------- MODULE SchemaLoader ----------------------------
(***************************************************************************)
(* SchemaLoader reads the definitions of a schema document, then all its   *)
(* extensions, into a list of types for each kind and into maps from names *)
(* to kinds and to places in the lists.  validateSchema then resolves the  *)
(* names that types refer to each other by, in several passes, the first   *)
(* of which to find a mistake throws.                                      *)
(*                                                                         *)
(* A definition has a kind, a name, says if it extends one, and has lists  *)
(* of interfaces and of members.  Members are                              *)
(*   of an object or an interface [name, type, arguments, deprecated,      *)
(*   fieldType, interfaceField, inherited, accessor],                      *)
(*   of an input and a directive, like arguments, [name, type, nullable,   *)
(*   list, default, fieldType], default being "none", "null", "value" or   *)
(*   "variable",                                                           *)
(*   of a union [name], of an enum [name, deprecated], of a scalar [name], *)
(*   which is the URL that specifies it,                                   *)
(*   of a schema [operation, name].                                        *)
(* A fieldType is "Builtin" until the passes set it to the type's kind.    *)
(***************************************************************************)
EXTENDS InputOrder, SequencesExt

CONSTANTS
  Documents,        \* sequences of definitions
  Builtins,         \* s_builtinTypes
  ReservedNames,    \* that start with __
  Introspections    \* if the schema may be that of the introspection, or not

VARIABLES
  document, isIntrospection,
  phase,            \* of the constructor
  current,          \* the definition it visits
  schemaTypes,      \* _schemaTypes
  indices,          \* by kind, _objectNames and its like
  types,            \* by kind, _objectTypes and its like
  operationTypes,   \* _operationTypes
  directives        \* _directives

schemaVars == <<schemaTypes, indices, types, operationTypes, directives>>
loaderVars == <<document, isIntrospection, phase, current, schemaVars, orderVars>>

TypeKinds == {"scalar", "enum", "input", "union", "interface", "object"}
EmptyMap == [name \in {} |-> 0]
LastOf(list) == IF list = <<>> THEN <<>> ELSE <<Last(list)>>
With(map, name, value) == [n \in DOMAIN map \cup {name} |-> IF n = name THEN value ELSE map[n]]

NoSchema ==
  /\ schemaTypes = EmptyMap
  /\ indices = [kind \in TypeKinds |-> EmptyMap]
  /\ types = [kind \in TypeKinds |-> <<>>]
  /\ operationTypes = <<>>
  /\ directives = <<>>

LoaderInit ==
  /\ document \in Documents /\ isIntrospection \in Introspections
  /\ phase = "definitions" /\ current = 1
  /\ NoSchema /\ OrderInit

\* An exception leaves the constructor.
Throw == phase' = "error" /\ UNCHANGED <<document, isIntrospection, current, schemaVars, orderVars>>

GoTo(next) == phase' = next /\ UNCHANGED <<document, isIntrospection, current>>

-----------------------------------------------------------------------------
(* The definitions and the extensions.                                     *)

BlockReservedName(name) == ~isIntrospection /\ name \in ReservedNames

BadDefault(field) == field.default = "variable" \/ (field.default = "null" /\ ~field.nullable)

\* Reading the members throws, or the check of their names after that; the
\* names of unions' objects and of enum values are not checked.
BadInputs(members) == \E field \in ToSet(members) : BadDefault(field) \/ BlockReservedName(field.name)
BadFields(members) == \E field \in ToSet(members) : BlockReservedName(field.name) \/ BadInputs(field.arguments)

\* Of a scalar the last URL is kept.
Extended(entry, definition) ==
  [entry EXCEPT !.interfaces = @ \o definition.interfaces,
                !.members = IF definition.kind # "scalar" THEN @ \o definition.members
                            ELSE LastOf(@ \o definition.members)]

NewType(definition) ==
  [name |-> definition.name, interfaces |-> <<>>, members |-> <<>>, unions |-> <<>>]

DefineType(definition, throws) ==
  LET kind == definition.kind
  IN  IF BlockReservedName(definition.name) \/ throws THEN Throw
      ELSE /\ schemaTypes' = With(schemaTypes, definition.name, kind)
           /\ indices' = [indices EXCEPT ![kind] = With(@, definition.name, Len(types[kind]) + 1)]
           /\ types' = [types EXCEPT ![kind] = Append(@, Extended(NewType(definition), definition))]
           /\ current' = current + 1
           /\ UNCHANGED <<document, isIntrospection, phase, operationTypes, directives, orderVars>>

\* Mutant of Extension: what it has comes first.
ExtendedFirst(kind, index, definition) ==
  [types EXCEPT ![kind][index].interfaces = @ \o definition.interfaces, ![kind][index].members = definition.members \o @]

Extension(kind, index, definition) == [types EXCEPT ![kind][index] = Extended(@, definition)]

\* What extends no definition is skipped.
ExtendType(definition, throws) ==
  LET kind == definition.kind
      known == definition.name \in DOMAIN indices[kind]
  IN  IF BlockReservedName(definition.name) \/ (known /\ throws) THEN Throw
      ELSE /\ types' = IF known THEN Extension(kind, indices[kind][definition.name], definition) ELSE types
           /\ current' = current + 1
           /\ UNCHANGED <<document, isIntrospection, phase, schemaTypes, indices, operationTypes, directives, orderVars>>

VisitObjectTypeDefinition(definition) == DefineType(definition, BadFields(definition.members))
VisitObjectTypeExtension(definition) == ExtendType(definition, BadFields(definition.members))
VisitInterfaceTypeDefinition(definition) == DefineType(definition, BadFields(definition.members))
VisitInterfaceTypeExtension(definition) == ExtendType(definition, BadFields(definition.members))
VisitInputObjectTypeDefinition(definition) == DefineType(definition, BadInputs(definition.members))
VisitInputObjectTypeExtension(definition) == ExtendType(definition, BadInputs(definition.members))
VisitEnumTypeDefinition(definition) == DefineType(definition, FALSE)
VisitEnumTypeExtension(definition) == ExtendType(definition, FALSE)
VisitScalarTypeDefinition(definition) == DefineType(definition, FALSE)
VisitScalarTypeExtension(definition) == ExtendType(definition, FALSE)
VisitUnionTypeDefinition(definition) == DefineType(definition, FALSE)
VisitUnionTypeExtension(definition) == ExtendType(definition, FALSE)

VisitSchema(definition) ==
  /\ operationTypes' = operationTypes \o definition.members
  /\ current' = current + 1
  /\ UNCHANGED <<document, isIntrospection, phase, schemaTypes, indices, types, directives, orderVars>>

VisitDirective(definition) ==
  IF BlockReservedName(definition.name) \/ BadInputs(definition.members) THEN Throw
  ELSE /\ directives' = Append(directives, [name |-> definition.name, arguments |-> definition.members])
       /\ current' = current + 1
       /\ UNCHANGED <<document, isIntrospection, phase, schemaTypes, indices, types, operationTypes, orderVars>>

\* Any other is an executable definition.
VisitDefinition ==
  /\ phase \in {"definitions", "extensions"} /\ current <= Len(document)
  /\ LET definition == document[current]
     IN  IF definition.extends # (phase = "extensions")
         THEN current' = current + 1 /\ UNCHANGED <<document, isIntrospection, phase, schemaVars, orderVars>>
         ELSE \/ definition.kind = "scalar" /\ ~definition.extends /\ VisitScalarTypeDefinition(definition)
              \/ definition.kind = "scalar" /\ definition.extends /\ VisitScalarTypeExtension(definition)
              \/ definition.kind = "enum" /\ ~definition.extends /\ VisitEnumTypeDefinition(definition)
              \/ definition.kind = "enum" /\ definition.extends /\ VisitEnumTypeExtension(definition)
              \/ definition.kind = "input" /\ ~definition.extends /\ VisitInputObjectTypeDefinition(definition)
              \/ definition.kind = "input" /\ definition.extends /\ VisitInputObjectTypeExtension(definition)
              \/ definition.kind = "union" /\ ~definition.extends /\ VisitUnionTypeDefinition(definition)
              \/ definition.kind = "union" /\ definition.extends /\ VisitUnionTypeExtension(definition)
              \/ definition.kind = "interface" /\ ~definition.extends /\ VisitInterfaceTypeDefinition(definition)
              \/ definition.kind = "interface" /\ definition.extends /\ VisitInterfaceTypeExtension(definition)
              \/ definition.kind = "object" /\ ~definition.extends /\ VisitObjectTypeDefinition(definition)
              \/ definition.kind = "object" /\ definition.extends /\ VisitObjectTypeExtension(definition)
              \/ definition.kind = "schema" /\ VisitSchema(definition)
              \/ definition.kind = "directive" /\ VisitDirective(definition)
              \/ definition.kind = "query" /\ Throw

EndPass ==
  /\ phase \in {"definitions", "extensions"} /\ current > Len(document)
  /\ phase' = IF phase = "definitions" THEN "extensions" ELSE "builtins"
  /\ current' = 1
  /\ UNCHANGED <<document, isIntrospection, schemaVars, orderVars>>

-----------------------------------------------------------------------------
(* validateSchema.                                                         *)

ValidateBuiltins ==
  /\ phase = "builtins"
  /\ IF DOMAIN schemaTypes \cap Builtins # {} THEN Throw
     ELSE GoTo("inputs") /\ UNCHANGED <<schemaVars, orderVars>>

InputKinds == {"scalar", "enum", "input"}
OutputKinds == TypeKinds \ {"input"}

\* fixupInputFieldList throws, or else sets the types of the fields.
BadInputFields(fields) ==
  \E i \in DOMAIN fields :
    /\ fields[i].type \notin Builtins
    /\ fields[i].type \notin DOMAIN schemaTypes \/ schemaTypes[fields[i].type] \notin InputKinds

FieldType(field) == IF field.type \in Builtins THEN field.fieldType ELSE schemaTypes[field.type]

FixedInputFields(fields) == [i \in DOMAIN fields |-> [fields[i] EXCEPT !.fieldType = FieldType(fields[i])]]

\* Whoever holds another input by value depends on it.
OrderEntry(entry, index) ==
  LET held == SelectSeq(entry.members, LAMBDA field : field.fieldType = "input" /\ ~field.nullable /\ ~field.list)
  IN  [type |-> entry.name, dependencies |-> {held[i].type : i \in DOMAIN held}, origin |-> index]

FixupInputs ==
  /\ phase = "inputs"
  /\ IF \E i \in DOMAIN types["input"] : BadInputFields(types["input"][i].members) THEN Throw
     ELSE LET fixed == [i \in DOMAIN types["input"] |->
                         [types["input"][i] EXCEPT !.members = FixedInputFields(@)]]
          IN  /\ types' = [types EXCEPT !["input"] = fixed]
              /\ StartOrder([i \in DOMAIN fixed |-> OrderEntry(fixed[i], i)])
              /\ GoTo("order")
              /\ UNCHANGED <<schemaTypes, indices, operationTypes, directives>>

ReorderInputs ==
  /\ phase = "order"
  /\ Partition \/ EndOrder
  /\ phase' = CASE order' = "running" -> "order" [] order' = "cycle" -> "error" [] OTHER -> "interfaces"
  /\ types' = IF order' # "ordered" THEN types
              ELSE [types EXCEPT !["input"] = [i \in DOMAIN @ |-> @[inputTypes[i].origin]]]
  /\ UNCHANGED <<document, isIntrospection, current, schemaTypes, indices, operationTypes, directives>>

\* Mutant of ImplementsTransitively: nothing is said of a type that implements itself.
ImplementsInherited(entry) ==
  UNION {ToSet(types["interface"][indices["interface"][name]].interfaces) : name \in ToSet(entry.interfaces)}
    \subseteq ToSet(entry.interfaces)

\* validateTransitiveInterfaces does not throw.
ImplementsTransitively(entry) ==
  LET found == {types["interface"][indices["interface"][name]] : name \in ToSet(entry.interfaces)}
      inherited == UNION {ToSet(interface.interfaces) : interface \in found}
  IN  /\ entry.name \notin ToSet(entry.interfaces) \cup inherited
      /\ inherited \subseteq ToSet(entry.interfaces)

MemberNames(entry) == {entry.members[i].name : i \in DOMAIN entry.members}

ImplementsFields(entry) ==
  \A name \in ToSet(entry.interfaces) :
    MemberNames(types["interface"][indices["interface"][name]]) \subseteq MemberNames(entry)

ValidateInterfaces ==
  /\ phase = "interfaces"
  /\ IF \A kind \in {"interface", "object"} : \A i \in DOMAIN types[kind] :
          LET entry == types[kind][i]
          IN  /\ ToSet(entry.interfaces) \subseteq DOMAIN indices["interface"]
              /\ ImplementsTransitively(entry)
              /\ ImplementsFields(entry)
     THEN GoTo("interface fields") /\ UNCHANGED <<schemaVars, orderVars>>
     ELSE Throw

\* fixupOutputFieldList throws.  A field of a builtin type is left at once,
\* and its arguments are not looked at.
BadOutputFields(kind) ==
  \E i \in DOMAIN types[kind] : \E j \in DOMAIN types[kind][i].members :
    LET field == types[kind][i].members[j]
    IN  /\ field.type \notin Builtins
        /\ \/ field.type \notin DOMAIN schemaTypes
           \/ schemaTypes[field.type] \notin OutputKinds
           \/ BadInputFields(field.arguments)

FixedOutputField(field, isInterface, inherited, accessor) ==
  [field EXCEPT !.interfaceField = isInterface,
                !.inherited = field.name \in inherited,
                !.accessor = accessor,
                !.fieldType = FieldType(field),
                !.arguments = IF field.type \in Builtins THEN @ ELSE FixedInputFields(@)]

FixedOutputFields(entry, isInterface, inherited, accessor) ==
  [entry EXCEPT !.members = [i \in DOMAIN @ |-> FixedOutputField(@[i], isInterface, inherited, accessor)]]

FixupInterfaces ==
  /\ phase = "interface fields"
  /\ IF BadOutputFields("interface") THEN Throw
     ELSE /\ types' = [types EXCEPT !["interface"] =
                        [i \in DOMAIN @ |-> FixedOutputFields(@[i], TRUE, {}, "get")]]
          /\ GoTo("operations")
          /\ UNCHANGED <<schemaTypes, indices, operationTypes, directives, orderVars>>

DefaultOperations ==
  SelectSeq(<<[operation |-> "query", name |-> "Query"], [operation |-> "mutation", name |-> "Mutation"],
              [operation |-> "subscription", name |-> "Subscription"]>>,
            LAMBDA default : default.name \in DOMAIN indices["object"])

ValidateOperations ==
  /\ phase = "operations"
  /\ LET operations == IF operationTypes = <<>> THEN DefaultOperations ELSE operationTypes
     IN  IF isIntrospection
         THEN IF operationTypes # <<>> THEN Throw ELSE GoTo("object fields") /\ UNCHANGED <<schemaVars, orderVars>>
         ELSE IF /\ \A i \in DOMAIN operations : operations[i].name \in DOMAIN indices["object"]
                 /\ \E i \in DOMAIN operations : operations[i].operation = "query"
         THEN /\ operationTypes' = operations
              /\ GoTo("object fields")
              /\ UNCHANGED <<schemaTypes, indices, types, directives, orderVars>>
         ELSE Throw

\* Mutant of InterfaceFields: those of the first interface.
InterfaceFieldsOfFirst(entry) ==
  IF entry.interfaces = <<>> THEN {}
  ELSE MemberNames(types["interface"][indices["interface"][Head(entry.interfaces)]])

InterfaceFields(entry) ==
  UNION {MemberNames(types["interface"][indices["interface"][name]]) :
    name \in ToSet(entry.interfaces) \cap DOMAIN indices["interface"]}

\* The fields of the first mutation are not read but applied.
Accessor(entry) ==
  LET mutations == SelectSeq(operationTypes, LAMBDA operation : operation.operation = "mutation")
  IN  IF mutations # <<>> /\ mutations[1].name = entry.name THEN "apply" ELSE "get"

FixupObjects ==
  /\ phase = "object fields"
  /\ IF BadOutputFields("object") THEN Throw
     ELSE /\ types' = [types EXCEPT !["object"] = [i \in DOMAIN @ |->
                        FixedOutputFields(@[i], FALSE, InterfaceFields(@[i]), Accessor(@[i]))]]
          /\ GoTo("unions")
          /\ UNCHANGED <<schemaTypes, indices, operationTypes, directives, orderVars>>

\* By object, the unions that name it.
UnionsOf(index) ==
  LET unions == types["union"]
      Naming(union) == SelectSeq(union.members, LAMBDA option : indices["object"][option.name] = index)
  IN  FlattenSeq([i \in DOMAIN unions |-> [j \in DOMAIN Naming(unions[i]) |-> unions[i].name]])

ValidateUnions ==
  /\ phase = "unions"
  /\ IF \E i \in DOMAIN types["union"] : ~(MemberNames(types["union"][i]) \subseteq DOMAIN indices["object"])
     THEN Throw
     ELSE /\ types' = [types EXCEPT !["object"] =
                        [i \in DOMAIN @ |-> [@[i] EXCEPT !.unions = UnionsOf(i)]]]
          /\ GoTo("loaded")
          /\ UNCHANGED <<schemaTypes, indices, operationTypes, directives, orderVars>>

LoaderNext ==
  \/ VisitDefinition \/ EndPass
  \/ ValidateBuiltins \/ FixupInputs \/ ReorderInputs
  \/ ValidateInterfaces \/ FixupInterfaces \/ ValidateOperations \/ FixupObjects \/ ValidateUnions

LoaderSpec == LoaderInit /\ [][LoaderNext]_loaderVars /\ WF_loaderVars(LoaderNext)

-----------------------------------------------------------------------------
(* What a document says.                                                   *)

Definitions(kind) == {i \in DOMAIN document : document[i].kind = kind /\ ~document[i].extends}
DefinedNames(kind) == {document[i].name : i \in Definitions(kind)}
Defined == UNION {DefinedNames(kind) : kind \in TypeKinds}

\* Of definitions with one name the last is found by it.
Latest(kind, name) == Max({i \in Definitions(kind) : document[i].name = name})
KindOf(name) ==
  document[Max({i \in DOMAIN document : document[i].name = name /\ document[i].kind \in TypeKinds
                                        /\ ~document[i].extends})].kind

\* A definition with its extensions, in the order of the document.
ExtensionsOf(i) ==
  IF i = Latest(document[i].kind, document[i].name)
  THEN SelectSeq(document, LAMBDA d : d.extends /\ d.kind = document[i].kind /\ d.name = document[i].name)
  ELSE <<>>
WholeMembers(i) ==
  FoldLeft(LAMBDA members, extension : members \o extension.members, document[i].members, ExtensionsOf(i))
SpecifiedBy(i) == IF WholeMembers(i) = <<>> THEN <<>> ELSE <<Last(WholeMembers(i))>>
WholeInterfaces(i) ==
  FoldLeft(LAMBDA names, extension : names \o extension.interfaces, document[i].interfaces, ExtensionsOf(i))

\* Of fields, the ones that are like arguments.
InputFieldsOf(kind, members) ==
  CASE kind \in {"input", "directive"} -> ToSet(members)
    [] kind \in {"object", "interface"} -> UNION {ToSet(members[i].arguments) : i \in DOMAIN members}
    [] OTHER -> {}

\* All definitions of types, with what extends them.
Implemented(name) ==
  IF name \in DefinedNames("interface") THEN ToSet(WholeInterfaces(Latest("interface", name))) ELSE {}
RECURSIVE Ancestors(_, _)
Ancestors(names, depth) ==
  IF depth = 0 THEN names ELSE Ancestors(names \cup UNION {Implemented(name) : name \in names}, depth - 1)

ReservedIn(kind, members) ==
  {m \in ReservedNames : \E f \in InputFieldsOf(kind, members) : f.name = m}
    \cup (IF kind \in {"object", "interface"} THEN ReservedNames \cap {members[i].name : i \in DOMAIN members} ELSE {})

NamesAllowed ==
  /\ \A i \in DOMAIN document : document[i].kind # "schema" => document[i].name \notin ReservedNames
  /\ \A kind \in TypeKinds : \A i \in Definitions(kind) : ReservedIn(kind, WholeMembers(i)) = {}
  /\ \A i \in Definitions("directive") : ReservedIn("directive", document[i].members) = {}

DefaultsAllowed ==
  \A kind \in TypeKinds \cup {"directive"} : \A i \in Definitions(kind) :
    LET members == IF kind = "directive" THEN document[i].members ELSE WholeMembers(i)
    IN  \A f \in InputFieldsOf(kind, members) : ~BadDefault(f)

IsInputType(name) == name \in Builtins \/ (name \in Defined /\ KindOf(name) \in InputKinds)
IsOutputType(name) == name \in Builtins \/ (name \in Defined /\ KindOf(name) \in OutputKinds)

\* Arguments of a field with a builtin type may be of any type.
ReferencesKnown ==
  /\ \A f \in UNION {ToSet(WholeMembers(i)) : i \in Definitions("input")} : IsInputType(f.type)
  /\ \A kind \in {"interface", "object"} : \A i \in Definitions(kind) : \A j \in DOMAIN WholeMembers(i) :
       LET field == WholeMembers(i)[j]
       IN  /\ IsOutputType(field.type)
           /\ field.type \in Builtins \/ \A k \in DOMAIN field.arguments : IsInputType(field.arguments[k].type)
  /\ \A i \in Definitions("union") : \A j \in DOMAIN WholeMembers(i) :
       WholeMembers(i)[j].name \in DefinedNames("object")

\* No input, looked at as a value, has itself in it.
HeldByValue(i) ==
  {f.type : f \in {m \in ToSet(WholeMembers(i)) : ~m.nullable /\ ~m.list /\ m.type \in Defined}}
    \cap DefinedNames("input")
InputsFinite ==
  \A cyclic \in SUBSET Definitions("input") :
    cyclic # {} =>
      \E i \in cyclic : \A name \in HeldByValue(i) : \E j \in Definitions("input") \ cyclic : document[j].name = name

InterfacesImplemented ==
  \A kind \in {"interface", "object"} : \A i \in Definitions(kind) :
    LET implemented == ToSet(WholeInterfaces(i))
        fields == {WholeMembers(i)[j].name : j \in DOMAIN WholeMembers(i)}
    IN  /\ implemented \subseteq DefinedNames("interface")
        /\ Ancestors(implemented, Cardinality(Definitions("interface"))) \subseteq implemented \ {document[i].name}
        /\ \A name \in implemented :
             {f.name : f \in ToSet(WholeMembers(Latest("interface", name)))} \subseteq fields

\* Extensions of a schema add operations, and so does a second schema.
Operations ==
  LET Of(extends) ==
        FlattenSeq([i \in DOMAIN document |->
          IF document[i].kind = "schema" /\ document[i].extends = extends THEN document[i].members ELSE <<>>])
  IN  Of(FALSE) \o Of(TRUE)
OperationsDefined ==
  IF isIntrospection THEN Operations = <<>>
  ELSE /\ \A i \in DOMAIN Operations : Operations[i].name \in DefinedNames("object")
       /\ IF Operations = <<>> THEN "Query" \in DefinedNames("object")
          ELSE \E i \in DOMAIN Operations : Operations[i].operation = "query"

Valid ==
  /\ \A i \in DOMAIN document : document[i].kind # "query"
  /\ isIntrospection \/ NamesAllowed
  /\ DefaultsAllowed
  /\ Defined \cap Builtins = {}
  /\ ReferencesKnown /\ InputsFinite /\ InterfacesImplemented /\ OperationsDefined

-----------------------------------------------------------------------------
\* SchemaLoader reads a document if and only if it is valid as a whole, though
\* it looks at names when they may not all be known, and at interfaces only
\* two levels deep.
LoadsTheValid ==
  /\ phase = "loaded" => Valid
  /\ phase = "error" => ~Valid

SameElements(s, t) ==
  \A x \in ToSet(s) \cup ToSet(t) :
    Cardinality({i \in DOMAIN s : s[i] = x}) = Cardinality({i \in DOMAIN t : t[i] = x})

\* Every type has the members of its definition and of all its extensions, in
\* the order of the document, wherever its extensions are.
TypesAsDocumented ==
  phase = "loaded" =>
    \A kind \in TypeKinds :
      LET defined == SelectSeq([i \in DOMAIN document |-> i], LAMBDA i : i \in Definitions(kind))
          names(entry) == [j \in DOMAIN entry |-> entry[j].name]
          documented == [i \in DOMAIN defined |->
            <<document[defined[i]].name, names(IF kind = "scalar" THEN SpecifiedBy(defined[i]) ELSE WholeMembers(defined[i])),
              WholeInterfaces(defined[i])>>]
          loaded == [i \in DOMAIN types[kind] |->
            <<types[kind][i].name, names(types[kind][i].members), types[kind][i].interfaces>>]
      IN  IF kind = "input" THEN SameElements(loaded, documented) ELSE loaded = documented

\* An object's field is inherited if and only if an interface, of its own or
\* of one of those, has it too, and every object knows the unions it is in.
ObjectsKnowTheirTypes ==
  phase = "loaded" =>
    \A i \in DOMAIN types["object"] :
      LET object == types["object"][i]
          ancestors == Ancestors(ToSet(object.interfaces), Cardinality(Definitions("interface")))
          inherited == UNION {MemberNames(types["interface"][indices["interface"][name]]) : name \in ancestors}
      IN  /\ \A j \in DOMAIN object.members : object.members[j].inherited = (object.members[j].name \in inherited)
          /\ indices["object"][object.name] = i =>
               ToSet(object.unions) = {types["union"][k].name : k \in
                 {l \in DOMAIN types["union"] : object.name \in MemberNames(types["union"][l])}}

\* SchemaLoader reads what is valid and no other document, and what it has when
\* it ends is what the document says.
LoadedAsDocumented == LoadsTheValid /\ TypesAsDocumented /\ ObjectsKnowTheirTypes

\* The constructor ends.
LoaderEnds == phase = "definitions" ~> phase \in {"loaded", "error"}
=============================================================================
