-------------------------- MODULE GeneratedService --------------------------
(***************************************************************************)
(* The code that schemagen writes of a loaded schema: a header that all    *)
(* share, a source with the conversions and GetSchema, and a header and a  *)
(* source for each interface, union and object.  A file includes others by *)
(* having their declarations first.                                        *)
(*                                                                         *)
(* Types are named by their namespace and name.  What a field of an object *)
(* becomes is kept apart from the files: the accessor that an              *)
(* implementation has, and the resolver that calls it with the arguments.  *)
(***************************************************************************)
EXTENDS BuiltSchema, CppFile

Cpp == INSTANCE TypeModifiers

ObjectKinds == {"interface", "union", "object"}
TypesOfKind(kind) == ToSet(types[kind])

-----------------------------------------------------------------------------
(* Types of C++.                                                           *)

\* The types of the library need no declaration, nor response::Value.
GetCppType(type) ==
  IF type \in Builtins \cup DOMAIN indices["scalar"] THEN {} ELSE {<<"schema", type>>}

ModifiersOf(field) ==
  (IF field.nullable THEN <<"Nullable">> ELSE <<>>) \o (IF field.list THEN <<"List">> ELSE <<>>)

\* As the loader knows the type: an argument that it did not look at is Builtin.
GetInputCppType(field) ==
  Cpp!InputCppType(IF field.fieldType = "input" THEN "input" ELSE "scalar", ModifiersOf(field))

\* Held in a vector or by a unique_ptr, a type need not be complete.
HeldByPointer(field) == ~(ToSet(GetInputCppType(field)) \subseteq {"optional"})

GetOutputCppType(field) ==
  IF field.fieldType \in ObjectKinds THEN {<<"object", field.type>>} ELSE GetCppType(field.type)

TypesOf(fields, held) ==
  UNION {GetCppType(fields[i].type) : i \in {j \in DOMAIN fields : HeldByPointer(fields[j]) = held}}

-----------------------------------------------------------------------------
(* The header of the schema.                                               *)

EnumDeclarations ==
  FlattenSeq([i \in DOMAIN types["enum"] |->
    LET name == types["enum"][i].name
        enum == <<"schema", name>>
    IN  <<Define(enum, {}, {}), Define(<<"Names", name>>, {}, {}), Define(<<"Values", name>>, {enum}, {})>>])

\* Mutant of DeclareForward: an input is not declared before the ones it holds.
DeclareNothing(header, name) == header

DeclareForward(header, name) ==
  IF name \in header.declared THEN header
  ELSE [file |-> Append(header.file, Declare(<<"schema", name>>)), declared |-> header.declared \cup {name}]

\* The inputs that an input holds without being dependent on their order.
DeclarationsOf(input) ==
  LET fields == SelectSeq(input.members, LAMBDA f : f.fieldType = "input" /\ (f.nullable \/ f.list))
  IN  [i \in DOMAIN fields |-> fields[i].type]

DeclareInput(header, entry) ==
  LET forward == FoldLeft(DeclareForward, [header EXCEPT !.declared = @ \cup {entry.name}], DeclarationsOf(entry))
  IN  [forward EXCEPT !.file = Append(@,
        Define(<<"schema", entry.name>>, TypesOf(entry.members, FALSE), TypesOf(entry.members, TRUE)))]

InputDeclarations == FoldLeft(DeclareInput, [file |-> <<>>, declared |-> {}], types["input"]).file

DeclareTypes(namespace, kind) == [i \in DOMAIN types[kind] |-> Declare(<<namespace, types[kind][i].name>>)]

ClassDeclarations ==
  DeclareTypes("object", "interface") \o DeclareTypes("object", "union")
    \o (IF isIntrospection THEN DeclareTypes("schema", "object") ELSE <<>>) \o DeclareTypes("object", "object")

OperationTypes == IF isIntrospection THEN {} ELSE {<<"object", operationTypes[i].name>> : i \in DOMAIN operationTypes}
OperationsDeclaration ==
  IF isIntrospection THEN <<>> ELSE <<Define(<<"service", "Operations">>, {}, OperationTypes)>>

DetailsDeclarations(kind) == [i \in DOMAIN types[kind] |-> Declare(<<"Details", types[kind][i].name>>)]
SchemaDeclarations ==
  DetailsDeclarations("interface") \o DetailsDeclarations("union") \o DetailsDeclarations("object")
    \o <<Declare(<<"service", IF isIntrospection THEN "AddTypesToSchema" ELSE "GetSchema">>)>>

SchemaHeader ==
  EnumDeclarations \o InputDeclarations \o ClassDeclarations \o OperationsDeclaration \o SchemaDeclarations

-----------------------------------------------------------------------------
(* The header of a type.                                                   *)

\* An interface and a union have one class that holds any object.
InterfaceDeclaration(entry) == Define(<<"object", entry.name>>, {}, {})

\* The concept that lets the class of an interface be made of this object.
ObjectImplements(entry) ==
  LET names == ToSet(entry.interfaces) \cup ToSet(entry.unions)
  IN  IF isIntrospection \/ names = {} THEN <<>>
      ELSE <<Define(<<"implements", entry.name>>, {}, {<<"object", name>> : name \in names})>>

\* An accessor, as the stub concepts and the classes of an object have it.
AccessorOf(field) == <<field.accessor, field.name>>
Parameters(field) ==
  [i \in DOMAIN field.arguments |-> <<GetCppType(field.arguments[i].type), GetInputCppType(field.arguments[i])>>]
UsedBy(field) == UNION {parameter[1] : parameter \in ToSet(Parameters(field))} \cup GetOutputCppType(field)

ObjectStubs(entry) ==
  IF isIntrospection THEN <<>>
  ELSE [i \in DOMAIN entry.members |->
         Define(<<"stub", entry.name>> \o AccessorOf(entry.members[i]), {}, UsedBy(entry.members[i]))]

\* The classes that may hold an object, whose methods are private.
Friends(entry) == IF isIntrospection THEN {} ELSE ToSet(entry.interfaces) \cup ToSet(entry.unions)

ObjectDeclaration(entry) ==
  Define(<<"object", entry.name>>, {},
         UNION {UsedBy(field) : field \in ToSet(entry.members)}
           \cup {<<"object", name>> : name \in Friends(entry)})

DeclarationsIn(kind, entry) ==
  IF kind # "object" THEN <<InterfaceDeclaration(entry)>>
  ELSE ObjectImplements(entry) \o ObjectStubs(entry) \o <<ObjectDeclaration(entry)>>

\* What an implementation with these of the two methods of an accessor is
\* called for: "does not compile" is a static_assert.
Called(field, methods, stubs) ==
  IF "WithParams" \in methods THEN <<"WithParams", Parameters(field)>>
  ELSE IF "Plain" \in methods THEN <<"Plain", Parameters(field)>>
  ELSE IF stubs THEN <<"unimplemented_method">> ELSE <<"does not compile">>

-----------------------------------------------------------------------------
(* The sources.                                                            *)

\* The specializations of the library's templates.
ArgumentConversions == {<<"schema", entry.name>> : entry \in TypesOfKind("enum") \cup TypesOfKind("input")}
ResultConversions == {<<"schema", entry.name>> : entry \in TypesOfKind("enum")}

\* The template that an argument or an input's field is read with, and the C++
\* type that it gives.
GetArgumentAccessType(argument) ==
  IF argument.fieldType \in {"enum", "input"} THEN {<<"schema", argument.type>>}
  ELSE IF argument.fieldType = "scalar" THEN {} ELSE GetCppType(argument.type)
TraitsOf(field) ==
  Cpp!ArgumentTraits(IF field.type \in DOMAIN indices["input"] THEN "input" ELSE "scalar", ModifiersOf(field))

ReadArgument(argument) == <<GetArgumentAccessType(argument), TraitsOf(argument)>>

\* Argument<T>::convert makes a T of its fields in their order; T's own
\* constructors take all fields, or duplicate those of another.
InputConversion(entry) == [i \in DOMAIN entry.members |-> ReadArgument(entry.members[i])]
InputConstructor(entry) ==
  [i \in DOMAIN entry.members |-> <<GetCppType(entry.members[i].type), GetInputCppType(entry.members[i])>>]
InputDuplicate(entry) ==
  [i \in DOMAIN entry.members |-> <<GetCppType(entry.members[i].type), TraitsOf(entry.members[i])>>]

\* The other members of its class.
InputMethods(entry) ==
  LET type == <<"schema", entry.name>>
      members == TypesOf(entry.members, TRUE) \cup TypesOf(entry.members, FALSE)
      Method(kind, parameters) == Define(<<"method", entry.name, kind, parameters>>, {type} \cup members, {})
  IN  <<Method("make", <<>>), Method("make", InputConstructor(entry)), Method("copy", <<>>), Method("move", <<>>),
        Method("destroy", <<>>), Method("assign copy", <<>>), Method("assign move", <<>>)>>

InputSource == SchemaHeader \o FlattenSeq([i \in DOMAIN types["input"] |-> InputMethods(types["input"][i])])

\* The map from operations to their objects that Operations gives to Request.
RequestOperations ==
  [operation \in {operationTypes[i].operation : i \in DOMAIN operationTypes} |->
     SelectSeq(operationTypes, LAMBDA o : o.operation = operation)[1].name]

\* The constructor of an interface or union, of any implementation of its Concept.
InterfaceSource(kind, entry) ==
  SchemaHeader \o DeclarationsIn(kind, entry)
    \o <<Define(<<"implement", entry.name>>, {<<"object", entry.name>>}, {}), Define(<<"Details", entry.name>>, {}, {})>>
UnionSource(entry) == InterfaceSource("union", entry)

\* The source of an object includes the headers of the types of its fields.
IncludedObjects(entry) ==
  {field.type : field \in {f \in ToSet(entry.members) : f.fieldType \in ObjectKinds}}

Included(entry) ==
  FlattenSeq([k \in 1..3 |->
    LET kind == <<"interface", "union", "object">>[k]
        others == SelectSeq(types[kind], LAMBDA e : e.name \in IncludedObjects(entry) /\ e.name # entry.name)
    IN  FlattenSeq([i \in DOMAIN others |-> DeclarationsIn(kind, others[i])])])

\* The template that converts a result; in the namespace of objects their
\* classes are found before the types of the schema.
GetResultAccessType(field) ==
  IF field.fieldType = "scalar" THEN {}
  ELSE IF \E kind \in ObjectKinds : field.type \in DOMAIN indices[kind] THEN {<<"object", field.type>>}
  ELSE GetCppType(field.type)

\* A resolver makes an object of its result.
Resolver(entry, field) ==
  Define(<<"resolve", entry.name, field.name>>,
         {<<"object", entry.name>>} \cup (IF field.fieldType \in ObjectKinds THEN GetResultAccessType(field) ELSE {}), {})

QueryType ==
  LET queries == SelectSeq(operationTypes, LAMBDA o : o.operation = "query")
  IN  IF isIntrospection \/ queries = <<>> THEN "" ELSE queries[1].name

\* Resolvers that every object has, or that of the queries.
BuiltinResolvers(entry, noIntrospection) ==
  LET names == IF noIntrospection \/ entry.name # QueryType THEN <<"__typename">> ELSE <<"__typename", "__schema", "__type">>
  IN  [i \in DOMAIN names |-> Define(<<"resolve", entry.name, names[i]>>, {<<"object", entry.name>>}, {})]

ObjectMethods(entry) ==
  LET names == IF isIntrospection THEN <<"make", "destroy">> ELSE <<"make", "beginSelectionSet", "endSelectionSet">>
  IN  [i \in DOMAIN names |-> Define(<<"method", entry.name, names[i]>>, {<<"object", entry.name>>}, {})]

Resolvers(entry, noIntrospection) ==
  [i \in DOMAIN entry.members |-> Resolver(entry, entry.members[i])] \o BuiltinResolvers(entry, noIntrospection)

ObjectSource(entry, noIntrospection) ==
  SchemaHeader \o DeclarationsIn("object", entry) \o Included(entry)
    \o ObjectMethods(entry) \o Resolvers(entry, noIntrospection) \o <<Define(<<"Details", entry.name>>, {}, {})>>

\* Operations makes the objects of its operations.
SchemaSource ==
  SchemaHeader
    \o FlattenSeq([i \in DOMAIN operationTypes |->
         DeclarationsIn("object", types["object"][indices["object"][operationTypes[i].name]])])
    \o <<Define(<<"implement", "Operations">>, OperationTypes, {})>>

\* Mutant of GetResolvers: every object has a schema.
GetResolversOfAny(entry, noIntrospection) ==
  MemberNames(entry) \cup {"__typename"} \cup (IF noIntrospection THEN {} ELSE {"__schema", "__type"})

GetResolvers(entry, noIntrospection) ==
  MemberNames(entry) \cup {"__typename"}
    \cup (IF noIntrospection \/ entry.name # QueryType THEN {} ELSE {"__schema", "__type"})

Arguments(field) == [i \in DOMAIN field.arguments |-> ReadArgument(field.arguments[i])]

\* shouldMoveInputField, which is asked of an argument with a default, looks a
\* type that should be Builtin up where it may not be found.
GeneratorEnds(field) ==
  \A i \in DOMAIN field.arguments :
    LET argument == field.arguments[i]
    IN  argument.default # "value" \/ argument.fieldType # "Builtin" \/ ModifiersOf(argument) # <<>>
          \/ argument.type \in Builtins

-----------------------------------------------------------------------------
\* No member and no operation is there twice, and neither is a name, and the
\* types of all arguments are those of inputs.
Unambiguous ==
  /\ NamesUnique
  /\ \A kind \in {"object", "interface", "input", "union"} : \A entry \in TypesOfKind(kind) :
       IsInjective(NamesOf(entry.members)) /\ IsInjective(entry.interfaces)
  /\ IsInjective(NamesOf(operationTypes))
  /\ IsInjective([i \in DOMAIN operationTypes |-> operationTypes[i].operation])
  /\ \A i \in DOMAIN document :
       document[i].extends \/ \A argument \in ArgumentsOf(i) : IsInputType(argument.type)

\* The fields that validation lets pass, of an object.
FieldsOfObject(schema, entry, noIntrospection) ==
  ToSet(NamesOf(schema.types[entry.name].fields)) \cup {"__typename"}
    \cup (IF ~noIntrospection /\ GetOperationType(schema, "query") = <<entry.name>> THEN {"__schema", "__type"} ELSE {})

\* An argument arrives as the type that the accessor has for it.  It does not
\* if the field's own type is Builtin, and the argument is a nullable input
\* object: SchemaLoader leaves a field of a builtin type at once.
ArgumentsFit(field) == Arguments(field) = Parameters(field) /\ GeneratorEnds(field)
LeftAlone(field) ==
  field.type \in Builtins /\ \E i \in DOMAIN field.arguments :
    LET argument == field.arguments[i]
    IN  \/ argument.type \in DOMAIN indices["input"] /\ argument.nullable /\ ~argument.list
        \/ argument.type \notin Builtins /\ argument.default = "value" /\ ~argument.nullable /\ ~argument.list

\* The resolvers of an object are those of the fields that can be asked for,
\* and are there to be called.
ResolversFit(entry) ==
  \A noIntrospection \in BOOLEAN :
    /\ {<<"resolve", entry.name, name>> : name \in GetResolvers(entry, noIntrospection)}
         = DefinedIn(Resolvers(entry, noIntrospection))
    /\ isIntrospection
         \/ GetResolvers(entry, noIntrospection) = FieldsOfObject(GeneratedSchema, entry, noIntrospection)

\* An object can be returned for the interfaces and unions that introspection
\* says it may be.
FriendsFit(entry, schema) ==
  isIntrospection \/
    Friends(entry) = {name \in DOMAIN schema.types :
      \E i \in DOMAIN GetPossibleTypes(schema, schema.types[name]) :
        entry.name \in ToSet(GetPossibleTypes(schema, schema.types[name])[i])}

FieldFits(field) ==
  /\ ArgumentsFit(field) = ~LeftAlone(field)
  /\ UNION {argument[1] : argument \in ToSet(Arguments(field))} \subseteq ArgumentConversions
  /\ GetResultAccessType(field) = GetOutputCppType(field)
  /\ field.fieldType \notin ObjectKinds => GetOutputCppType(field) \subseteq ResultConversions
  /\ \A methods \in SUBSET {"WithParams", "Plain"} \ {{}} :
       Called(field, methods, FALSE)[2] = Arguments(field) \/ LeftAlone(field)

InputFits(entry) ==
  /\ InputConversion(entry) = InputConstructor(entry)
  /\ InputDuplicate(entry) = InputConstructor(entry)
  /\ TypesOf(entry.members, TRUE) \cup TypesOf(entry.members, FALSE) \subseteq ArgumentConversions

\* The generated files of a schema have what they use, in an order that C++
\* accepts, but for an input without fields, of which one constructor is there
\* twice, and conversions of every type that needs one; an object has a resolver
\* for each field that validation lets pass, which passes the arguments on as its
\* accessor takes them, and the friends that may hold it; and a request has the
\* objects of the operations that the schema has (SchemaGenerator.cpp).
ServiceCodeFits ==
  phase = "loaded" /\ Unambiguous =>
    /\ Accepted(SchemaSource)
    /\ RequestOperations = IF isIntrospection THEN EmptyMap ELSE GeneratedSchema.operations
    /\ Accepted(InputSource) = \A entry \in TypesOfKind("input") : entry.members # <<>>
    /\ \A entry \in TypesOfKind("input") : InputFits(entry)
    /\ \A entry \in TypesOfKind("interface") : Accepted(InterfaceSource("interface", entry))
    /\ \A entry \in TypesOfKind("union") : Accepted(UnionSource(entry))
    /\ \A entry \in TypesOfKind("object") :
         /\ Accepted(ObjectSource(entry, FALSE))
         /\ ResolversFit(entry) /\ FriendsFit(entry, GeneratedSchema)
         /\ \A field \in ToSet(entry.members) : FieldFits(field)
=============================================================================
