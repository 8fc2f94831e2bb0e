-------------------------- MODULE GeneratedClient --------------------------
(***************************************************************************)
(* The header and the source that clientgen writes of the operations it    *)
(* has loaded.  Types that operations share are written once; the struct   *)
(* of a response has structs in it, which are named by where they are.     *)
(***************************************************************************)
EXTENDS ClientRequest, CppFile

Shared(type) == <<"schema", type>>
SharedTypes(fields) ==
  {Shared(fields[i].type) : i \in {j \in DOMAIN fields : KindOfType(fields[j].type) \in {"enum", "input"}}}

\* Of lists, one for each operation, what is not in an earlier one.
OnceEach(lists) == FoldLeft(LAMBDA once, list : FoldLeft(Refer, once, list), <<>>, lists)
AllEnums(operations) == OnceEach([i \in DOMAIN operations |-> operations[i].enums])
AllInputs(operations) == OnceEach([i \in DOMAIN operations |-> operations[i].inputTypes])
WithVariables(operations) == SelectSeq(operations, LAMBDA o : o.variables # <<>>)

-----------------------------------------------------------------------------
(* The header.                                                             *)

ForwardDeclare(header, type) ==
  IF type \in header.declared \cup header.forward THEN header
  ELSE [header EXCEPT !.file = Append(@, Declare(Shared(type))), !.forward = @ \cup {type}]

\* The input itself counts as declared when what it holds is looked at.
DeclareInputType(header, type) ==
  LET forward == FoldLeft(ForwardDeclare, [header EXCEPT !.declared = @ \cup {type}], HeldInputs(type, FALSE))
      fields == ClientSchema.types[type].inputFields
      byValue == SelectSeq(fields, LAMBDA f : KindOfType(f.type) = "enum" \/ f.modifiers = <<>>)
  IN  [forward EXCEPT !.file = Append(@, Define(Shared(type), SharedTypes(byValue), SharedTypes(fields)))]

InputTypeDeclarations(operations) ==
  FoldLeft(DeclareInputType, [file |-> <<>>, declared |-> {}, forward |-> {}], AllInputs(operations)).file

EnumTypeDeclarations(operations) ==
  [i \in DOMAIN AllEnums(operations) |-> Define(Shared(AllEnums(operations)[i]), {}, {})]

\* getResponseFieldCppType, in the scope that the field is in; the types of
\* the library have none.
StructOf(scope, field) == scope \o <<field.name, field.type>>
ResponseCppType(scope, field) ==
  IF HasFields(field.type) THEN {StructOf(scope, field)}
  ELSE IF KindOfType(field.type) = "enum" THEN {Shared(field.type)} ELSE {}
TypesOfFields(scope, fields) == UNION {ResponseCppType(scope, fields[i]) : i \in DOMAIN fields}

\* Inside of a response, of the fields with one name the first is written.
OnceEachField(fields) ==
  FoldLeft(LAMBDA once, field : IF \E i \in DOMAIN once : once[i].name = field.name THEN once ELSE Append(once, field),
           <<>>, fields)

Members(scope, fields) == [i \in DOMAIN fields |-> Define(Append(scope, fields[i].name), ResponseCppType(scope, fields[i]), {})]

RECURSIVE StructDeclarations(_, _)
StructsIn(scope, fields) == FlattenSeq([i \in DOMAIN fields |-> StructDeclarations(scope, fields[i])])
StructDeclarations(scope, field) ==
  IF ~HasFields(field.type) THEN <<>>
  ELSE StructsIn(StructOf(scope, field), OnceEachField(field.children))
         \o Members(StructOf(scope, field), OnceEachField(field.children))
         \o <<Define(StructOf(scope, field), {}, {})>>

ResponseScope(operation) == Append(operation.namespace, "Response")

\* In the namespace of an operation its types have their names without the
\* schema's.
Aliases(operation) ==
  LET all == operation.enums \o operation.inputTypes
  IN  [i \in DOMAIN all |-> Define(Append(operation.namespace, all[i]), {Shared(all[i])}, {})]

\* Only an operation with variables serializes any.
VariablesDeclaration(operation) ==
  IF operation.variables = <<>> THEN <<>>
  ELSE [i \in DOMAIN operation.variables |->
          Define(operation.namespace \o <<"Variables", operation.variables[i].name>>, SharedTypes(<<operation.variables[i]>>), {})]
         \o <<Define(Append(operation.namespace, "Variables"), {}, {}), Declare(Append(operation.namespace, "serializeVariables"))>>

\* The functions of an operation, in its namespace and as members of Traits.
Functions(operation) ==
  <<"GetOperationName">> \o (IF operation.variables = <<>> THEN <<>> ELSE <<"serializeVariables">>) \o <<"parseResponse">>
TraitsFunctions(operation) == <<"GetRequestText", "GetRequestObject">> \o Functions(operation)
InTraits(operation, name) == operation.namespace \o <<"Traits", name>>

TraitsDeclaration(operation) ==
  [i \in DOMAIN TraitsFunctions(operation) |-> Declare(InTraits(operation, TraitsFunctions(operation)[i]))]
    \o <<Define(Append(operation.namespace, "Traits"), {}, {})>>

OperationDeclarations(operation) ==
  <<Declare(Append(operation.namespace, "GetOperationName"))>>
    \o Aliases(operation) \o VariablesDeclaration(operation)
    \o StructsIn(ResponseScope(operation), operation.fields)
    \o Members(ResponseScope(operation), operation.fields)
    \o <<Define(ResponseScope(operation), {}, {}), Declare(Append(operation.namespace, "parseResponse"))>>
    \o TraitsDeclaration(operation)

GetRequestDeclaration == <<Declare(<<"GetRequestText">>), Declare(<<"GetRequestObject">>)>>

ClientHeader(operations) ==
  GetRequestDeclaration \o EnumTypeDeclarations(operations) \o InputTypeDeclarations(operations)
    \o FlattenSeq([i \in DOMAIN operations |-> OperationDeclarations(operations[i])])

-----------------------------------------------------------------------------
(* The members of the inputs: constructors, from the fields or from        *)
(* another, the destructor and the assignments.                            *)

InputParameters(type) ==
  LET fields == ClientSchema.types[type].inputFields
  IN  [i \in DOMAIN fields |->
         <<fields[i].type, Written!ClientInputCppType(KindOfType(fields[i].type), fields[i].modifiers)>>]

InputMethods(type) ==
  LET Method(kind, parameters) ==
        Define(<<"method", type, kind, parameters>>, {Shared(type)} \cup SharedTypes(ClientSchema.types[type].inputFields), {})
  IN  <<Method("make", <<>>), Method("make", InputParameters(type)), Method("copy", <<>>), Method("move", <<>>),
        Method("destroy", <<>>), Method("assign copy", <<>>), Method("assign move", <<>>)>>

\* Once for all operations.
InputDefinitions(operations) ==
  FlattenSeq([i \in DOMAIN AllInputs(operations) |-> InputMethods(AllInputs(operations)[i])])

-----------------------------------------------------------------------------
(* The source: Variable<T>::serialize and Response<T>::parse of each type. *)

\* Of the operations that have variables.
Serialized(operations) == AllEnums(WithVariables(operations)) \o AllInputs(WithVariables(operations))
SerializeDefinitions(operations) ==
  [i \in DOMAIN Serialized(operations) |->
     Define(<<"serialize", Shared(Serialized(operations)[i])>>, {Shared(Serialized(operations)[i])}, {})]

ParseDefinition(type) == Define(<<"parse", type>>, {type}, {})
RECURSIVE ParseStructs(_, _)
ParseStructs(scope, field) ==
  IF ~HasFields(field.type) THEN <<>>
  ELSE LET children == OnceEachField(field.children)
       IN  Append(FlattenSeq([i \in DOMAIN children |-> ParseStructs(StructOf(scope, field), children[i])]),
                  ParseDefinition(StructOf(scope, field)))

ParseDefinitions(operations) ==
  [i \in DOMAIN AllEnums(operations) |-> ParseDefinition(Shared(AllEnums(operations)[i]))]
    \o FlattenSeq([i \in DOMAIN operations |->
         FlattenSeq([j \in DOMAIN operations[i].fields |->
           ParseStructs(ResponseScope(operations[i]), operations[i].fields[j])])])

\* Those of Traits call the others.
OperationDefinitions(operation) ==
  [i \in DOMAIN Functions(operation) |->
     Define(Append(operation.namespace, Functions(operation)[i]), {ResponseScope(operation)}, {})]
    \o [i \in DOMAIN TraitsFunctions(operation) |->
          Define(InTraits(operation, TraitsFunctions(operation)[i]), {},
                 {IF i < 3 THEN <<TraitsFunctions(operation)[i]>>
                  ELSE Append(operation.namespace, TraitsFunctions(operation)[i])})]

GetRequestImplementation ==
  <<Define(<<"GetRequestText">>, {}, {}), Define(<<"GetRequestObject">>, {}, {<<"GetRequestText">>})>>

ClientSource(operations) ==
  ClientHeader(operations) \o GetRequestImplementation
    \o InputDefinitions(operations) \o SerializeDefinitions(operations) \o ParseDefinitions(operations)
    \o FlattenSeq([i \in DOMAIN operations |-> OperationDefinitions(operations[i])])

\* serializeVariables, and the serialize of an input for its fields.
SerializeUses(operations) ==
  UNION ({SharedTypes(operations[i].variables) : i \in DOMAIN operations}
         \cup {SharedTypes(ClientSchema.types[type].inputFields) : type \in ToSet(AllInputs(operations))})

\* parseResponse, and the parse of a struct for its fields.
RECURSIVE ParseUses(_, _)
ParseUses(scope, fields) ==
  TypesOfFields(scope, fields)
    \cup UNION {ParseUses(StructOf(scope, fields[i]), fields[i].children) : i \in DOMAIN fields}

-----------------------------------------------------------------------------
(* What should become of a request.                                        *)

\* The fields in a selection and its fragments, each with the type that it is
\* a field of.
RECURSIVE Asked(_, _, _)
Asked(selection, type, fragments) ==
  UNION {LET node == selection[i]
         IN  CASE node.is = "field" -> {<<node, type>>}
               [] node.is = "spread" -> Asked(fragments[node.name].selection, fragments[node.name].on, fragments)
               [] node.is = "inline" -> Asked(node.selection, IF node.on = <<>> THEN type ELSE node.on[1], fragments) :
         i \in DOMAIN selection}

\* Whatever the object is, a response name has one type and one selection.
RECURSIVE Consistent(_, _, _)
Consistent(selection, type, fragments) ==
  LET asked == Asked(selection, type, fragments)
  IN  \A a \in asked :
        LET field == FindField(a[2], a[1].name)[1]
        IN  /\ \A b \in asked :
                 b[1].response = a[1].response =>
                   /\ b[1].selection = a[1].selection
                   /\ FindField(b[2], b[1].name)[1].type = field.type
                   /\ FindField(b[2], b[1].name)[1].modifiers = field.modifiers
            /\ HasFields(field.type) => Consistent(a[1].selection, field.type, fragments)

\* A response has the fields that are asked for, with their types.
RECURSIVE AnswersFit(_, _, _, _)
AnswersFit(fields, selection, type, fragments) ==
  LET asked == Asked(selection, type, fragments)
  IN  /\ {fields[i].name : i \in DOMAIN fields} = {a[1].response : a \in asked}
      /\ \A i \in DOMAIN fields : \A a \in asked :
           fields[i].name = a[1].response =>
             /\ fields[i].type = FindField(a[2], a[1].name)[1].type
             /\ fields[i].modifiers = FindField(a[2], a[1].name)[1].modifiers
             /\ HasFields(fields[i].type) => AnswersFit(fields[i].children, a[1].selection, fields[i].type, fragments)

\* A valid request is loaded, and the generated source defines each function that
\* the header declares, what the files use once and in an order that C++ accepts,
\* and the conversions of every type of a variable or of the response; and if a
\* response name has one selection wherever it is asked for, a response has a
\* place for each field of the answer (RequestLoader.cpp, ClientGenerator.cpp).
RequestFits(request) ==
  LET operations == Load(request)
      found == FindOperation(request)
      fragments == CollectFragments(request)
  IN  /\ NamesIn(ClientHeader(operations)) \subseteq DefinedIn(ClientSource(operations))
      /\ \A i \in DOMAIN found : \A j \in DOMAIN found[i].variables : ~NullIsRefused(found[i].variables[j])
      /\ Accepted(ClientSource(operations))
      /\ \A type \in SerializeUses(operations) : <<"serialize", type>> \in DefinedIn(SerializeDefinitions(operations))
      /\ \A i \in DOMAIN operations :
           /\ \A type \in ParseUses(ResponseScope(operations[i]), operations[i].fields) :
                <<"parse", type>> \in DefinedIn(ParseDefinitions(operations))
           /\ LET root == ClientSchema.operations[found[i].operation]
              IN  Consistent(found[i].selection, root, fragments) =>
                    AnswersFit(operations[i].fields, found[i].selection, root, fragments)
=============================================================================
