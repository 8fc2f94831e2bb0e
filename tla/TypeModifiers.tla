--------------------------- MODULE TypeModifiers ---------------------------
(***************************************************************************)
(* How the wrappers of a GraphQL type are represented.  The schema has a   *)
(* type [T!] as the wrappers <<"LIST", "NON_NULL">> of T, outermost first. *)
(* The generators and the templates they instantiate have a stack of       *)
(* modifiers instead, which says what is nullable, not what is not:        *)
(* <<"Nullable", "List">>.  Four functions translate between the two, and  *)
(* the C++ type of a field is built twice, as text by the generators and   *)
(* as a type by the traits of the library's templates.                     *)
(***************************************************************************)
EXTENDS Naturals, SequencesExt

Wrappers == {"LIST", "NON_NULL"}
Modifiers == {"Nullable", "List"}

\* The grammar has no type T!!, and WrapType is not called for one.
SchemaTypesUpTo(n) ==
  {type \in SeqOf(Wrappers, n) :
     \A i \in 1..(Len(type) - 1) : ~(type[i] = "NON_NULL" /\ type[i + 1] = "NON_NULL")}

OrNullable(nonNull, modifiers) == IF nonNull THEN modifiers ELSE Append(modifiers, "Nullable")

-----------------------------------------------------------------------------
(* From a type to its modifiers.                                           *)

\* Mutant of VisitWrapper: _nonNull is not reset for the elements of a list.
VisitListOnly(visitor, wrapper) ==
  IF wrapper = "NON_NULL"
  THEN [visitor EXCEPT !.nonNull = TRUE]
  ELSE [visitor EXCEPT !.modifiers = Append(OrNullable(visitor.nonNull, visitor.modifiers), "List")]

\* TypeVisitor walks from the syntax node of the whole type to the name.
VisitWrapper(visitor, wrapper) ==
  IF wrapper = "NON_NULL"
  THEN [visitor EXCEPT !.nonNull = TRUE]
  ELSE [nonNull |-> FALSE,
        modifiers |-> Append(OrNullable(visitor.nonNull, visitor.modifiers), "List")]

VisitType(type) ==
  LET visitor == FoldLeft(VisitWrapper, [nonNull |-> FALSE, modifiers |-> <<>>], type)
  IN  OrNullable(visitor.nonNull, visitor.modifiers)

\* unwrapSchemaType follows ofType through the wrappers of the built schema.
UnwrapSchemaType(type) ==
  LET unwrap[i \in 1..(Len(type) + 1), nonNull \in BOOLEAN] ==
        IF i > Len(type) THEN OrNullable(nonNull, <<>>)
        ELSE IF type[i] = "NON_NULL" THEN unwrap[i + 1, TRUE]
        ELSE OrNullable(nonNull, <<>>) \o <<"List">> \o unwrap[i + 1, FALSE]
  IN  unwrap[1, FALSE]

-----------------------------------------------------------------------------
(* And back.                                                               *)

\* RequestLoader::getSchemaType wraps the named type, from the last modifier
\* to the first.  A Nullable takes back that the type inside it is not.
WrapModifier(modifier, wrapped) ==
  IF modifier = "Nullable"
  THEN [wrapped EXCEPT !.nonNull = FALSE]
  ELSE [nonNull |-> TRUE,
        type |-> <<"LIST">> \o (IF wrapped.nonNull THEN <<"NON_NULL">> ELSE <<>>) \o wrapped.type]

SchemaType(modifiers) ==
  LET wrapped == FoldRight(WrapModifier, modifiers, [nonNull |-> TRUE, type |-> <<>>])
  IN  (IF wrapped.nonNull THEN <<"NON_NULL">> ELSE <<>>) \o wrapped.type

\* getIntrospectionType writes the calls of WrapType, from the first to the last.
WriteModifier(written, modifier) ==
  IF modifier = "Nullable"
  THEN [written EXCEPT !.nonNull = FALSE]
  ELSE [nonNull |-> TRUE,
        type |-> written.type \o (IF written.nonNull THEN <<"NON_NULL">> ELSE <<>>) \o <<"LIST">>]

IntrospectionType(modifiers) ==
  LET written == FoldLeft(WriteModifier, [nonNull |-> TRUE, type |-> <<>>], modifiers)
  IN  written.type \o (IF written.nonNull THEN <<"NON_NULL">> ELSE <<>>)

-----------------------------------------------------------------------------
(* C++ types, as the templates around the innermost type.  The generators  *)
(* open a template for each modifier that follows a Nullable, so that the  *)
(* last modifier is left to the caller.                                    *)

OpenTemplate(opened, modifier) ==
  [nonNull |-> modifier # "Nullable",
   cppType |-> opened.cppType \o (IF opened.nonNull THEN <<>> ELSE <<"optional">>)
                              \o (IF modifier = "List" THEN <<"vector">> ELSE <<>>)]

OpenTemplates(modifiers) == FoldLeft(OpenTemplate, [nonNull |-> TRUE, cppType |-> <<>>], modifiers)

\* Mutant of InputCppType: every nullable is an optional.
InputCppTypeOptional(kind, modifiers) ==
  LET opened == OpenTemplates(modifiers)
  IN  opened.cppType \o (IF opened.nonNull THEN <<>> ELSE <<"optional">>)

\* An innermost nullable input object is held by a unique_ptr.
InputCppType(kind, modifiers) ==
  LET opened == OpenTemplates(modifiers)
  IN  IF opened.nonNull THEN opened.cppType
      ELSE Append(opened.cppType, IF kind = "input" THEN "unique_ptr" ELSE "optional")

\* RequestLoader's own, for the client's variables.
ClientInputCppType(kind, modifiers) ==
  LET opened == OpenTemplates(modifiers)
      innermost == IF kind = "input" THEN <<"unique_ptr">> ELSE <<"optional">>
  IN  opened.cppType \o (IF opened.nonNull THEN <<>> ELSE innermost)

\* The service's resolvers return objects as shared_ptr, nullable or not.
OutputCppType(kind, modifiers) ==
  LET opened == OpenTemplates(modifiers)
  IN  IF kind = "object" THEN <<"AwaitableObject">> \o opened.cppType \o <<"shared_ptr">>
      ELSE <<"AwaitableScalar">> \o opened.cppType \o (IF opened.nonNull THEN <<>> ELSE <<"optional">>)

\* The client's structures hold objects by value.
ClientOutputCppType(modifiers) ==
  LET opened == OpenTemplates(modifiers)
  IN  opened.cppType \o (IF opened.nonNull THEN <<>> ELSE <<"optional">>)

\* The traits peel the modifiers one at a time.
Peel(modifiers, innermost, last) ==
  LET type[i \in 1..(Len(modifiers) + 1)] ==
        IF i > Len(modifiers) THEN last
        ELSE IF modifiers[i] = "List" THEN <<"vector">> \o type[i + 1]
        ELSE IF i = Len(modifiers) THEN innermost
        ELSE <<"optional">> \o type[i + 1]
  IN  type[1]

ArgumentTraits(kind, modifiers) ==
  Peel(modifiers, <<IF kind = "input" THEN "unique_ptr" ELSE "optional">>, <<>>)

VariableTraits(kind, modifiers) ==
  Peel(modifiers, <<IF kind = "input" THEN "unique_ptr" ELSE "optional">>, <<>>)

ResultTraits(kind, modifiers) ==
  IF kind = "object"
  THEN <<"AwaitableObject">> \o Peel(modifiers, <<"shared_ptr">>, <<"shared_ptr">>)
  ELSE <<"AwaitableScalar">> \o Peel(modifiers, <<"optional">>, <<>>)

ResponseTraits(modifiers) == Peel(modifiers, <<"optional">>, <<>>)

-----------------------------------------------------------------------------
(* What must agree, for a type.                                            *)

\* Both ways to a type's modifiers give the same, and both ways back give
\* the type: what the schema generator writes, what the request loader builds
\* to validate the documents of a client, and what introspection answers.
RoundTrips(type) ==
  /\ VisitType(type) = UnwrapSchemaType(type)
  /\ SchemaType(VisitType(type)) = type
  /\ IntrospectionType(VisitType(type)) = type

\* The C++ type that is written next to a call of a template is the one that
\* the template converts from or to, or the generated code does not compile.
WrittenTypesMatch(type) ==
  LET modifiers == VisitType(type)
  IN  /\ \A kind \in {"input", "scalar"} :
           /\ InputCppType(kind, modifiers) = ArgumentTraits(kind, modifiers)
           /\ ClientInputCppType(kind, UnwrapSchemaType(type)) = VariableTraits(kind, modifiers)
      /\ \A kind \in {"object", "scalar"} :
           OutputCppType(kind, modifiers) = ResultTraits(kind, modifiers)
      /\ ClientOutputCppType(modifiers) = ResponseTraits(modifiers)
=============================================================================
