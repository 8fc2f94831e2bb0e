---------------------------- MODULE TypedValues ----------------------------
(***************************************************************************)
(* The conversions at both ends of the wire.  A client's generated code    *)
(* serializes its variables, and the service's converts them to the C++    *)
(* types of its arguments; the service converts its results to a response, *)
(* which the client's code parses to its own C++ types.  All of them peel  *)
(* the modifiers of a type one at a time, and then convert the innermost   *)
(* type, which may be an object with fields of more such types.            *)
(*                                                                         *)
(* A type is <<leaf, modifiers>>.  A C++ value of it is <<>> or <<value>>  *)
(* for a nullable, a sequence for a list, and a sequence of the values of  *)
(* the fields for an object.  Conversions that may throw return <<>>, or   *)
(* <<result>>.                                                             *)
(***************************************************************************)
EXTENDS ResponseJson

CONSTANTS
  EnumNames,        \* of the values of an enum, a sequence
  Fields,           \* of an object: a sequence of [name, type, default]
  Leaves            \* by leaf type, C++ values to try

EnumValues == ToSet(EnumNames)

\* Every C++ value of a type, with lists of up to n elements.
RECURSIVE CppValues(_, _)
CppValues(type, n) ==
  LET leaf == type[1]
      rest == <<leaf, IF type[2] = <<>> THEN <<>> ELSE Tail(type[2])>>
  IN  IF type[2] = <<>>
      THEN IF leaf = "Object"
           THEN FoldLeft(LAMBDA objects, field :
                           {Append(object, v) : object \in objects, v \in CppValues(field.type, n)},
                         {<<>>}, Fields)
           ELSE Leaves[leaf]
      ELSE IF Head(type[2]) = "Nullable" THEN {<<>>} \cup {<<v>> : v \in CppValues(rest, n)}
      ELSE BoundedSeq(CppValues(rest, n), n)

Peeled(type) == <<type[1], Tail(type[2])>>
NextModifier(type) == IF type[2] = <<>> THEN "None" ELSE Head(type[2])

\* The results of conversions one after the other: the first throw ends it.
Every(results) ==
  IF \A i \in DOMAIN results : results[i] # <<>> THEN <<[i \in DOMAIN results |-> results[i][1]]>> ELSE <<>>

-----------------------------------------------------------------------------
(* Copies of the client's variables and of the service's arguments.        *)

RECURSIVE Duplicate(_, _)
DuplicateObject(v) == [i \in DOMAIN v |-> Duplicate(Fields[i].type, v[i])]
DuplicateNullable(type, v) == IF v = <<>> THEN <<>> ELSE <<Duplicate(Peeled(type), v[1])>>
\* Into a vector that was made of the same size.
DuplicateList(type, v) == [i \in 1..Len(v) |-> Duplicate(Peeled(type), v[i])]

Duplicate(type, v) ==
  IF NextModifier(type) = "Nullable" THEN DuplicateNullable(type, v)
  ELSE IF NextModifier(type) = "List" THEN DuplicateList(type, v)
  ELSE IF type[1] = "Object" THEN DuplicateObject(v)
  ELSE v

-----------------------------------------------------------------------------
(* The client's variables.                                                 *)

\* Variable<Type>::serialize, of the library and of generated enums.
SerializeLeaf(leaf, v) ==
  CASE leaf = "Value" -> v
    [] leaf = "String" -> <<"String", <<v, "typed">>>>
    [] leaf \in {"Int", "Float", "Boolean", "ID", "EnumValue"} -> <<leaf, v>>

RECURSIVE Serialize(_, _)
SerializeObject(v) == <<"Map", [i \in DOMAIN v |-> <<Fields[i].name, Serialize(Fields[i].type, v[i])>>]>>

Serialize(type, v) ==
  IF NextModifier(type) = "Nullable" THEN IF v = <<>> THEN Null ELSE Serialize(Peeled(type), v[1])
  ELSE IF NextModifier(type) = "List" THEN <<"List", [i \in DOMAIN v |-> Serialize(Peeled(type), v[i])]>>
  ELSE IF type[1] = "Object" THEN SerializeObject(v)
  ELSE SerializeLeaf(type[1], v)

-----------------------------------------------------------------------------
(* Literals of a document: pairs of a kind of node and what it holds.      *)

\* The service's ValueVisitor.  A text may become an id, and a variable is
\* looked up, or the visitor throws.
RECURSIVE VisitValue(_, _)
VisitValue(literal, variables) ==
  CASE literal[1] = "variable" ->
         IF literal[2] \in Names(variables) THEN <<SelectSeq(variables, LAMBDA v : v[1] = literal[2])[1][2]>> ELSE <<>>
    [] literal[1] = "string" -> <<<<"String", <<literal[2], "input">>>>>>
    [] literal[1] = "list" ->
         LET elements == Every([i \in DOMAIN literal[2] |-> VisitValue(literal[2][i], variables)])
         IN  IF elements = <<>> THEN <<>> ELSE <<<<"List", elements[1]>>>>
    [] literal[1] = "object" ->
         LET values == Every([i \in DOMAIN literal[2] |-> VisitValue(literal[2][i][2], variables)])
         IN  IF values = <<>> THEN <<>>
             ELSE <<<<"Map", [i \in DOMAIN literal[2] |-> <<literal[2][i][1], values[1][i]>>]>>>>
    [] literal[1] \in {"Null", "Boolean", "Int", "Float", "EnumValue"} -> <<literal>>

\* Mutant of VisitDefault: an enum is taken for a text.
VisitDefaultText(literal) ==
  IF literal[1] \in {"string", "EnumValue"} THEN <<"String", <<literal[2], "typed">>>> ELSE literal

\* The generator's DefaultValueVisitor, which takes every text for a string.
RECURSIVE VisitDefault(_)
VisitDefault(literal) ==
  CASE literal[1] = "string" -> <<"String", <<literal[2], "typed">>>>
    [] literal[1] = "list" -> <<"List", [i \in DOMAIN literal[2] |-> VisitDefault(literal[2][i])]>>
    [] literal[1] = "object" ->
         <<"Map", [i \in DOMAIN literal[2] |-> <<literal[2][i][1], VisitDefault(literal[2][i][2])>>]>>
    [] literal[1] \in {"Null", "Boolean", "Int", "Float", "EnumValue"} -> literal

\* What the C++ makes that the generator writes for such a value: in a list
\* and in a map every entry is made in a variable of its own and moved out.
RECURSIVE Entry(_)
Entry(default) ==
  CASE Type(default) = "Map" ->
         <<"Map", FoldLeft(LAMBDA members, member : EmplaceMember(members, member[1], Entry(member[2])), <<>>, default[2])>>
    [] Type(default) = "List" -> <<"List", [i \in DOMAIN default[2] |-> Entry(default[2][i])]>>
    [] OTHER -> default

-----------------------------------------------------------------------------
(* The service's arguments.                                                *)

\* arguments[name] of a value that should be a map.
Lookup(name, arguments) ==
  IF Type(arguments) # "Map" THEN <<>>
  ELSE LET named == SelectSeq(arguments[2], LAMBDA member : member[1] = name)
       IN  IF named = <<>> THEN <<>> ELSE <<named[1][2]>>

MaybeEnum(value) == Type(value) = "EnumValue" \/ (Type(value) = "String" /\ value[2][2] = "json")

\* Mutant of MaybeId: a string is never an id.
IsId(value) == Type(value) = "ID"

\* Mutant of MaybeId: the text of a literal is no id.
MaybeIdJson(value) == Type(value) = "ID" \/ (Type(value) = "String" /\ value[2][2] = "json")

MaybeId(value) == Type(value) = "ID" \/ (Type(value) = "String" /\ value[2][2] # "typed")
\* release<IdType>
Id(value) == IF Type(value) = "ID" THEN value[2] ELSE <<"opaque", Text(value)>>

\* Argument<Type>::convert of the types that are no objects.
ConvertLeaf(leaf, value) ==
  CASE leaf = "Int" -> IF Type(value) = "Int" THEN <<value[2]>> ELSE <<>>
    [] leaf = "Float" -> IF Type(value) \in {"Int", "Float"} THEN <<value[2]>> ELSE <<>>
    [] leaf = "String" -> IF Type(value) = "String" THEN <<value[2][1]>> ELSE <<>>
    [] leaf = "Boolean" -> IF Type(value) = "Boolean" THEN <<value[2]>> ELSE <<>>
    [] leaf = "EnumValue" -> IF MaybeEnum(value) /\ Text(value) \in EnumValues THEN <<Text(value)>> ELSE <<>>
    [] leaf = "ID" -> IF MaybeId(value) THEN <<Id(value)>> ELSE <<>>
    [] leaf = "Value" -> <<value>>

\* Require throws.  An argument with a default is looked for with find, which
\* does not: what cannot be converted is taken for missing.
RECURSIVE Require(_, _, _)
ArgumentOf(field, arguments) ==
  LET found == Require(field.type, field.name, arguments)
  IN  IF field.default = Null \/ found # <<>> THEN found
      ELSE Require(field.type, field.name, <<"Map", <<<<field.name, field.default>>>>>>)

ConvertObject(value) == Every([i \in DOMAIN Fields |-> ArgumentOf(Fields[i], value)])

Require(type, name, arguments) ==
  LET argument == Lookup(name, arguments)
  IN  IF NextModifier(type) = "Nullable"
      THEN IF Type(arguments) # "Map" THEN <<>>
           ELSE IF argument \in {<<>>, <<Null>>} THEN <<<<>>>>
           ELSE LET required == Require(Peeled(type), name, arguments)
                IN  IF required = <<>> THEN <<>> ELSE <<required>>
      ELSE IF argument = <<>> THEN <<>>
      ELSE IF NextModifier(type) = "List"
      THEN IF Type(argument[1]) # "List" THEN <<>>
           ELSE Every([i \in DOMAIN argument[1][2] |->
                  Require(Peeled(type), name, <<"Map", <<<<name, argument[1][2][i]>>>>>>)])
      ELSE IF type[1] = "Object" THEN ConvertObject(argument[1])
      ELSE ConvertLeaf(type[1], argument[1])

-----------------------------------------------------------------------------
(* The service's results, of resolvers that do not throw.                  *)

\* Result<Type>::convert, of the library and of generated enums.
ResultLeaf(leaf, v) ==
  CASE leaf = "Value" -> v
    [] leaf = "String" -> <<"String", <<v, "typed">>>>
    [] leaf \in {"Int", "Float", "Boolean", "ID", "EnumValue"} -> <<leaf, v>>

RECURSIVE Result(_, _)
Result(type, v) ==
  IF NextModifier(type) = "Nullable" THEN IF v = <<>> THEN Null ELSE Result(Peeled(type), v[1])
  ELSE IF NextModifier(type) = "List" THEN <<"List", [i \in DOMAIN v |-> Result(Peeled(type), v[i])]>>
  ELSE IF type[1] = "Object" THEN <<"Map", [i \in DOMAIN v |-> <<Fields[i].name, Result(Fields[i].type, v[i])>>]>>
  ELSE ResultLeaf(type[1], v)

\* Mutant of ValidEnum: the name is not looked up.
ValidEnumAnyName(value) == MaybeEnum(value)

ValidEnum(value) == MaybeEnum(value) /\ Text(value) \in EnumValues

ValidLeaf(leaf, value) ==
  CASE leaf \in {"Int", "Float", "String", "Boolean"} -> Type(value) = leaf
    [] leaf = "EnumValue" -> ValidEnum(value)
    [] leaf = "ID" -> MaybeId(value)
    [] leaf = "Value" -> TRUE

\* A resolver may also return a response value that it has built itself.  It
\* is sent as it is, when validateScalar lets it pass.
RECURSIVE ValidScalar(_, _)
ValidScalar(type, value) ==
  IF NextModifier(type) = "Nullable" THEN Type(value) = "Null" \/ ValidScalar(Peeled(type), value)
  ELSE IF NextModifier(type) = "List"
  THEN Type(value) = "List" /\ \A i \in DOMAIN value[2] : ValidScalar(Peeled(type), value[2][i])
  ELSE ValidLeaf(type[1], value)

-----------------------------------------------------------------------------
(* The client's responses.                                                 *)

\* Response<Type>::parse, of the library and of generated enums.
ParseLeaf(leaf, value) ==
  CASE leaf \in {"Int", "Boolean"} -> IF Type(value) = leaf THEN <<value[2]>> ELSE <<>>
    [] leaf = "Float" -> IF Type(value) \in {"Int", "Float"} THEN <<value[2]>> ELSE <<>>
    [] leaf = "String" -> IF Type(value) = "String" THEN <<value[2][1]>> ELSE <<>>
    [] leaf = "EnumValue" -> IF MaybeEnum(value) /\ Text(value) \in EnumValues THEN <<Text(value)>> ELSE <<>>
    [] leaf = "ID" -> IF MaybeId(value) THEN <<Id(value)>> ELSE <<>>
    [] leaf = "Value" -> <<value>>

RECURSIVE Parse(_, _)
\* Members are found by name, and what is missing keeps its initial value.
InitialValue(type) ==
  IF NextModifier(type) # "None" THEN <<>>
  ELSE CASE type[1] \in {"Int", "Float"} -> 0
         [] type[1] = "Boolean" -> FALSE
         [] type[1] = "String" -> <<>>
         [] type[1] = "EnumValue" -> EnumNames[1]
         [] type[1] = "ID" -> <<"bytes", <<>>>>
         [] type[1] = "Value" -> Null

ParseObject(value) ==
  Every([i \in DOMAIN Fields |->
    LET member == Lookup(Fields[i].name, value)
    IN  IF member = <<>> THEN <<InitialValue(Fields[i].type)>> ELSE Parse(Fields[i].type, member[1])])

Parse(type, value) ==
  IF NextModifier(type) = "Nullable"
  THEN IF Type(value) = "Null" THEN <<<<>>>>
       ELSE LET parsed == Parse(Peeled(type), value)
            IN  IF parsed = <<>> THEN <<>> ELSE <<parsed>>
  ELSE IF NextModifier(type) = "List"
  THEN IF Type(value) # "List" THEN <<<<>>>> ELSE Every([i \in DOMAIN value[2] |-> Parse(Peeled(type), value[2][i])])
  ELSE IF type[1] = "Object" THEN ParseObject(value)
  ELSE ParseLeaf(type[1], value)

-----------------------------------------------------------------------------
(* What arrives.                                                           *)

\* A C++ value after its way through JSON: the text of an id, scalars as the
\* wire leaves them, and of a scalar that is null nothing.
RECURSIVE Arrived(_, _)
Arrived(type, v) ==
  IF type = <<"Value", <<"Nullable">>>> /\ v = <<Null>> THEN <<>>
  ELSE IF NextModifier(type) # "None" THEN [i \in DOMAIN v |-> Arrived(Peeled(type), v[i])]
  ELSE IF type[1] = "Object" THEN [i \in DOMAIN v |-> Arrived(Fields[i].type, v[i])]
  ELSE IF type[1] = "ID" THEN <<"opaque", Text(<<"ID", v>>)>>
  ELSE IF type[1] = "Value" THEN OnWire(v)
  ELSE v

\* The service's argument is the client's variable, whether or not they are
\* copied, a null stays a null where the argument has a default, and no element
\* of a list moves.
VariableArrives(type, v) ==
  LET variables == <<"Map", <<<<"v", Serialize(type, Duplicate(type, v))>>>>>>
      argument == Require(type, "v", ParseJSON(Write(variables)))
  IN  argument = <<Arrived(type, v)>> /\ Duplicate(type, argument[1]) = argument[1]

\* The literal one would write for a value.  Scalars have literals too, but
\* there are many for one of them.
RECURSIVE Literal(_, _)
Literal(type, v) ==
  IF NextModifier(type) = "Nullable" THEN IF v = <<>> THEN Null ELSE Literal(Peeled(type), v[1])
  ELSE IF NextModifier(type) = "List" THEN <<"list", [i \in DOMAIN v |-> Literal(Peeled(type), v[i])]>>
  ELSE CASE type[1] = "Object" -> <<"object", [i \in DOMAIN v |-> <<Fields[i].name, Literal(Fields[i].type, v[i])>>]>>
         [] type[1] = "String" -> <<"string", v>>
         [] type[1] = "ID" -> <<"string", Text(<<"ID", v>>)>>
         [] type[1] \in {"Int", "Float", "Boolean", "EnumValue"} -> <<type[1], v>>

\* Literals and variables may stand in one list, and both arrive.
LiteralArrives(type, v) ==
  LET variables == <<<<"v", ParseJSON(Write(Serialize(type, v)))>>>>
      list == VisitValue(<<"list", <<<<"variable", "v">>, Literal(type, v)>>>>, variables)
  IN  /\ list # <<>>
      /\ Require(<<type[1], <<"List">> \o type[2]>>, "list", <<"Map", <<<<"list", list[1]>>>>>>)
           = <<<<Arrived(type, v), Arrived(type, v)>>>>
      /\ VisitValue(<<"object", <<<<"a", <<"variable", "w">>>>>>>>, variables) = <<>>

\* A default of the schema is what a missing argument becomes, unless it is
\* null, which is like none.
DefaultArrives(type, v) ==
  LET default == Entry(VisitDefault(Literal(type, v)))
      field == [name |-> "a", type |-> type, default |-> default]
  IN  default # Null => ArgumentOf(field, <<"Map", <<>>>>) = <<Arrived(type, v)>>

\* What the client parses is what the resolver returned.
ResultArrives(type, v) == Parse(type, ParseJSON(Write(Result(type, v)))) = <<Arrived(type, v)>>

\* Every value that validateScalar lets pass can be parsed by the client, and
\* none of its parts is lost: written and read again it is the same.
ValidatedIsReadable(type, value) ==
  ValidScalar(type, value) =>
    LET parsed == Parse(type, ParseJSON(Write(value)))
    IN  parsed # <<>> /\ OnWire(Result(type, parsed[1])) = OnWire(value)
=============================================================================
