---------------------------- MODULE ResponseJson ----------------------------
(***************************************************************************)
(* Response values and the JSON text they are sent as.  Writer walks over  *)
(* a value and makes a call for each start, key, leaf and end, from which  *)
(* rapidjson writes the text.  On the other side rapidjson reports what it *)
(* reads to ResponseHandler, which has only two stacks to put the value    *)
(* together again: values that are not complete and keys that have no      *)
(* value yet.                                                              *)
(*                                                                         *)
(* A value is a pair of its type and its data:                             *)
(*   <<"Map", members>>, a sequence of <<key, value>>; <<"List", values>>; *)
(*   <<"String", <<text, origin>>>>, origin being "json" for a text that   *)
(*   may also be an enum value or an id, "input" for one that may be an id *)
(*   and "typed" for a string that is only that; <<"EnumValue", text>>;    *)
(*   <<"ID", id>>, id as in Base64; <<"Scalar", value>>; <<"Null", 0>>;    *)
(*   <<"Boolean", b>>; <<"Int", n>> and <<"Float", n>>.                    *)
(* A text is a sequence of characters, which Base64 can be applied to.     *)
(***************************************************************************)
EXTENDS Integers, SequencesExt

CONSTANT MaxInt       \* of 32 bits, and MaxUint of them unsigned

Base == INSTANCE Base64

MinInt == -MaxInt - 1
MaxUint == 2 * MaxInt + 1

Null == <<"Null", 0>>
Type(value) == value[1]
Names(members) == {members[i][1] : i \in DOMAIN members}

\* emplace_back leaves the first member of a name.
EmplaceMember(members, name, value) ==
  IF name \in Names(members) THEN members ELSE Append(members, <<name, value>>)

\* release<StringType>, of the three types that are written as a string.
Text(value) ==
  CASE Type(value) = "String" -> value[2][1]
    [] Type(value) = "EnumValue" -> value[2]
    [] Type(value) = "ID" -> IF value[2][1] = "bytes" THEN Base!Encode(value[2][2]) ELSE value[2][2]

-----------------------------------------------------------------------------
(* Writer::write.                                                          *)

RECURSIVE Write(_)
Write(value) ==
  CASE Type(value) = "Map" ->
         <<<<"StartObject", 0>>>>
           \o FlattenSeq([i \in DOMAIN value[2] |-> <<<<"Key", value[2][i][1]>>>> \o Write(value[2][i][2])])
           \o <<<<"EndObject", 0>>>>
    [] Type(value) = "List" ->
         <<<<"StartArray", 0>>>> \o FlattenSeq([i \in DOMAIN value[2] |-> Write(value[2][i])]) \o <<<<"EndArray", 0>>>>
    [] Type(value) \in {"String", "EnumValue", "ID"} -> <<<<"String", Text(value)>>>>
    [] Type(value) = "Scalar" -> Write(value[2])
    [] Type(value) = "Null" -> <<<<"Null", 0>>>>
    [] Type(value) = "Boolean" -> <<<<"Bool", value[2]>>>>
    [] Type(value) = "Int" -> <<<<"Number", value[2]>>>>
    [] Type(value) = "Float" -> <<<<"Double", value[2]>>>>

\* What the reader reports for what the writer wrote, or for the text of a
\* client: it sorts integers by sign and size.
ReadNumber(n) ==
  IF n \in 0..MaxUint THEN <<"Uint", n>>
  ELSE IF n \in MinInt..-1 THEN <<"Int", n>>
  ELSE IF n > 0 THEN <<"Uint64", n>> ELSE <<"Int64", n>>

Read(text) == [i \in DOMAIN text |-> IF text[i][1] = "Number" THEN ReadNumber(text[i][2]) ELSE text[i]]

-----------------------------------------------------------------------------
(* ResponseHandler.                                                        *)

\* Mutant of SetValue: the key stays on its stack.
SetValueKeepKey(handler, value) ==
  LET top == Last(handler.values)
      below == Front(handler.values)
  IN  IF Type(top) = "Map"
      THEN [handler EXCEPT !.values =
              Append(below, <<"Map", EmplaceMember(top[2], Last(handler.keys), value)>>)]
      ELSE IF Type(top) = "List"
      THEN [handler EXCEPT !.values = Append(below, <<"List", Append(top[2], value)>>)]
      ELSE [handler EXCEPT !.values = Append(below, value)]

\* The value on top of the stack takes the new one, by its type.
SetValue(handler, value) ==
  LET top == Last(handler.values)
      below == Front(handler.values)
  IN  IF Type(top) = "Map"
      THEN [values |-> Append(below, <<"Map", EmplaceMember(top[2], Last(handler.keys), value)>>),
            keys |-> Front(handler.keys)]
      ELSE IF Type(top) = "List"
      THEN [handler EXCEPT !.values = Append(below, <<"List", Append(top[2], value)>>)]
      ELSE [handler EXCEPT !.values = Append(below, value)]

\* Mutant of Number: the largest Int is taken for a Float.
NumberBelow(event) ==
  IF event[1] = "Int" \/ (event[1] = "Uint" /\ event[2] < MaxInt) THEN <<"Int", event[2]>> ELSE <<"Float", event[2]>>

\* Only what fits is an Int, and everything else is a Float.
Number(event) ==
  IF event[1] = "Int" \/ (event[1] = "Uint" /\ event[2] <= MaxInt) THEN <<"Int", event[2]>> ELSE <<"Float", event[2]>>

Push(handler, value) == [handler EXCEPT !.values = Append(@, value)]
Pop(handler) == SetValue([handler EXCEPT !.values = Front(@)], Last(handler.values))

Handle(handler, event) ==
  CASE event[1] = "Null" -> SetValue(handler, Null)
    [] event[1] = "Bool" -> SetValue(handler, <<"Boolean", event[2]>>)
    [] event[1] \in {"Int", "Uint", "Int64", "Uint64", "Double"} -> SetValue(handler, Number(event))
    [] event[1] = "String" -> SetValue(handler, <<"String", <<event[2], "json">>>>)
    [] event[1] = "StartObject" -> Push(handler, <<"Map", <<>>>>)
    [] event[1] = "Key" -> [handler EXCEPT !.keys = Append(@, event[2])]
    [] event[1] = "StartArray" -> Push(handler, <<"List", <<>>>>)
    [] event[1] \in {"EndObject", "EndArray"} -> Pop(handler)

Parsed(text) == FoldLeft(Handle, [values |-> <<Null>>, keys |-> <<>>], Read(text))
ParseJSON(text) == Last(Parsed(text).values)

-----------------------------------------------------------------------------
(* What a value becomes on the way, said without stacks.                   *)

RECURSIVE OnWire(_)
OnWire(value) ==
  CASE Type(value) = "Map" ->
         <<"Map", FoldLeft(LAMBDA members, member : EmplaceMember(members, member[1], OnWire(member[2])), <<>>, value[2])>>
    [] Type(value) = "List" -> <<"List", [i \in DOMAIN value[2] |-> OnWire(value[2][i])]>>
    [] Type(value) \in {"String", "EnumValue", "ID"} -> <<"String", <<Text(value), "json">>>>
    [] Type(value) = "Scalar" -> OnWire(value[2])
    [] Type(value) = "Int" -> IF value[2] \in MinInt..MaxInt THEN value ELSE <<"Float", value[2]>>
    [] Type(value) \in {"Null", "Boolean", "Float"} -> value

\* The stacks put every text together to what it says, of members with the
\* same name the first, and are empty again at the end.
ArrivesWhole(value) ==
  LET parsed == Parsed(Write(value))
  IN  parsed.keys = <<>> /\ parsed.values = <<OnWire(value)>>
=============================================================================
