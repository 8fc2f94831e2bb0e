-------------------------- MODULE ServiceResponse --------------------------
(***************************************************************************)
(* The document a service answers with, made of the data and the errors of *)
(* a request, and its two parts as a client gets them.                     *)
(*                                                                         *)
(* A schema_error is a record of a message, a line and a column, which are *)
(* 0 when there is none, and a field path: the segments from the field at  *)
(* fault out to the root, as each field_path refers to its parent.  A      *)
(* segment is <<"name", text>> or <<"index", n>>.                          *)
(***************************************************************************)
EXTENDS ResponseJson

\* static_cast<int> of a size_t
AsInt(n) == ((n - MinInt) % (MaxUint + 1)) + MinInt

\* What is not convertible to a member of a client's struct is left out.
Member(members, name, otherwise, Convert(_)) ==
  FoldLeft(LAMBDA value, member : IF member[1] = name THEN Convert(member[2]) ELSE value, otherwise, members)

-----------------------------------------------------------------------------
(* The service.                                                            *)

BuildErrorPath(path) == Reverse(path)

LineAndColumn(location) ==
  <<"Map", <<<<"line", <<"Int", AsInt(location.line)>> >>, <<"column", <<"Int", AsInt(location.column)>> >> >> >>

\* Mutant of ErrorLocation: an unknown location is sent too.
ErrorLocationAlways(location) == <<<<"locations", <<"List", <<LineAndColumn(location)>> >> >> >>

ErrorLocation(location) ==
  IF location.line = 0 THEN <<>> ELSE <<<<"locations", <<"List", <<LineAndColumn(location)>> >> >> >>

PathSegment(segment) ==
  IF segment[1] = "name" THEN <<"String", <<segment[2], "typed">> >> ELSE <<"Int", AsInt(segment[2])>>

ErrorPath(path) ==
  IF path = <<>> THEN <<>> ELSE <<<<"path", <<"List", [i \in DOMAIN path |-> PathSegment(path[i])]>> >> >>

BuildErrorValues(errors) ==
  <<"List", [i \in DOMAIN errors |->
     <<"Map", <<<<"message", <<"String", <<errors[i].message, "typed">> >> >> >>
                \o ErrorLocation(errors[i]) \o ErrorPath(BuildErrorPath(errors[i].path))>>]>>

\* An exception leaves no data and its own errors.
Answer(data, errors) ==
  <<"Map", <<<<"data", data>>>> \o (IF errors = <<>> THEN <<>> ELSE <<<<"errors", BuildErrorValues(errors)>>>>)>>

-----------------------------------------------------------------------------
(* The client.                                                             *)

ParseErrorLocation(location) ==
  LET Part(name) ==
        Member(location[2], name, 0, LAMBDA value : IF Type(value) = "Int" THEN value[2] ELSE 0)
  IN  IF Type(location) = "Map" THEN [line |-> Part("line"), column |-> Part("column")]
      ELSE [line |-> 0, column |-> 0]

ParseErrorPathSegment(segment) ==
  CASE Type(segment) = "Int" -> <<"index", segment[2]>>
    [] Type(segment) = "String" -> <<"name", Text(segment)>>
    [] OTHER -> <<"index", 0>>

ListOf(value, Convert(_)) ==
  IF Type(value) = "List" THEN [i \in DOMAIN value[2] |-> Convert(value[2][i])] ELSE <<>>

ParseError(error) ==
  LET members == IF Type(error) = "Map" THEN error[2] ELSE <<>>
      Message(value) == IF Type(value) = "String" THEN Text(value) ELSE <<>>
  IN  [message |-> Member(members, "message", <<>>, Message),
       locations |-> Member(members, "locations", <<>>, LAMBDA value : ListOf(value, ParseErrorLocation)),
       path |-> Member(members, "path", <<>>, LAMBDA value : ListOf(value, ParseErrorPathSegment))]

ParseServiceResponse(response) ==
  LET members == IF Type(response) = "Map" THEN response[2] ELSE <<>>
  IN  [data |-> Member(members, "data", Null, LAMBDA value : value),
       errors |-> Member(members, "errors", <<>>, LAMBDA value : ListOf(value, ParseError))]

-----------------------------------------------------------------------------
\* Every error arrives, in order, with its message, with its location if it
\* has one and the names and indices of its path from the root on, next to
\* the same data.
AnswerArrives(data, errors) ==
  ParseServiceResponse(ParseJSON(Write(Answer(data, errors)))) =
    [data |-> OnWire(data),
     errors |-> [i \in DOMAIN errors |->
       [message |-> errors[i].message,
        locations |-> IF errors[i].line = 0 THEN <<>>
                      ELSE <<[line |-> errors[i].line, column |-> errors[i].column]>>,
        path |-> [j \in DOMAIN errors[i].path |-> errors[i].path[Len(errors[i].path) + 1 - j]]]]]
=============================================================================
