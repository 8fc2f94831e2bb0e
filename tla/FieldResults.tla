---------------------------- MODULE FieldResults ----------------------------
(***************************************************************************)
(* What becomes of the result that a field's accessor returns: a value, a  *)
(* future of one, or a response value for its own.  Its modifiers are      *)
(* peeled off one by one; a list starts the conversion of each element,    *)
(* with a path of its own, and then waits for them in turn, with one path  *)
(* that counts them again, for errors that are thrown.                     *)
(*                                                                         *)
(* A type is <<leaf, modifiers>>, the leaf being "Scalar" or "Object".  A  *)
(* value is <<>> or <<value>> for a nullable, a sequence for a list, and   *)
(* the outcome of converting a leaf: "value", "null" for an object that is *)
(* missing, "partial" for one with an error in a field, or what it throws, *)
(* "schema" being a schema_exception and "unknown" any other.              *)
(*                                                                         *)
(* What is returned is <<"value", value>>, <<"future", value>>, <<"thrown",*)
(* exception>> by a future, or <<"ready", b>>, b being whether the         *)
(* response value has the type.                                            *)
(***************************************************************************)
EXTENDS Integers, SequencesExt

Exceptions == {"schema", "unknown"}
NoPath == <<-1>>
Peeled(type) == <<type[1], Tail(type[2])>>

\* A conversion is done, or throws, some before there is a coroutine to do so.
Done(data, errors) == [is |-> "done", data |-> data, errors |-> errors]
Throws(exception, errors) == [is |-> exception, data |-> "null", errors |-> errors]
Thrown(exception) == Throws(exception, IF exception = "schema" THEN <<NoPath>> ELSE <<>>)

\* await_resume, of the result of an accessor or of an element.
AwaitScalar(returned) ==
  CASE returned[1] \in {"value", "future"} -> [is |-> "done", value |-> returned[2]]
    [] returned[1] = "thrown" -> [is |-> returned[2], value |-> "null"]
    [] returned[1] = "ready" -> [is |-> "unknown", value |-> "null"]
AwaitObject(returned) ==
  IF returned[1] = "thrown" THEN [is |-> returned[2], value |-> "null"] ELSE [is |-> "done", value |-> returned[2]]
Await(leaf, returned) == IF leaf = "Object" THEN AwaitObject(returned) ELSE AwaitScalar(returned)

\* A response value is validated and taken as it is.
GetValue(returned) == returned[1] = "ready"
Ready(returned) == IF returned[2] THEN Done("ready", <<>>) ELSE Thrown("schema")

-----------------------------------------------------------------------------
(* Results without modifiers.                                              *)

BlockSubFields(path, selection) == IF selection THEN Throws("refused", <<path>>) ELSE Done("null", <<>>)
RequireSubFields(path, selection) == IF selection THEN Done("null", <<>>) ELSE Throws("schema", <<path>>)

Resolve(returned, path) ==
  LET awaited == AwaitScalar(returned)
      outcome == IF awaited.is = "done" THEN awaited.value ELSE awaited.is
  IN  IF GetValue(returned) THEN Ready(returned)
      ELSE IF outcome \notin Exceptions THEN Done(outcome, <<>>)
      ELSE Done("null", IF outcome = "schema" THEN <<NoPath>> ELSE <<path>>)

ConvertScalar(returned, path, selection) ==
  IF BlockSubFields(path, selection).is # "done" THEN BlockSubFields(path, selection) ELSE Resolve(returned, path)

\* Object::resolve puts the names of fields after the path.
ConvertObject(returned, path, selection) ==
  LET awaited == AwaitObject(returned)
  IN  IF RequireSubFields(path, selection).is # "done" THEN RequireSubFields(path, selection)
      ELSE IF awaited.is # "done" THEN Thrown(awaited.is)
      ELSE IF awaited.value \in Exceptions THEN Thrown(awaited.value)
      ELSE Done(awaited.value, IF awaited.value = "partial" THEN <<Append(path, "f")>> ELSE <<>>)

ConvertLeaf(leaf, returned, path, selection) ==
  IF leaf = "Object" THEN ConvertObject(returned, path, selection) ELSE ConvertScalar(returned, path, selection)

-----------------------------------------------------------------------------
(* Modifiers.                                                              *)

RECURSIVE Convert(_, _, _, _)

\* A refusal is an exception like others once it is thrown in a coroutine.
InCoroutine(result) == IF result.is = "refused" THEN [result EXCEPT !.is = "schema"] ELSE result

ConvertNullable(type, returned, path, selection) ==
  LET awaited == Await(type[1], returned)
  IN  IF GetValue(returned) THEN Ready(returned)
      ELSE IF awaited.is # "done" THEN Thrown(awaited.is)
      ELSE IF awaited.value = <<>> THEN Done("null", <<>>)
      ELSE InCoroutine(Convert(Peeled(type), <<"value", awaited.value[1]>>, path, selection))

\* Mutant of Restarted: the count goes on after the last element.
GoesOn(count) == count

\* Where the second count of the elements begins.
Restarted(count) == 0

\* The loop that waits for the elements.
AddChild(document, child) ==
  [data |-> IF child.is = "done" THEN Append(document.data, child.data) ELSE document.data,
   errors |-> document.errors \o (IF child.is = "unknown" THEN <<Append(document.path, document.index)>> ELSE child.errors),
   path |-> document.path, index |-> document.index + 1]

ConvertList(type, returned, path, selection) ==
  LET awaited == Await(type[1], returned)
      list == awaited.value
      children == [i \in DOMAIN list |-> Convert(Peeled(type), <<"value", list[i]>>, Append(path, i - 1), selection)]
      document == FoldLeft(AddChild,
        [data |-> <<>>, errors |-> <<>>, path |-> path, index |-> Restarted(Len(list))], children)
  IN  IF GetValue(returned) THEN Ready(returned)
      ELSE IF awaited.is # "done" THEN Thrown(awaited.is)
      ELSE IF \E i \in DOMAIN list : children[i].is = "refused" THEN InCoroutine(children[1])
      ELSE Done(document.data, document.errors)

Convert(type, returned, path, selection) ==
  IF type[2] = <<>> THEN ConvertLeaf(type[1], returned, path, selection)
  ELSE IF Head(type[2]) = "Nullable" THEN ConvertNullable(type, returned, path, selection)
  ELSE ConvertList(type, returned, path, selection)

-----------------------------------------------------------------------------
(* What a value says.                                                      *)

RECURSIVE LeavesOf(_, _, _)
LeavesOf(type, value, path) ==
  IF type[2] = <<>> THEN {<<path, value>>}
  ELSE IF Head(type[2]) = "Nullable" THEN IF value = <<>> THEN {} ELSE LeavesOf(Peeled(type), value[1], path)
  ELSE UNION {LeavesOf(Peeled(type), value[i], Append(path, i - 1)) : i \in DOMAIN value}

\* An object that throws is left out of the list it is in.
IsLeftOut(type, value) ==
  /\ type[1] = "Object"
  /\ (type[2] = <<>> /\ value \in Exceptions) \/ (type[2] = <<"Nullable">> /\ value \in {<<e>> : e \in Exceptions})
RECURSIVE Shown(_, _)
Shown(type, value) ==
  IF type[2] = <<>> THEN IF value \in Exceptions THEN "null" ELSE value
  ELSE IF Head(type[2]) = "Nullable" THEN IF value = <<>> THEN "null" ELSE Shown(Peeled(type), value[1])
  ELSE LET kept == SelectSeq(value, LAMBDA element : ~IsLeftOut(Peeled(type), element))
       IN  [i \in DOMAIN kept |-> Shown(Peeled(type), kept[i])]

\* Every error of an element has the path of that element in what was returned,
\* no error is lost or reported twice, and all elements are there that did not
\* throw, in their order, however deep their list is.
ErrorsNameElements(type, value, result) ==
  LET leaves == LeavesOf(type, value, <<"field">>)
      Of(outcome) == {leaf \in leaves : leaf[2] = outcome}
      named == SelectSeq(result.errors, LAMBDA path : path # NoPath)
  IN  /\ result.is = "done" /\ result.data = Shown(type, value)
      /\ ToSet(named) = {leaf[1] : leaf \in Of("unknown")} \cup {Append(leaf[1], "f") : leaf \in Of("partial")}
      /\ IsInjective(named)
      /\ Len(result.errors) - Len(named) = Cardinality(Of("schema"))

\* A list says what each of its elements does; any other field is either done
\* or throws for its caller to report, as does one with fields where there
\* should be none, or without where there should be.
ResultFits(type, returned, selection) ==
  LET result == Convert(type, returned, <<"field">>, selection)
      isList == type[2] # <<>> /\ Head(type[2]) = "List"
  IN  /\ returned[1] \in {"value", "future"} /\ isList /\ (selection <=> type[1] = "Object") =>
           ErrorsNameElements(type, returned[2], result)
      /\ result.is = "done" /\ result.errors = <<>> /\ returned[1] = "ready" => result.data = "ready" /\ returned[2]
      /\ returned[1] = "thrown" => result.is # "done" \/ (result.data = "null" /\ Len(result.errors) = 1)
      /\ result.is = "refused" => type[1] = "Scalar" /\ selection
=============================================================================
