------------------------- MODULE ValidatedExecution -------------------------
(***************************************************************************)
(* What validation promises to the execution of a document, stated over    *)
(* what Object::resolve selects and not over what the validator visits:    *)
(* for every object that can be met, the first field of each response name *)
(* is one that the object has, with the arguments it needs and variables   *)
(* of the operation.                                                       *)
(***************************************************************************)
EXTENDS Validation

Fragment(doc, name) ==
  LET all == OfKind(doc, "fragment")
  IN  all[CHOOSE i \in DOMAIN all : all[i].name = name /\ \A j \in 1..(i - 1) : all[j].name # name]
HasFragment(doc, name) == \E i \in DOMAIN doc : doc[i].kind = "fragment" /\ doc[i].name = name

MatchesType(object, name) ==
  name = object \/ (name \in DOMAIN Types /\ object \in Types[name].possible)
Objects(type) == IF Kind(type) = "OBJECT" THEN {type[1]} ELSE Types[type[1]].possible

\* The fields that an object selects, in order; <<"broken">> stands for a
\* spread of a fragment that is not there or is being spread already.
Broken == [kind |-> "broken"]
RECURSIVE Selected(_, _, _, _)
Selected(doc, object, sel, inside) ==
  FlattenSeq([i \in DOMAIN sel |->
    LET node == sel[i]
    IN  CASE node.kind = "field" -> <<node>>
          [] node.kind = "inline" ->
               IF node.on = "" \/ MatchesType(object, node.on)
               THEN Selected(doc, object, node.sel, inside) ELSE <<>>
          [] node.kind = "spread" ->
               IF node.name \in inside \/ ~HasFragment(doc, node.name) THEN <<Broken>>
               ELSE LET f == Fragment(doc, node.name)
                    IN  IF MatchesType(object, f.on)
                        THEN Selected(doc, object, f.sel, inside \cup {node.name}) ELSE <<>>])

RECURSIVE VariablesIn(_)
VariablesIn(value) ==
  CASE value.kind = "variable" -> {value.name}
    [] value.kind = "list" -> UNION {VariablesIn(value.values[i]) : i \in DOMAIN value.values}
    [] value.kind = "object" -> UNION {VariablesIn(value.fields[i][2]) : i \in DOMAIN value.fields}
    [] OTHER -> {}
ArgumentsOf(field) ==
  field.args \o FlattenSeq([i \in DOMAIN field.dirs |-> field.dirs[i].args])
Uses(field) == UNION {VariablesIn(ArgumentsOf(field)[i][2]) : i \in DOMAIN ArgumentsOf(field)}

Needs(defined) == {n \in DOMAIN defined : defined[n].default = "none" /\ Kind(defined[n].type) = "NON_NULL"}
Given(args) == {n \in DOMAIN Fn(args) : Fn(args)[n].kind # "null"}

First(fields, i) == \A j \in 1..(i - 1) : Alias(fields[j]) # Alias(fields[i])

RECURSIVE Executes(_, _, _, _)
FieldExecutes(doc, object, field, declared) ==
  LET fields == ScopedTypeFields(<<object>>)
      inner == Named(fields[field.name].type)
  IN  /\ field.kind = "field"
      /\ field.name \in DOMAIN fields
      /\ DOMAIN Fn(field.args) \subseteq DOMAIN fields[field.name].args
      /\ Needs(fields[field.name].args) \subseteq Given(field.args)
      /\ Uses(field) \subseteq declared
      /\ IF Composite(inner)
         THEN field.sel # <<>> /\ \A o \in Objects(inner) : Executes(doc, o, field.sel, declared)
         ELSE field.sel = <<>>
Executes(doc, object, sel, declared) ==
  LET all == Selected(doc, object, sel, {})
  IN  /\ Broken \notin Range(all)
      /\ \A i \in DOMAIN all : First(all, i) => FieldExecutes(doc, object, all[i], declared)

OperationExecutes(doc, op) ==
  /\ op.op \in DOMAIN OperationTypes
  /\ Executes(doc, OperationTypes[op.op], op.sel, {op.vars[i].name : i \in DOMAIN op.vars})
Executable(doc) == \A i \in DOMAIN doc : doc[i].kind = "operation" => OperationExecutes(doc, doc[i])

\* The response names of an object tell its fields apart: two fields of one
\* name are the same field with the same arguments.
RECURSIVE Unambiguous(_, _, _)
Unambiguous(doc, object, sel) ==
  LET all == Selected(doc, object, sel, {})
      fields == ScopedTypeFields(<<object>>)
      Inner(i) == Named(fields[all[i].name].type)
  IN  \A i, j \in DOMAIN all :
        /\ Alias(all[i]) = Alias(all[j]) => /\ all[i].name = all[j].name
                                           /\ AsArguments(all[i]) = AsArguments(all[j])
        /\ First(all, i) /\ Composite(Inner(i)) =>
             \A o \in Objects(Inner(i)) : Unambiguous(doc, o, all[i].sel)
NamesAreDistinct(doc) ==
  \A i \in DOMAIN doc :
    doc[i].kind = "operation" => Unambiguous(doc, OperationTypes[doc[i].op], doc[i].sel)
=============================================================================
