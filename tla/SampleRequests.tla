--------------------------- MODULE SampleRequests ---------------------------
(***************************************************************************)
(* A schema as clientgen has it, and request documents that are valid for  *)
(* it: selections with aliases, fragments on interfaces, objects and       *)
(* unions, inputs that hold each other, and documents with two operations. *)
(***************************************************************************)
EXTENDS Naturals, SequencesExt

LOCAL Has(name, type, modifiers) == [name |-> name, type |-> type, modifiers |-> modifiers]
LOCAL Leaf(kind) == [kind |-> kind, fields |-> <<>>, inputFields |-> <<>>]
LOCAL Holds(fields) == [Leaf("input") EXCEPT !.inputFields = fields]
LOCAL Composite(kind, fields) == [Leaf(kind) EXCEPT !.fields = fields]
LOCAL OfI == <<Has("x", "Int", <<"Nullable">>), Has("e", "E", <<>>), Has("o", "O", <<"Nullable">>)>>

MCClientSchema ==
  [operations |-> [query |-> "Query", mutation |-> "Mutation"],
   types |->
     [Int |-> Leaf("scalar"), String |-> Leaf("scalar"), E |-> Leaf("enum"), D |-> Leaf("enum"),
      A |-> Holds(<<Has("b", "B", <<"Nullable">>), Has("e", "E", <<>>)>>),
      B |-> Holds(<<Has("a", "A", <<"List">>), Has("c", "C", <<>>)>>),
      C |-> Holds(<<Has("d", "D", <<"Nullable">>), Has("n", "Int", <<>>)>>),
      Query |-> Composite("object",
        <<Has("i", "I", <<>>), Has("l", "O", <<"Nullable", "List">>), Has("u", "U", <<"Nullable">>),
          Has("n", "Int", <<>>), Has("e", "E", <<"List">>)>>),
      Mutation |-> Composite("object", <<Has("i", "I", <<>>), Has("d", "D", <<>>)>>),
      I |-> Composite("interface", OfI),
      O |-> Composite("object", Append(OfI, Has("d", "D", <<>>))),
      P |-> Composite("object", Append(OfI, Has("y", "String", <<>>))),
      U |-> Composite("union", <<>>)]
     @@ ("__Type" :> Composite("object", <<Has("name", "String", <<"Nullable">>)>>))]

-----------------------------------------------------------------------------
Field(name, selection) == [is |-> "field", name |-> name, response |-> name, selection |-> selection]
Alias(response, node) == [node EXCEPT !.response = response]
Spread(name) == [is |-> "spread", name |-> name]
Inline(on, selection) == [is |-> "inline", on |-> on, selection |-> selection]

NodeX == Field("x", <<>>)
NodeE == Field("e", <<>>)
NodeTypename == Field("__typename", <<>>)

\* What may be selected of the interface, and of the union of its objects.
OfEither ==
  {NodeTypename, Spread("F"), Spread("G"), Inline(<<"O">>, <<Field("d", <<>>), NodeX>>),
   Inline(<<"P">>, <<Alias("d", Field("y", <<>>))>>), Inline(<<"I">>, <<Field("o", <<NodeX>>)>>)}
OfInterface ==
  OfEither \cup {NodeX, NodeE, Alias("x", Field("x", <<>>)), Alias("y", NodeX), Field("o", <<NodeE, Spread("F")>>), Field("o", <<NodeX>>),
                 Inline(<<>>, <<NodeX, Alias("z", NodeE)>>)}

Selections(nodes) == {s \in BoundedSeq(nodes, 2) : s # <<>>}
OfQuery ==
  {Field("n", <<>>), NodeE, NodeTypename, Alias("i", Field("n", <<>>)), Alias("__type", Field("__type", <<Field("name", <<>>)>>)),
   Field("i", <<NodeX>>), Alias("j", Field("i", <<Spread("G")>>)), Field("l", <<NodeE, Field("d", <<>>)>>),
   Field("u", <<NodeTypename, Spread("F")>>), Inline(<<"Query">>, <<Field("n", <<>>), Field("i", <<NodeX>>)>>)}

Fragments ==
  {<<[name |-> "F", on |-> "I", selection |-> f], [name |-> "G", on |-> "O", selection |-> g]>> :
     f \in {<<NodeX>>, <<NodeE, Inline(<<"P">>, <<Field("y", <<>>)>>)>>, <<NodeTypename, Field("o", <<NodeX>>)>>},
     g \in {<<Field("d", <<>>)>>, <<NodeX, Spread("F")>>}}

Operation(name, variables, selection) ==
  [operation |-> "query", name |-> name, variables |-> variables, selection |-> selection]
Request(operations, name, fragments) == [operations |-> operations, operationName |-> name, fragments |-> fragments]

Variable(name, type, wrappers, default) == [name |-> name, type |-> type, wrappers |-> wrappers, default |-> default]
Variables ==
  {Variable("a", "A", <<"NON_NULL">>, "none"), Variable("b", "B", <<>>, "null"),
   Variable("c", "C", <<"LIST", "NON_NULL">>, "null"), Variable("c", "C", <<"NON_NULL", "LIST", "NON_NULL">>, "value"),
   Variable("e", "E", <<"NON_NULL">>, "value"), Variable("n", "Int", <<"NON_NULL">>, "none")}
TwoVariables == {v \in BoundedSeq(Variables, 2) : Len(v) = 2 => v[1].name # v[2].name}

\* One operation with every selection, or every list of variables, or two
\* operations, which may share types, and of which one may be chosen.
MCRequests ==
  {Request(<<Operation("", <<>>, s)>>, <<>>, f) :
     s \in Selections(OfQuery) \cup {<<Field("i", t)>> : t \in Selections(OfInterface)} \cup {<<Field("u", t)>> : t \in Selections(OfEither)},
     f \in Fragments}
  \cup
  {Request(<<Operation("q", v, <<Field("n", <<>>)>>), second>>, chosen, CHOOSE f \in Fragments : TRUE) :
     v \in TwoVariables, chosen \in {<<>>, <<"q">>, <<"r">>},
     second \in {Operation("r", <<Variable("e", "E", <<"NON_NULL">>, "none"), Variable("b", "B", <<"NON_NULL">>, "none")>>, <<NodeE>>),
                 [Operation("r", <<>>, <<Field("d", <<>>), Field("i", <<Field("o", <<NodeE>>)>>)>>) EXCEPT !.operation = "mutation"]}}
=============================================================================
