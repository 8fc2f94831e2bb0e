------------------------------ MODULE MCLibrary ------------------------------
(***************************************************************************)
(* The containers and conversions of the library, one in each behaviour:   *)
(* a state machine, or the operators of a module, which are applied to one *)
(* input in each initial state.                                            *)
(***************************************************************************)
EXTENDS SortedMap, SchemaTypes, GeneratedService, SampleSchemas, ParsedDocuments, SampleDocuments, SampleRequests

VARIABLES
  component,   \* the one this behaviour is about
  input,       \* what its operators are applied to
  held         \* the response value that is called

T == INSTANCE TypeModifiers
B == INSTANCE Base64

\* Texts are sequences of the characters of Base64, and integers have 3 bits.
MCLeaves ==
  [Int |-> {0, -4, 3}, Float |-> {0, 5}, String |-> {<<>>, <<26>>}, Boolean |-> BOOLEAN,
   EnumValue |-> {<<0>>, <<1>>}, ID |-> {<<"bytes", <<1, 2>>>>, <<"opaque", <<65>>>>},
   Value |-> {<<"Null", 0>>, <<"EnumValue", <<0>>>>, <<"List", <<<<"Float", 5>>>>>>}]
MCFields ==
  <<[name |-> "count", type |-> <<"Int", <<"Nullable">>>>, default |-> <<"Int", 3>>],
    [name |-> "kind", type |-> <<"EnumValue", <<>>>>, default |-> <<"EnumValue", <<1>>>>],
    [name |-> "ids", type |-> <<"ID", <<"List">>>>, default |-> <<"Null", 0>>]>>
V == INSTANCE TypedValues WITH
  MaxInt <- 3, EnumNames <- <<<<0>>, <<1>>>>, Fields <- MCFields, Leaves <- MCLeaves

\* Integers of a text may be of any size, and names may come twice.
MCNumbers == {<<"Int", n>> : n \in {-5, -4, 3, 4, 7, 8}}
MCSomeLeaves == {<<"Int", 1>>, <<"String", <<<<0>>, "typed">>>>}
MCTrees(values, n) ==
  {<<"List", list>> : list \in BoundedSeq(values, n)}
    \cup {<<"Map", members>> : members \in BoundedSeq({"a", "b"} \X values, n)}
MCSmallTrees == MCSomeLeaves \cup MCTrees(MCSomeLeaves, 2)
MCResponses ==
  MCNumbers \cup UNION {{V!Result(<<leaf, <<>>>>, v) : v \in MCLeaves[leaf]} : leaf \in DOMAIN MCLeaves}
    \cup {<<"Scalar", <<"ID", <<"bytes", <<1>>>>>>>>} \cup MCTrees(MCSmallTrees, 2)
    \cup MCTrees(MCTrees(MCTrees(MCSomeLeaves, 1), 1), 1)

\* A resolver's own values: of every type, and lists of them.
MCOwnLeaves ==
  {<<"Null", 0>>, <<"Int", 1>>, <<"Float", 1>>, <<"Boolean", TRUE>>, <<"String", <<<<0>>, "typed">>>>,
   <<"String", <<<<0>>, "json">>>>, <<"EnumValue", <<0>>>>, <<"EnumValue", <<2>>>>, <<"ID", <<"bytes", <<1>>>>>>}
MCOwn == MCOwnLeaves \cup {<<"List", list>> : list \in BoundedSeq(MCOwnLeaves, 2)}
           \cup {<<"List", <<<<"List", <<leaf>>>>>>>> : leaf \in MCOwnLeaves}
\* Errors with and without a location and a path, one alone or after another.
A == INSTANCE ServiceResponse WITH MaxInt <- 3
MCSegments == {<<"name", <<1>>>>, <<"name", <<>>>>, <<"index", 0>>, <<"index", 3>>}
MCErrors ==
  [message : {<<>>, <<0, 1>>}, line : {0, 2}, column : {0, 3}, path : BoundedSeq(MCSegments, 2)]
MCAnswers ==
  {<<"Null", 0>>, <<"Map", <<<<"a", <<"Int", 1>>>>>>>>}
    \X ({<<>>} \cup {<<e>> : e \in MCErrors} \cup {<<e, [e EXCEPT !.path = <<>>, !.line = 1]>> : e \in MCErrors})

F == INSTANCE FieldResults
MCOutcomes(leaf) == {"value", "schema", "unknown"} \cup (IF leaf = "Object" THEN {"partial"} ELSE {})
MCFieldValues(leaf) ==
  LET outcomes == MCOutcomes(leaf)
      nullable == {<<>>} \cup {<<o>> : o \in outcomes}
  IN  ({<<<<leaf, <<>>>>, o>> : o \in outcomes} \cup {<<<<leaf, <<"Nullable">>>>, v>> : v \in nullable}
      \cup {<<<<leaf, <<"List">>>>, v>> : v \in BoundedSeq(outcomes, 3)}
      \cup {<<<<leaf, <<"List", "Nullable">>>>, v>> : v \in BoundedSeq(nullable, 3)}
      \cup {<<<<leaf, <<"Nullable", "List">>>>, v>> : v \in {<<>>} \cup {<<l>> : l \in BoundedSeq(outcomes, 2)}}
      \cup {<<<<leaf, <<"List", "List">>>>, v>> : v \in BoundedSeq(BoundedSeq(outcomes, 2), 2)})
MCReturned ==
  UNION {{<<v[1], <<how, v[2]>>>> : v \in MCFieldValues(leaf), how \in {"value", "future"}} : leaf \in {"Scalar", "Object"}}
    \cup {<<<<leaf, modifiers>>, <<"thrown", e>>>> :
            leaf \in {"Scalar", "Object"}, modifiers \in BoundedSeq({"Nullable", "List"}, 2), e \in {"schema", "unknown"}}
    \cup {<<<<"Scalar", modifiers>>, <<"ready", b>>>> : modifiers \in BoundedSeq({"Nullable", "List"}, 2), b \in BOOLEAN}

G == INSTANCE GeneratedClient WITH ClientSchema <- MCClientSchema

\* Of equal texts and ids, one shared, and one text that is no Base64.
MCSetLeaves ==
  {<<"Int", 1>>, <<"String", <<<<1, 2>>, {}>>>>, <<"EnumValue", <<0, 16>>>>, <<"ID", <<"bytes", <<1>>>>>>,
   <<"Scalar", <<<<"Int", 1>>>>>>, <<"Shared", <<"String", <<<<0, 16>>, {"json"}>>>>>>}
P == INSTANCE ResponseValue WITH
  MaxInt <- 3, Alphabet <- <<"a", "b", "c">>, Leaves <- MCSetLeaves, MaxMembers <- 3, MaxShared <- 2

MCModifiers == {m \in BoundedSeq({"Nullable", "List"}, 3) : \A i \in 1..(Len(m) - 1) : m[i] # m[i + 1] \/ m[i] = "List"}
MCTypes == ((DOMAIN MCLeaves) \X MCModifiers) \cup ({"Object"} \X BoundedSeq({"Nullable", "List"}, 1))

MCTypeNames == {"A", "B", "C", "N", "O"}
NoLists == {}

MCKeys == {<<2>>, <<1, 1>>, <<1>>, <<2, 1>>}
MCOrder == {<<a, b>> \in MCKeys \X MCKeys : ShorterOrLess(a, b)}
MCInitial == {[k \in {} |-> 0], [k \in {<<1>>, <<2>>, <<1, 1>>} |-> Len(k)]}

\* Digits with and without the bits a short tail must not have.
MCCharacters == {0, 16, 63, 64, 65}
MCTexts == BoundedSeq(MCCharacters, 5) \cup BoundedSeq({0, 63, 64}, 6)
MCBytes == BoundedSeq({0, 255}, 4) \cup BoundedSeq({0, 4, 255}, 2)

\* Strings without escapes, in quotes and over lines.
MCStrings ==
  {<<"dq">> \o s \o <<"dq">> : s \in BoundedSeq({"c", "_"}, 3)}
    \cup {<<"dq", "dq", "dq">> \o s \o <<"dq", "dq", "dq">> : s \in BoundedSeq({"_", "c", "nl"}, 6)}

Inputs ==
  \/ component \in {"sorted_map", "schema types", "schema loader", "response values"} /\ input = <<>>
  \/ component = "type modifiers" /\ input \in T!SchemaTypesUpTo(6)
  \/ component = "base64" /\ input \in MCTexts
  \/ component = "json" /\ input \in MCResponses
  \/ component = "values" /\ input \in UNION {{type} \X V!CppValues(type, IF type[1] = "Object" \/ Len(type[2]) > 2 THEN 1 ELSE 2) : type \in MCTypes}
  \/ component = "own values" /\ input \in ((DOMAIN MCLeaves) \X MCModifiers) \X MCOwn
  \/ component = "field results" /\ input \in MCReturned \X BOOLEAN
  \/ component = "answers" /\ input \in MCAnswers
  \/ component = "queries" /\ input \in ExecutableDocuments
  \/ component = "definitions" /\ input \in SchemaDocuments
  \/ component = "refused" /\ input \in RefusedDocuments
  \/ component = "strings" /\ input \in MCStrings
  \/ component = "requests" /\ input \in MCRequests
  \/ component = "ids" /\ input \in MCBytes \X MCBytes

NoDocument ==
  /\ document = <<>> /\ isIntrospection = FALSE /\ phase = "none" /\ current = 0
  /\ NoSchema /\ OrderInit

Init ==
  /\ component \in {"sorted_map", "schema types", "schema loader", "type modifiers", "base64", "ids", "json", "values",
                    "own values", "answers", "queries", "definitions", "refused", "strings", "requests",
                    "response values", "field results"}
  /\ Inputs
  /\ MapInit /\ WrapInit
  /\ component # "sorted_map" => data = <<>>
  /\ IF component = "response values" THEN P!ValueInit ELSE held = <<"Null", 0>>
  /\ IF component = "schema loader" THEN LoaderInit ELSE NoDocument

Next ==
  /\ UNCHANGED <<component, input>>
  /\ \/ component = "sorted_map" /\ MapNext /\ UNCHANGED <<wrapVars, loaderVars, held>>
     \/ component = "schema types" /\ WrapNext /\ UNCHANGED <<mapVars, loaderVars, held>>
     \/ component = "schema loader" /\ LoaderNext /\ UNCHANGED <<mapVars, wrapVars, held>>
     \/ component = "response values" /\ P!ValueNext /\ UNCHANGED <<mapVars, wrapVars, loaderVars>>

Spec ==
  /\ Init /\ [][Next]_<<component, input, held, mapVars, wrapVars, loaderVars>>
  /\ WrapFairness /\ WF_loaderVars(LoaderNext)

-----------------------------------------------------------------------------
\* The modifiers of a type are the same by both ways from the type, and both
\* ways back give the type; and the C++ types that the generators write are
\* those of the templates that the written code calls (TypeVisitor,
\* unwrapSchemaType, getSchemaType, getIntrospectionType, getInputCppType,
\* getOutputCppType and the traits).
TypesAgree == component = "type modifiers" => T!RoundTrips(input) /\ T!WrittenTypesMatch(input)

\* An id kept as bytes and the Base64 text of an id compare as their bytes
\* do, and fromBase64, compareBase64 and validateBase64 accept the same texts.
IdsCompareAsBytes ==
  /\ component = "base64" => B!WalksAgree(input)
  /\ component = "ids" => B!IdsAgree(input[1], input[2])

\* A document gives the tree of what is written in it, however the blanks
\* between its tokens are, and is not read as another one where blanks are
\* missing that the grammar needs; it is refused by a depth limit if a
\* selection set is nested deeper, counting the one that is looked for after a
\* field; and plain strings have their values.  A few forms that GraphQL has are
\* refused (Grammar.h, the selectors, depth_guard, unescaped_view).
DocumentsAreRead ==
  /\ component = "queries" =>
       /\ Reads(graphql(Wide(input)), input.nodes)
       /\ NeverMisreads(graphql(Tight(input)), input.nodes)
       /\ \A limit \in 1..4 :
            LET result == parseString(Narrow(input), limit)
            IN  IF Deepest(input.nodes) <= limit THEN Reads(result, input.nodes) ELSE result.is = "error"
  /\ component = "definitions" =>
       /\ \A text \in {Wide(input), Narrow(input)} : Reads(parseSchemaString(text, NoLimit), input.nodes)
       /\ NeverMisreads(parseSchemaString(Tight(input), NoLimit), input.nodes)
  /\ component = "refused" =>
       \A result \in {graphql(Wide(input)), parseSchemaString(Wide(input), NoLimit)} : result.is = "error"
  /\ component = "strings" => PlainStringsArrive(input)

\* What the generators write for a schema or a request is C++ that compiles:
\* types are defined once and before they are needed, what is called is
\* defined, and arguments and the fields of a response have the types that
\* the templates convert them from and to (SchemaGenerator, ClientGenerator).
GeneratedCodeFits == ServiceCodeFits /\ (component = "requests" => G!RequestFits(input))

\* What a client's generated code serializes arrives as an argument of the
\* same value at the service; so does a literal of a document next to a
\* variable, and a default of the schema if its type is not nullable and has
\* no ID in it (ModifiedVariable, ValueVisitor, DefaultValueVisitor,
\* getArgumentDefaultValue, ModifiedArgument).
ArgumentsArrive ==
  component = "values" =>
    /\ V!VariableArrives(input[1], input[2])
    /\ input[1][1] # "Value" => V!LiteralArrives(input[1], input[2])
    /\ input[1][1] \notin {"Value", "ID", "Object"} /\ V!NextModifier(input[1]) # "Nullable" =>
         V!DefaultArrives(input[1], input[2])

\* What a resolver returns is what the client parses, and validateScalar lets
\* nothing pass that it could not parse; any value of a response is put
\* together again from its JSON text, and of its numbers those that are no
\* GraphQL Int become Floats; and so do the errors that a request reports
\* (ModifiedResult, Writer, ResponseHandler, ModifiedResponse, buildErrorValues,
\* parseServiceResponse).
AnswersArrive ==
  /\ component = "values" => V!ResultArrives(input[1], input[2])
  /\ component = "own values" => V!ValidatedIsReadable(input[1], input[2])
  /\ component = "json" => V!ArrivesWhole(input)
  /\ component = "field results" => F!ResultFits(input[1][1], input[1][2], input[2])
  /\ component = "answers" => A!AnswerArrives(input[1], input[2])

\* A response value answers and compares as what it holds, whatever was called
\* before and whether or not others share it; its members are found by their
\* names, and an id is the same as its text (Value, IdType).
ValuesAnswerAlike == component = "response values" => P!ValueFits

=============================================================================
