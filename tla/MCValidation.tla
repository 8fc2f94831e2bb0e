---------------------------- MODULE MCValidation ----------------------------
(* Documents and a schema for Validation, SubscriptionDefinition and       *)
(* ValidationService.                                                      *)
EXTENDS SubscriptionDefinition, ValidationService

CONSTANTS FirstDocuments, OtherDocuments    \* thread t1's and the others'

-----------------------------------------------------------------------------
(* The schema: a query for pets, a mutation, a subscription to news.       *)
Plain(type) == [type |-> type, args |-> <<>>]
Input(type, default) == [type |-> type, default |-> default]
Type(kind, fields, possible, inputs, values) ==
  [kind |-> kind, fields |-> fields, possible |-> possible, inputs |-> inputs, values |-> values]
Object(fields) == Type("OBJECT", fields, {}, <<>>, {})
Scalar == Type("SCALAR", <<>>, {}, <<>>, {})
Dogs == [name |-> Plain(<<"String">>), pet |-> Plain(<<"Pet">>), nick |-> Plain(<<"String">>)]
Cats == [name |-> Plain(<<"String">>), pet |-> Plain(<<"Pet">>), lives |-> Plain(<<"Int">>)]
SchemaTypes ==
  [Query |-> Object([pet |-> Plain(<<"NON_NULL", "Pet">>),
                     any |-> Plain(<<"LIST", "Any">>),
                     find |-> [type |-> <<"String">>,
                               args |-> [by |-> Input(<<"Filter">>, "none"),
                                         max |-> Input(<<"NON_NULL", "Int">>, "value"),
                                         id |-> Input(<<"NON_NULL", "ID">>, "none")]]]),
   Mutation |-> Object([add |-> Plain(<<"Dog">>)]),
   Subscription |-> Object([news |-> Plain(<<"Dog">>), alert |-> Plain(<<"String">>)]),
   Pet |-> Type("INTERFACE", [name |-> Plain(<<"String">>), pet |-> Plain(<<"Pet">>)], {"Dog", "Cat"}, <<>>, {}),
   Any |-> Type("UNION", <<>>, {"Dog", "Cat"}, <<>>, {}),
   Dog |-> Object(Dogs), Cat |-> Object(Cats),
   Filter |-> Type("INPUT_OBJECT", <<>>, {},
                   [color |-> Input(<<"NON_NULL", "Color">>, "none"),
                    sizes |-> Input(<<"LIST", "NON_NULL", "Int">>, "null")], {}),
   Color |-> Type("ENUM", <<>>, {}, <<>>, {"RED"}),
   String |-> Scalar, Int |-> Scalar, ID |-> Scalar, Boolean |-> Scalar,
   __Schema |-> Object([types |-> Plain(<<"String">>)]),
   __Type |-> Object([kind |-> Plain(<<"String">>)])]
AllOperationTypes == [query |-> "Query", mutation |-> "Mutation", subscription |-> "Subscription"]
NoMutation == [query |-> "Query", subscription |-> "Subscription"]
Condition == [if |-> Input(<<"NON_NULL", "Boolean">>, "none")]
SchemaDirectives ==
  [skip |-> [repeatable |-> FALSE, locations |-> {"FIELD", "FRAGMENT_SPREAD", "INLINE_FRAGMENT"}, args |-> Condition],
   include |-> [repeatable |-> FALSE, locations |-> {"FIELD", "FRAGMENT_SPREAD", "INLINE_FRAGMENT"}, args |-> Condition],
   tag |-> [repeatable |-> TRUE, locations |-> {"QUERY", "FIELD", "FRAGMENT_DEFINITION"}, args |-> <<>>]]
RequestVariables == [yes |-> TRUE]

-----------------------------------------------------------------------------
(* Values, nodes, definitions.                                             *)
Var(n) == [kind |-> "variable", name |-> n]
Lit(kind) == [kind |-> kind]
Bool(b) == [kind |-> "boolean", value |-> b]
Enum(n) == [kind |-> "enum", value |-> n]
List(values) == [kind |-> "list", values |-> values]
Obj(fields) == [kind |-> "object", fields |-> fields]
Absent == [kind |-> "absent"]
Null == [kind |-> "null"]

Node(alias, name, args, dirs, sel) ==
  [kind |-> "field", alias |-> alias, name |-> name, args |-> args, dirs |-> dirs, sel |-> sel,
   meta |-> name \in {"__typename", "__schema", "__type"}]
F(name) == Node("", name, <<>>, <<>>, <<>>)
Sub(name, sel) == Node("", name, <<>>, <<>>, sel)
As(alias, name) == Node(alias, name, <<>>, <<>>, <<>>)
Spread(name) == [kind |-> "spread", name |-> name, dirs |-> <<>>]
On(type, sel) == [kind |-> "inline", on |-> type, dirs |-> <<>>, sel |-> sel]
Skip(value) == <<[name |-> "skip", args |-> <<<<"if", value>>>>]>>
Dirs(names) == [i \in DOMAIN names |-> [name |-> names[i], args |-> <<>>]]
Where(node, dirs) == [node EXCEPT !.dirs = dirs]

Frag(name, on, sel) == [kind |-> "fragment", name |-> name, on |-> on, dirs |-> <<>>, sel |-> sel]
Op(op, name, variables, sel) == [kind |-> "operation", op |-> op, name |-> name, vars |-> variables, dirs |-> <<>>, sel |-> sel]
Declare(name, type, default) == [name |-> name, type |-> type, default |-> default]
TypeDefinition == [kind |-> "type"]
Pairs(S) == {<<a>> : a \in S} \cup {<<a, b>> : a, b \in S}

\* Selections of pets, through fields, fragments and inline fragments.
PetNodes == {F("name"), As("name", "pet"), F("nick"), Sub("pet", <<F("name")>>), Sub("pet", <<F("nick")>>),
             Spread("F"), Spread("G"), On("Dog", <<F("nick")>>), On("Cat", <<F("lives")>>), On("Dog", <<As("name", "nick")>>), On("Query", <<F("pet")>>),
             On("", <<F("name")>>), F("__typename"), Sub("name", <<F("name")>>)}
PetFragments ==
  {<<Frag("F", "Pet", <<F("name")>>)>>,
   <<Frag("F", "Dog", <<F("nick")>>)>>,
   <<Frag("F", "Dog", <<F("nick"), Spread("G")>>), Frag("G", "Pet", <<Spread("F")>>)>>,
   <<Frag("F", "Pet", <<Sub("pet", <<Spread("G")>>)>>), Frag("G", "Pet", <<F("name")>>)>>,
   <<Frag("F", "Pet", <<Sub("pet", <<Spread("F")>>)>>)>>,
   <<Frag("F", "Color", <<F("name")>>), Frag("G", "None", <<F("name")>>)>>,
   <<Frag("F", "Pet", <<F("name")>>), Frag("F", "Pet", <<F("nick")>>)>>}
PetDocuments ==
  {<<Op("query", "", <<>>, <<Sub("pet", sel)>>)>> : sel \in Pairs(PetNodes)}
  \cup {<<Op("query", "", <<>>, <<Sub("pet", sel)>>)>> \o frags :
          sel \in {s \in Pairs(PetNodes) : \E i \in DOMAIN s : s[i].kind = "spread"}, frags \in PetFragments}
  \cup {<<Op("query", "", <<>>, <<Sub(root, <<node>>)>>)>> \o frags :
          root \in {"any", "find", "__schema"}, node \in PetNodes, frags \in {<<>>, <<Frag("F", "Pet", <<F("name")>>)>>}}

\* Values of arguments and variables.
Values == {Var("v"), Var("w"), Null, Lit("int"), Lit("string"), Enum("RED"), Obj(<<>>),
           Obj(<<<<"color", Enum("RED")>>>>), Obj(<<<<"color", Enum("PINK")>>>>), Obj(<<<<"color", Null>>>>),
           Obj(<<<<"color", Enum("RED")>>, <<"color", Enum("RED")>>>>),
           Obj(<<<<"color", Var("v")>>, <<"sizes", List(<<Lit("int"), Var("w")>>)>>>>),
           Obj(<<<<"color", Enum("RED")>>, <<"sizes", Null>>>>), Obj(<<<<"size", Lit("int")>>>>),
           Obj(<<<<"color", Var("v")>>>>), Obj(<<<<"color", Lit("string")>>>>),
           Obj(<<<<"color", Enum("RED")>>, <<"sizes", Lit("int")>>>>)}
Declarations ==
  {<<>>, <<Declare("v", <<"Color">>, Absent)>>, <<Declare("v", <<"Color">>, Enum("RED"))>>,
   <<Declare("v", <<"NON_NULL", "Color">>, Absent), Declare("w", <<"Int">>, Lit("int"))>>,
   <<Declare("v", <<"NON_NULL", "Filter">>, Absent)>>, <<Declare("v", <<"Dog">>, Absent)>>,
   <<Declare("v", <<"NON_NULL", "Color">>, Absent), Declare("w", <<"NON_NULL", "String">>, Absent)>>,
   <<Declare("v", <<"Int">>, Enum("RED"))>>, <<Declare("v", <<"Int">>, Null), Declare("v", <<"Int">>, Absent)>>}
Find(alias, by, id) == Node(alias, "find", <<<<"by", by>>>> \o id, <<>>, <<>>)
ById == <<<<"id", Lit("string")>>>>
ValueDocuments ==
  {<<Op("query", "", ds, <<Find("", by, ById)>>)>> : ds \in Declarations, by \in Values}
  \cup {<<Op("query", "", ds, <<Spread("F")>>), Frag("F", "Query", <<Find("", by, ById)>>)>> :
          ds \in Declarations, by \in Values}
  \cup {<<Op("query", "", <<>>, <<Find("", Null, args)>>)>> :
          args \in {<<>>, <<<<"id", Null>>>>, ById \o ById, <<<<"none", Null>>>> \o ById,
                    ById \o <<<<"max", Null>>>>}}

\* Several operations, directives and other definitions.
Directed(dirs) == <<Op("query", "", <<>>, <<Sub("pet", <<Where(F("name"), dirs)>>)>>)>>
OtherKinds ==
  {<<Op("query", n, <<>>, <<F("__typename")>>), Op("query", "A", <<>>, <<F("__typename")>>)>> : n \in {"", "A", "B"}}
  \cup {Directed(Skip(v)) : v \in {Bool(TRUE), Var("v"), Null}}
  \cup {Directed(Dirs(names)) : names \in Pairs({"tag", "none"})}
  \cup {Directed(Skip(Bool(TRUE)) \o Skip(Bool(FALSE))), <<TypeDefinition>>,
        <<[Op("query", "", <<>>, <<F("__typename")>>) EXCEPT !.dirs = Skip(Bool(TRUE))]>>,
        <<Op("mutation", "", <<>>, <<Sub("add", <<F("nick")>>)>>)>>}

\* Subscriptions.
News == Sub("news", <<F("nick")>>)
Yes == <<Declare("yes", <<"NON_NULL", "Boolean">>, Absent)>>
UsesYes(sel) == \E i \in DOMAIN sel : sel[i].kind = "field" /\ Uses(sel[i]) # {}
Subscribe(sel) == Op("subscription", "S", IF UsesYes(sel) THEN Yes ELSE <<>>, sel)
Kept == {News, F("alert"), As("news", "alert"), F("__typename"), Where(News, Skip(Bool(FALSE)))}
Skipped == {Where(News, Skip(Bool(TRUE))), Where(F("alert"), Skip(Var("yes")))}
OneField == {<<Subscribe(sel)>> : sel \in {s \in Pairs(Kept \cup Skipped) :
                 Head(s) \in Kept /\ (Len(s) = 1 \/ s[1].name # s[2].name)}}

\* What one call may leave to the next: cycles, errors and variables.
Residues ==
  {<<Op("query", "", <<Declare("v", <<"Color">>, Absent)>>, <<Spread("F"), Sub("pet", <<F("name"), As("name", "pet")>>)>>),
     Frag("F", "Query", <<Spread("F"), Find("", Var("u"), ById)>>)>>}
Unsupported == {<<Op("mutation", "", <<Declare("v", <<"Int">>, Absent)>>, <<Sub("add", <<F("nick")>>)>>)>>}

AllDocuments == PetDocuments \cup ValueDocuments \cup OtherKinds \cup OneField
QueriesOf(t) == IF t = "t1" THEN FirstDocuments ELSE OtherDocuments

-----------------------------------------------------------------------------
\* The counts of fields are set to zero before they are used.
CleanVisitor(v) == [v EXCEPT !.fieldCount = 0, !.introspectionFieldCount = 0] = Fresh

Accepted(t) == pc[t] = "returned" /\ errors[t] = NoErrors

\* A document without errors executes: whatever objects its fields return,
\* the fields that are selected on them exist and have their arguments and
\* variables, and no spread misses its fragment or never ends
\* (ValidateExecutableVisitor and SelectionVisitor).
ValidatedExecutes == \A t \in Threads : Accepted(t) => Executable(query[t])

\* In a document without errors a response name has one meaning for an
\* object, wherever its fields and fragments are (field merging in visitField).
NamesAreUnambiguous ==
  \A t \in Threads : Accepted(t) /\ Executable(query[t]) => NamesAreDistinct(query[t])

\* A subscription without errors is registered for its root field, with its
\* query and callback (addSubscription, SubscriptionDefinitionVisitor).
RegisteredUnderItsField ==
  \A t \in Threads :
    LET doc == query[t]
        names == {op.name : op \in {Operations(doc)[i] : i \in DOMAIN Operations(doc)}}
    IN  Accepted(t) =>
          \A n \in {m \in names : Head(Chosen(doc, m)).op = "subscription"} :
             AddSubscription(doc, n) = Registers(doc, n)
=============================================================================
