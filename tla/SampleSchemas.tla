---------------------------- MODULE SampleSchemas ----------------------------
(***************************************************************************)
(* Schema documents for SchemaLoader, each family about one of the ways    *)
(* that definitions refer to each other.                                   *)
(***************************************************************************)
EXTENDS Naturals, SequencesExt

LOCAL Definition(kind, extends, name, interfaces, members) ==
  [kind |-> kind, extends |-> extends, name |-> name, interfaces |-> interfaces, members |-> members]
LOCAL Define(kind, name, members) == Definition(kind, FALSE, name, <<>>, members)
LOCAL Extend(kind, name, members) == Definition(kind, TRUE, name, <<>>, members)

LOCAL Field(name, type, arguments) ==
  [name |-> name, type |-> type, arguments |-> arguments, deprecated |-> FALSE, fieldType |-> "Builtin",
   interfaceField |-> FALSE, inherited |-> FALSE, accessor |-> "get"]
LOCAL Input(name, type, nullable, default) ==
  [name |-> name, type |-> type, nullable |-> nullable, list |-> FALSE, default |-> default, fieldType |-> "Builtin"]
LOCAL Named(names) == [i \in DOMAIN names |-> [name |-> names[i]]]
LOCAL EnumValues(names) == [i \in DOMAIN names |-> [name |-> names[i], deprecated |-> FALSE]]
LOCAL Deprecated(members) == [i \in DOMAIN members |-> [members[i] EXCEPT !.deprecated = TRUE]]
LOCAL Operation(operation, name) == [operation |-> operation, name |-> name]
LOCAL Query == Define("object", "Query", <<Field("q", "Int", <<>>)>>)

\* Subsets of names as sequences, in one order.
LOCAL Chosen(names) == {SelectSeq(names, LAMBDA n : n \in chosen) : chosen \in SUBSET ToSet(names)}

-----------------------------------------------------------------------------
\* Three inputs hold any of each other, or refer to the next one without.
LOCAL ABC == <<"A", "B", "C">>
LOCAL Holding(names) == [i \in DOMAIN names |-> Input("f", names[i], FALSE, "none")]
InputSchemas ==
  {<<Query, Define("input", "A", Holding(a)), Define("input", "B", Holding(b)), Define("input", "C", Holding(c))>> :
     a \in Chosen(ABC), b \in Chosen(ABC), c \in Chosen(ABC)}
  \cup {<<Query, Define("input", "A", <<Input("f", "B", n, d)>>), Define("input", "B", <<[Input("g", "A", FALSE, "none") EXCEPT !.list = l]>>)>> :
          n \in BOOLEAN, d \in {"none", "null", "value", "variable"}, l \in BOOLEAN}
  \cup {<<Query, Define("input", "A", Holding(a)), Define("input", "B", <<>>), Extend("input", "A", Holding(b)), Define("input", "A", Holding(c))>> :
          a \in Chosen(<<"A", "B">>), b \in Chosen(<<"A", "B">>), c \in Chosen(<<"A", "B">>)}

\* Interfaces implement each other, and an object implements some of them.
LOCAL Interface(name, interfaces, names) ==
  Definition("interface", FALSE, name, interfaces, [i \in DOMAIN names |-> Field(names[i], "Int", <<>>)])
LOCAL Object(interfaces, names) ==
  Definition("object", FALSE, "O", interfaces, [i \in DOMAIN names |-> Field(names[i], "Int", <<>>)])
LOCAL IJK == <<"I", "J", "K">>
InterfaceSchemas ==
  {<<Query, Interface("I", i, <<"x">>), Object(o, <<"x">>), Interface("J", j, <<"x">>), Interface("K", k, <<"x">>)>> :
     i \in Chosen(<<"I", "J">>), j \in Chosen(IJK), k \in {<<>>, <<"J">>, <<"I", "J">>, IJK}, o \in {<<>>, <<"I">>, <<"J", "K">>, IJK}}
  \cup {<<Query, Interface("I", <<>>, <<"x", "y">>), Interface("J", j, jf), Object(o, of),
          Definition("object", TRUE, "O", e, <<Field("y", "Int", <<>>)>>)>> :
          j \in Chosen(<<"I">>), jf \in Chosen(<<"x", "y", "z">>), o \in Chosen(<<"I", "J", "U">>),
          of \in Chosen(<<"x", "z">>), e \in Chosen(<<"I">>)}

\* Operations are given by a schema, its extension or their default names.
OperationSchemas ==
  {SelectSeq(<<[Query EXCEPT !.name = query], Define("object", "Mutation", <<Field("m", "Int", <<>>)>>),
               Extend("schema", "", e), Define("schema", "", s)>>,
             LAMBDA d : d.kind # "schema" \/ d.members # <<>>) :
     query \in {"Query", "Root"},
     e \in {<<>>, <<Operation("mutation", "Mutation")>>, <<Operation("subscription", "None")>>},
     s \in {<<>>, <<Operation("query", "Root")>>, <<Operation("mutation", "Query"), Operation("query", "Query")>>}}

\* A field, an argument, an input's field or a union refers to any name.
LOCAL Kinds ==
  <<Define("scalar", "S", Named(<<"url">>)), Define("enum", "E", EnumValues(<<"V">>) \o Deprecated(EnumValues(<<"W">>))), Define("input", "N", <<>>),
    Define("union", "U", Named(<<"Query">>)), Interface("I", <<>>, <<>>), Query>>
LOCAL AnyName == {"Int", "S", "E", "N", "U", "I", "Query", "None"}
ReferenceSchemas ==
  {Kinds \o <<d>> : d \in
     {Define(kind, "O", <<Field("f", type, <<>>), Field("g", t, <<[Input("a", type, n, d) EXCEPT !.list = l]>>)>>) :
        kind \in {"object", "interface"}, type \in AnyName, t \in {"Int", "Query"},
        n \in BOOLEAN, d \in {"none", "value"}, l \in BOOLEAN}
     \cup {Define("input", "O", <<Input("f", type, TRUE, "null")>>) : type \in AnyName}
     \cup {Define("union", "O", Named(<<"Query", type>>)) : type \in AnyName}
     \cup {Extend("scalar", name, Named(urls)) : name \in {"S", "X"}, urls \in {<<>>, <<"other">>}}
     \cup {Define("scalar", name, <<>>) : name \in {"Int", "__S", "N", "Query"}}
     \cup {Define("directive", name, <<Input(a, type, n, "null")>>) : name \in {"d", "__d"}, a \in {"a", "__a"}, type \in {"E", "None"}, n \in BOOLEAN}
     \cup {Define("object", "O", <<Field(f, "Query", <<Input(a, "Int", FALSE, "value")>>)>>) : f \in {"f", "__f"}, a \in {"a", "__a"}}
     \cup {Extend("enum", "E", EnumValues(<<"__W">>)), Extend("enum", "E", EnumValues(<<"W">>)), Extend("interface", "I", <<Field("__f", "Int", <<>>)>>),
           Extend("interface", "I", <<Field("f", "S", <<>>)>>), Extend("input", "N", <<Input("f", "S", TRUE, "value")>>),
           Extend("input", "X", <<Input("f", "None", FALSE, "null")>>),
           Define("query", "", <<>>)}
     \cup {Definition(kind, extends, "__X", <<>>, <<>>) :
             kind \in {"scalar", "enum", "input", "union", "interface", "object"}, extends \in BOOLEAN}}

\* Extensions before and after what they extend.
LOCAL Pieces ==
  {Define("union", "U", Named(<<"Query">>)), Extend("union", "U", Named(<<"O">>)), Extend("union", "U", Named(<<"Query", "O">>)),
   Define("object", "O", Deprecated(<<Field("a", "U", <<>>)>>)), Extend("object", "O", <<Field("b", "Int", <<>>)>>)}
ExtensionSchemas == {<<Query>> \o pieces : pieces \in SeqOf(Pieces, 4)}

AllSchemas ==
  InputSchemas \cup InterfaceSchemas \cup OperationSchemas \cup ReferenceSchemas \cup ExtensionSchemas
=============================================================================
