--------------------------- MODULE SampleDocuments ---------------------------
(***************************************************************************)
(* Documents as the specification of GraphQL writes them, each with the    *)
(* tree that a parser should give.  A phrase has atoms, between which      *)
(* there may be blanks (<<>> is a place for a comma, as at the end of an   *)
(* element of a list), and nodes.                                          *)
(***************************************************************************)
EXTENDS Naturals, SequencesExt

LOCAL Tree(rule, text, children) == [rule |-> rule, children |-> children, text |-> text]
LOCAL Tokens(text) == [atoms |-> <<text>>, nodes |-> <<>>]
LOCAL Tok(token) == Tokens(<<token>>)
LOCAL Text(rule, text) == [atoms |-> <<text>>, nodes |-> <<Tree(rule, text, <<>>)>>]
LOCAL Leaf(rule, name) == Text(rule, <<name>>)
LOCAL Nothing == [atoms |-> <<>>, nodes |-> <<>>]
LOCAL Cat(phrases) ==
  [atoms |-> FlattenSeq([i \in DOMAIN phrases |-> phrases[i].atoms]),
   nodes |-> FlattenSeq([i \in DOMAIN phrases |-> phrases[i].nodes])]
LOCAL Listed(phrases) ==
  Cat([i \in DOMAIN phrases |-> IF i = 1 THEN phrases[i] ELSE Cat(<<Tokens(<<>>), phrases[i]>>)])
LOCAL Node(rule, phrases) ==
  LET all == Cat(phrases)
  IN  [atoms |-> all.atoms,
       nodes |-> <<Tree(rule, IF all.nodes = <<>> THEN FlattenSeq(all.atoms) ELSE <<>>, all.nodes)>>]
LOCAL In(rule, open, phrases, close) == Node(rule, <<Tok(open), Listed(phrases), Tok(close)>>)
LOCAL Both(a, b) == Cat(<<a, b>>)
LOCAL Nodes(rules, sets) == {Node(rules, list) : list \in sets}

-----------------------------------------------------------------------------
LOCAL Plain == [atoms |-> <<<<"dq", "c", "dq">>>>,
                nodes |-> <<Tree("string_value", <<>>, <<Tree("string_quote_character", <<"c">>, <<>>)>>)>>]
LOCAL One == Text("integer_value", <<"1">>)
LOCAL Var == Text("variable_value", <<"$", "x">>)
LOCAL Member(name, value) == Node("object_field", <<Leaf("object_field_name", name), Tok(":"), value>>)
LOCAL Simple ==
  {One, Text("integer_value", <<"-", "1", "0">>), Text("float_value", <<"0", ".", "1", "e", "+", "1">>),
   Text("float_value", <<"1", "e", "0">>), Plain, Text("string_value", <<"dq", "dq">>), Var,
   Leaf("true_keyword", "true"), Leaf("false_keyword", "false"), Leaf("null_keyword", "null"), Leaf("enum_value", "on")}
LOCAL Composite ==
  {In("list_value", "[", <<a, b>>, "]") : a \in {One, Plain, Var}, b \in Simple}
    \cup {In("object_value", "{", <<Member("on", a), Member("null", b)>>, "}") : a \in Simple, b \in {One, Var}}
    \cup {In("list_value", "[", <<In("list_value", "[", <<>>, "]"), In("object_value", "{", <<>>, "}")>>, "]"),
          In("object_value", "{", <<Member("a", In("object_value", "{", <<Member("b", Plain)>>, "}"))>>, "}")}

LOCAL Argument(name, value) == Node("argument", <<Leaf("argument_name", name), Tok(":"), value>>)
LOCAL Arguments(list) == In("arguments", "(", list, ")")
LOCAL Directive(name, arguments) ==
  LET at == Text("directive_name", <<"@", name>>)
  IN  Node("directive", <<[at EXCEPT !.nodes = <<Tree("directive_name", <<name>>, <<>>)>>], arguments>>)
LOCAL Directives ==
  {Nothing, Node("directives", <<Directive("on", Nothing)>>),
   Node("directives", <<Listed(<<Directive("d", Arguments(<<Argument("if", Var)>>)), Directive("d", Nothing)>>)>>)}

LOCAL Named == Leaf("named_type", "type")
LOCAL ListOf(t) == Node("list_type", <<Tok("["), t, Tok("]")>>)
LOCAL Required(t) == Node("nonnull_type", <<t, Tok("!")>>)
LOCAL Types == {Named, ListOf(Named), Required(Named), Required(ListOf(Required(Named))), ListOf(ListOf(Required(Named)))}
LOCAL DefaultValue(value) == Node("default_value", <<Tok("="), value>>)

-----------------------------------------------------------------------------
\* Executable documents.
LOCAL Set(list) == In("selection_set", "{", list, "}")
LOCAL Name(name) == Leaf("field_name", name)
LOCAL Field(name) == Node("field", <<Name(name)>>)
LOCAL Alias(name) == Both(Leaf("alias_name", name), Tok(":"))
LOCAL Condition(name) == Node("type_condition", <<Tok("on"), Leaf("named_type", name)>>)
LOCAL Spread(name, annotations) == Both(Tok("..."), Node("fragment_spread", <<Leaf("fragment_name", name), annotations>>))
LOCAL Inline(condition, annotations, list) == Both(Tok("..."), Node("inline_fragment", <<condition, annotations, Set(list)>>))
LOCAL Operation(parts) == Node("operation_definition", parts)
LOCAL Variable(type, default) ==
  Node("variable", <<Text("variable_name", <<"$", "x">>), Tok(":"), type, default>>)
LOCAL Fragment(name, annotations, list) ==
  Node("fragment_definition", <<Tok("fragment"), Leaf("fragment_name", name), Condition("on"), annotations, Set(list)>>)

LOCAL Selections ==
  {Node("field", <<alias, Name("query"), arguments, annotations, set>>) :
      alias \in {Nothing, Alias("on")}, arguments \in {Nothing, Arguments(<<Argument("on", Var), Argument("a", One)>>)},
      annotations \in Directives, set \in {Nothing, Set(<<Field("on"), Field("null")>>)}}
    \cup {Spread("fragment", annotations) : annotations \in Directives}
    \cup {Inline(condition, annotations, <<Field("a")>>) : condition \in {Nothing, Condition("on")}, annotations \in Directives}

ExecutableDocuments ==
  {Operation(<<Set(<<Node("field", <<Name("f"), Arguments(<<Argument("a", v)>>)>>)>>)>>) : v \in Simple \cup Composite}
    \cup {Operation(<<Set(<<first, Field("b"), second>>)>>) : first \in Selections, second \in {Field("a"), Spread("F", Nothing)}}
    \cup {Operation(<<Leaf("operation_type", type), name, variables, annotations, Set(<<Field("a")>>)>>) :
            type \in {"query", "mutation", "subscription"}, name \in {Nothing, Leaf("operation_name", "query")},
            variables \in {Nothing} \cup {Both(Tok("("), Both(Listed(<<Variable(t, d), Variable(t, Nothing)>>), Tok(")"))) :
                                            t \in Types, d \in {Nothing, DefaultValue(One), DefaultValue(Plain)}},
            annotations \in Directives}
    \cup {Cat(<<Fragment("query", annotations, <<inline>>), Operation(<<Set(<<Spread("query", Nothing)>>)>>), Fragment("F", Nothing, <<Field("a")>>)>>) :
            annotations \in Directives,
            inline \in {Inline(Condition("T"), Nothing, <<Spread("F", Nothing)>>),
                        Inline(Nothing, Nothing, <<Node("field", <<Name("a"), Set(<<Spread("F", Nothing)>>)>>)>>)}}

-----------------------------------------------------------------------------
\* Definitions of a schema.
LOCAL Descriptions ==
  {Nothing, [Plain EXCEPT !.nodes[1].rule = "description"],
   [atoms |-> <<<<"dq", "dq", "dq", "_", "c", "nl", "dq", "dq", "dq">>>>,
    nodes |-> <<Tree("description", <<>>, <<Tree("block_quote_content_lines", <<"_", "c", "nl">>,
      <<Tree("block_quote_line", <<"_", "c">>, <<Tree("block_quote_empty_line", <<"_">>, <<>>),
          Tree("block_quote_line_content", <<"c">>, <<Tree("block_quote_character", <<"c">>, <<>>)>>)>>),
        Tree("block_quote_empty_line", <<>>, <<>>)>>)>>)>>]}
LOCAL Input(description, name, type, default, annotations) ==
  Node("input_field_definition", <<description, Leaf("argument_name", name), Tok(":"), type, default, annotations>>)
LOCAL Inputs ==
  {<<Input(d, "input", t, v, x), Input(Nothing, "b", Named, v, Nothing)>> :
      d \in Descriptions, t \in {Named, ListOf(Required(Named))}, v \in {Nothing, DefaultValue(One)}, x \in Directives}
LOCAL FieldOf(description, name, arguments, type, annotations) ==
  Node("field_definition", <<description, Name(name), arguments, Tok(":"), type, annotations>>)
LOCAL Fields ==
  {In("fields_definition", "{", <<FieldOf(d, "type", a, t, x), FieldOf(Nothing, "b", Nothing, Named, Nothing)>>, "}") :
      d \in Descriptions, t \in {Named, Required(Named)}, x \in Directives,
      a \in {Nothing, In("arguments_definition", "(", CHOOSE list \in Inputs : TRUE, ")")}}
LOCAL AField == In("fields_definition", "{", <<FieldOf(Nothing, "on", Nothing, Named, Nothing)>>, "}")
LOCAL Joined(rule, before, names, mark) ==
  Both(before, Cat([i \in DOMAIN names |-> IF i = 1 THEN Leaf(rule, names[1]) ELSE Both(Tok(mark), Leaf(rule, names[i]))]))
LOCAL Implements ==
  {Nothing, Joined("interface_type", Tok("implements"), <<"type">>, "&"),
   Joined("interface_type", Both(Tok("implements"), Tok("&")), <<"I", "on">>, "&")}
LOCAL Members == {Joined("union_type", Tok("="), <<"A", "union">>, "|"), Joined("union_type", Both(Tok("="), Tok("|")), <<"A">>, "|")}
LOCAL EnumValues ==
  {In("enum_values_definition", "{", <<Node("enum_value_definition", <<d, Leaf("enum_value", "enum"), x>>),
                                       Node("enum_value_definition", <<Leaf("enum_value", "on")>>)>>, "}") :
     d \in Descriptions, x \in Directives}
\* enum_values_definition is not selected, and neither are the operations' braces.
LOCAL Loose(phrase) == [phrase EXCEPT !.nodes = phrase.nodes[1].children]
LOCAL Root(rule, operation) ==
  Node(rule, <<Leaf("operation_type", operation), Tok(":"), Leaf("named_type", operation)>>)
LOCAL Operations(rule) == Cat(<<Tok("{"), Listed(<<Root(rule, "query"), Root(rule, "mutation")>>), Tok("}")>>)
LOCAL Annotations == Directives \ {Nothing}

LOCAL Definitions ==
  Nodes("schema_definition", {<<d, Tok("schema"), x, Operations("root_operation_definition")>> : d \in Descriptions, x \in Directives})
    \cup Nodes("scalar_type_definition", {<<d, Tok("scalar"), Leaf("scalar_name", "scalar"), x>> : d \in Descriptions, x \in Directives})
    \cup Nodes("object_type_definition",
           {<<Tok("type"), Leaf("object_name", "type"), i, x, f>> : i \in Implements, x \in Directives, f \in {Nothing, AField}}
             \cup {<<d, Tok("type"), Leaf("object_name", "O"), f>> : d \in Descriptions, f \in Fields})
    \cup Nodes("interface_type_definition",
           {<<d, Tok("interface"), Leaf("interface_name", "I"), i, x, AField>> : d \in Descriptions, i \in Implements, x \in Directives}
             \cup {<<Tok("interface"), Leaf("interface_name", "I"), i>> : i \in Implements})
    \cup Nodes("union_type_definition", {<<d, Tok("union"), Leaf("union_name", "U"), x, m>> :
           d \in Descriptions, x \in Directives, m \in {Nothing} \cup Members})
    \cup Nodes("enum_type_definition", {<<Tok("enum"), Leaf("enum_name", "enum"), x, v>> :
           x \in Directives, v \in {Nothing} \cup {Loose(v) : v \in EnumValues}})
    \cup Nodes("input_object_type_definition", {<<Tok("input"), Leaf("object_name", "N"), x, f>> :
           x \in Directives, f \in {Nothing} \cup {In("input_fields_definition", "{", list, "}") : list \in Inputs}})
    \cup Nodes("directive_definition", {<<d, Tok("directive"), [Text("directive_name", <<"@", "d">>) EXCEPT !.nodes[1].text = <<"d">>],
           a, Tokens(<<>>), r, Tokens(<<>>), Tok("on"), Tokens(<<>>), Joined("directive_location", m, <<"QUERY", "ENUM_VALUE">>, "|")>> :
             d \in Descriptions, a \in {Nothing, In("arguments_definition", "(", <<Input(Nothing, "on", Named, Nothing, Nothing)>>, ")")},
             r \in {Nothing, Leaf("repeatable_keyword", "repeatable")}, m \in {Nothing, Tok("|")}})

\* An extension adds something.
LOCAL Extension(rule, keyword, name, sets) ==
  {Node(rule, <<Tok("extend"), Tok(keyword), name>> \o parts) : parts \in {p \in sets : \E i \in DOMAIN p : p[i] # Nothing}}
LOCAL Extensions ==
  Extension("schema_extension", "schema", Nothing, {<<x>> : x \in Directives} \cup {<<Operations("operation_type_definition")>>})
    \cup Extension("scalar_type_extension", "scalar", Leaf("scalar_name", "scalar"), {<<x>> : x \in Directives})
    \cup Extension("object_type_extension", "type", Leaf("object_name", "O"), Implements \X Directives \X {Nothing, AField})
    \cup Extension("interface_type_extension", "interface", Leaf("interface_name", "I"), Directives \X {Nothing, AField})
    \cup Extension("union_type_extension", "union", Leaf("union_name", "U"), Directives \X ({Nothing} \cup Members))
    \cup Extension("enum_type_extension", "enum", Leaf("enum_name", "E"), Directives \X {Nothing, Loose(CHOOSE v \in EnumValues : TRUE)})
    \cup Extension("input_object_type_extension", "input", Leaf("object_name", "N"),
           Directives \X {Nothing, In("input_fields_definition", "{", CHOOSE list \in Inputs : TRUE, "}")})

LOCAL Scalar == Node("scalar_type_definition", <<Tok("scalar"), Leaf("scalar_name", "S")>>)
SchemaDocuments ==
  {Cat(<<Scalar, d, Scalar>>) : d \in Definitions \cup Extensions}
    \* Both kinds in one: the nodes of operations are those of the schema.
    \cup {Cat(<<Scalar, Operation(<<Leaf("operation_type", "query"), Tok("{"), Name("a"), Tok("}")>>), Scalar>>)}

-----------------------------------------------------------------------------
\* What GraphQL allows and this parser does not.
LOCAL Refused ==
  {\* An interface with annotations and no fields.
   Cat(<<Tok("interface"), Tok("I"), Tokens(<<"@", "d">>)>>),
   \* An extended interface implements another one.
   Cat(<<Tok("extend"), Tok("interface"), Tok("I"), Tok("implements"), Tok("J")>>),
   \* Directives for a variable, and as a place of a directive.
   Cat(<<Tok("query"), Tok("("), Tokens(<<"$", "x">>), Tok(":"), Tok("T"), Tokens(<<"@", "d">>), Tok(")"), Tok("{"), Tok("a"), Tok("}")>>),
   Cat(<<Tok("directive"), Tokens(<<"@", "d">>), Tok("on"), Tok("VARIABLE_DEFINITION")>>),
   \* Blanks after $ and @, which are tokens of their own.
   Cat(<<Tok("{"), Tok("a"), Tok("("), Tok("b"), Tok(":"), Tok("$"), Tok("x"), Tok(")"), Tok("}")>>),
   Cat(<<Tok("{"), Tok("a"), Tok("@"), Tok("d"), Tok("}")>>)}
RefusedDocuments == Refused

-----------------------------------------------------------------------------
\* A document is written with blanks between all atoms, or only where two words
\* meet and with commas between the elements of lists, or without the commas.
Wide(phrase) == FlattenSeq([i \in DOMAIN phrase.atoms |-> IF phrase.atoms[i] = <<>> THEN <<>> ELSE <<"_">> \o phrase.atoms[i]]) \o <<"_">>
LOCAL Marks == {"dq", "{", "}", "(", ")", "[", "]", ":", "=", "!", "|", "&", "@", "$", "...", "-", ","}
LOCAL Narrowed(phrase, comma) ==
  FoldLeft(LAMBDA text, atom :
             IF atom = <<>> THEN text \o comma
             ELSE text \o (IF text # <<>> /\ Last(text) \notin Marks /\ atom[1] \notin Marks THEN <<"_">> ELSE <<>>) \o atom,
           <<>>, phrase.atoms)
Narrow(phrase) == Narrowed(phrase, <<",">>)
Tight(phrase) == Narrowed(phrase, <<>>)
=============================================================================
