------------------------------- MODULE Grammar -------------------------------
(***************************************************************************)
(* The rules of GraphQL documents as expressions over tokens: words, the   *)
(* characters of numbers and strings, and "_" for blanks.  An expression   *)
(* is a tagged pair; rules refer to each other by name, so that they may   *)
(* be recursive.  A rule whose parts have no part in the tree and are used *)
(* once is written where it is used.                                       *)
(***************************************************************************)
EXTENDS Naturals, Sequences, TLC

R(name) == <<"rule", name>>
One(token) == <<"class", {token}>>
Class(tokens) == <<"class", tokens>>
Except(tokens) == <<"except", tokens>>
All(list) == <<"seq", list>>
First(list) == <<"sor", list>>
Star(e) == <<"star", e>>
Must(e) == <<"must", e>>
Not(e) == <<"not", e>>
Eof == <<"eof", 0>>

Opt(e) == First(<<e, All(<<>>)>>)
Plus(e) == All(<<e, Star(e)>>)
List(e, separator) == All(<<e, Star(All(<<separator, e>>))>>)
IfMust(e, then) == All(<<e, Must(then)>>)

Symbols ==
  {"_", ",", "nl", "#", "dq", "bs", "{", "}", "(", ")", "[", "]", ":", "=", "!", "|", "&", "@", "$", "...", "-", "+", "."}
Digits == {"0", "1"}
Hex == Digits \cup {"b", "e", "f"}

Blank == Star(R("ignored"))
Space == Plus(R("ignored"))
Between(open, e, close) == IfMust(One(open), All(<<Blank, e, Blank, Must(One(close))>>))
After(e) == All(<<Blank, e>>)
Annotated == Opt(After(R("directives")))
Described(e) == All(<<Opt(All(<<R("description"), Blank>>)), e>>)

LexicalRules ==
  [ignored |-> First(<<One("_"), One("nl"), One(","),
     All(<<One("#"), Star(Except({"nl"})), First(<<One("nl"), Eof>>)>>)>>),
   name |-> Except(Symbols \cup Digits)]

StringRules ==
  [escaped_unicode |-> IfMust(One("u"), List(All(<<Class(Hex), Class(Hex), Class(Hex), Class(Hex)>>), All(<<One("bs"), One("u")>>))),
   escaped_char |-> Class({"dq", "bs", "/", "b", "f", "n", "r", "t"}),
   string_escape_sequence |-> IfMust(One("bs"), First(<<R("escaped_unicode"), R("escaped_char")>>)),
   string_quote_character |-> Plus(Except({"bs", "dq", "nl"})),
   string_quote |-> IfMust(One("dq"),
     All(<<Star(First(<<R("string_escape_sequence"), R("string_quote_character")>>)), Must(One("dq"))>>)),
   block_quote_token |-> All(<<One("dq"), One("dq"), One("dq")>>),
   block_escape_sequence |-> All(<<One("bs"), R("block_quote_token")>>),
   block_quote_character |-> Plus(All(<<Not(One("nl")), Not(R("block_quote_token")), Not(R("block_escape_sequence")), Except({})>>)),
   block_quote_empty_line |-> Star(One("_")),
   block_quote_line_content |-> Plus(First(<<R("block_escape_sequence"), R("block_quote_character")>>)),
   block_quote_line |-> All(<<R("block_quote_empty_line"), R("block_quote_line_content")>>),
   block_quote_content_lines |-> Opt(List(First(<<R("block_quote_line"), R("block_quote_empty_line")>>), One("nl"))),
   block_quote |-> IfMust(R("block_quote_token"), All(<<R("block_quote_content_lines"), Must(R("block_quote_token"))>>)),
   string_value |-> First(<<R("block_quote"), R("string_quote")>>)]

NumberRules ==
  [integer_part |-> All(<<Opt(One("-")), First(<<One("0"), All(<<Class(Digits \ {"0"}), Star(Class(Digits))>>)>>)>>),
   integer_value |-> R("integer_part"),
   fractional_part |-> IfMust(One("."), Plus(Class(Digits))),
   exponent_part |-> IfMust(One("e"), All(<<Opt(Class({"+", "-"})), Plus(Class(Digits))>>)),
   float_value |-> All(<<R("integer_part"),
     First(<<All(<<R("fractional_part"), Opt(R("exponent_part"))>>), R("exponent_part")>>)>>)]

ValueRules ==
  [variable_name |-> IfMust(One("$"), R("name")),
   null_keyword |-> One("null"), true_keyword |-> One("true"), false_keyword |-> One("false"),
   \* not_at takes a sequence of rules, so the name may be any of the three.
   enum_value |-> All(<<Not(All(<<R("true_keyword"), R("false_keyword"), R("null_keyword")>>)), R("name")>>),
   operation_type |-> Class({"query", "mutation", "subscription"}),
   alias_name |-> R("name"),
   alias |-> All(<<R("alias_name"), Blank, One(":")>>),
   argument_name |-> R("name"),
   argument |-> IfMust(R("argument_name"), All(<<Blank, One(":"), Blank, R("input_value")>>)),
   arguments |-> Between("(", List(R("argument"), Space), ")"),
   list_value |-> Between("[", Opt(List(R("input_value_content"), Space)), "]"),
   object_field_name |-> R("name"),
   object_field |-> IfMust(R("object_field_name"), All(<<Blank, One(":"), Blank, R("input_value")>>)),
   object_value |-> Between("{", Opt(List(R("object_field"), Space)), "}"),
   variable_value |-> <<"as", "variable_name">>,
   input_value_content |-> First(<<R("list_value"), R("object_value"), R("variable_value"), R("float_value"), R("integer_value"),
     R("string_value"), R("true_keyword"), R("false_keyword"), R("null_keyword"), R("enum_value")>>),
   input_value |-> Must(R("input_value_content")),
   default_value |-> IfMust(One("="), After(R("input_value")))]

TypeRules ==
  [named_type |-> R("name"),
   list_type |-> Between("[", First(<<R("nonnull_type"), R("list_type"), R("named_type")>>), "]"),
   nonnull_type |-> All(<<First(<<R("list_type"), R("named_type")>>), Blank, One("!")>>),
   type_name |-> Must(First(<<R("nonnull_type"), R("list_type"), R("named_type")>>)),
   variable |-> IfMust(R("variable_name"),
     All(<<Blank, One(":"), Blank, R("type_name"), Opt(After(R("default_value")))>>)),
   variable_definitions |-> Between("(", List(R("variable"), Space), ")")]

DirectiveRules ==
  [directive_name |-> R("name"),
   directive |-> IfMust(One("@"), All(<<R("directive_name"), Opt(After(R("arguments")))>>)),
   directives |-> List(R("directive"), Space)]

SelectionRules ==
  [field_name |-> R("name"),
   field_start |-> All(<<Opt(All(<<R("alias"), Blank>>)), R("field_name")>>),
   field |-> IfMust(R("field_start"), All(<<Opt(After(R("arguments"))), Annotated, Opt(After(R("selection_set")))>>)),
   fragment_name |-> All(<<Not(One("on")), R("name")>>),
   fragment_spread |-> All(<<Blank, R("fragment_name"), Annotated>>),
   type_condition |-> IfMust(One("on"), All(<<Space, R("named_type")>>)),
   inline_fragment |-> All(<<Opt(After(R("type_condition"))), Annotated, Blank, R("selection_set")>>),
   selection |-> First(<<R("field"), IfMust(One("..."), First(<<R("fragment_spread"), R("inline_fragment")>>))>>),
   selection_set |-> Between("{", List(R("selection"), Space), "}")]

ExecutableRules ==
  [operation_name |-> R("name"),
   operation_definition |-> First(<<IfMust(R("operation_type"),
       All(<<Opt(All(<<Space, R("operation_name")>>)), Opt(After(R("variable_definitions"))), Annotated, Blank, R("selection_set")>>)),
     R("selection_set")>>),
   fragment_definition |-> IfMust(One("fragment"),
     All(<<Space, R("fragment_name"), Space, R("type_condition"), Annotated, Blank, R("selection_set")>>)),
   executable_definition |-> First(<<R("fragment_definition"), R("operation_definition")>>)]

DefinitionRules ==
  [description |-> <<"as", "string_value">>,
   root_operation_definition |-> IfMust(R("operation_type"), All(<<Blank, One(":"), Blank, R("named_type")>>)),
   schema_definition |-> IfMust(Described(One("schema")),
     All(<<Annotated, Blank, One("{"), Blank, List(R("root_operation_definition"), Space), Blank, Must(One("}"))>>)),
   scalar_name |-> R("name"),
   scalar_type_definition |-> IfMust(Described(One("scalar")), All(<<Space, R("scalar_name"), Annotated>>)),
   arguments_definition |-> Between("(", List(R("input_field_definition"), Space), ")"),
   field_definition |-> IfMust(Described(R("field_name")),
     All(<<Opt(After(R("arguments_definition"))), Blank, One(":"), Blank, R("type_name"), Annotated>>)),
   fields_definition |-> Between("{", List(R("field_definition"), Space), "}")]

AfterSpace(e) == All(<<Space, e>>)
ObjectRules ==
  LET implements == Opt(AfterSpace(R("implements_interfaces")))
      annotations == After(R("directives"))
      fields == After(R("fields_definition"))
  IN  [interface_type |-> <<"as", "named_type">>,
       implements_interfaces |-> IfMust(One("implements"),
         All(<<Opt(After(One("&"))), Blank, List(R("interface_type"), All(<<Blank, One("&"), Blank>>))>>)),
       object_name |-> R("name"),
       object_type_definition |-> IfMust(Described(One("type")), All(<<AfterSpace(R("object_name")),
         First(<<All(<<implements, Opt(annotations), fields>>), All(<<implements, annotations>>), implements>>)>>)),
       interface_name |-> R("name"),
       interface_type_definition |-> IfMust(Described(One("interface")), All(<<AfterSpace(R("interface_name")),
         First(<<All(<<implements, Opt(annotations), fields>>), All(<<implements, annotations, fields>>), implements>>)>>))]

UnionAndEnumRules ==
  [union_name |-> R("name"),
   union_type |-> <<"as", "named_type">>,
   union_member_types |-> IfMust(One("="),
     All(<<Opt(After(One("|"))), Blank, List(R("union_type"), All(<<Blank, One("|"), Blank>>))>>)),
   union_type_definition |-> IfMust(Described(One("union")), All(<<AfterSpace(R("union_name")),
     First(<<All(<<Annotated, After(R("union_member_types"))>>), Annotated>>)>>)),
   enum_name |-> R("name"),
   enum_value_definition |-> IfMust(Described(R("enum_value")), Annotated),
   enum_values_definition |-> Between("{", List(R("enum_value_definition"), Space), "}"),
   enum_type_definition |-> IfMust(Described(One("enum")), All(<<AfterSpace(R("enum_name")),
     First(<<All(<<Annotated, After(R("enum_values_definition"))>>), Annotated>>)>>))]

InputRules ==
  LET default == Opt(After(R("default_value")))
  IN  [input_field_definition |-> IfMust(Described(R("argument_name")), All(<<Blank, One(":"), Blank, R("type_name"),
         First(<<All(<<default, After(R("directives"))>>), default>>)>>)),
       input_fields_definition |-> Between("{", List(R("input_field_definition"), Space), "}"),
       input_object_type_definition |-> IfMust(Described(One("input")), All(<<AfterSpace(R("object_name")),
         First(<<All(<<Annotated, After(R("input_fields_definition"))>>), Annotated>>)>>)),
       type_definition |-> First(<<R("scalar_type_definition"), R("object_type_definition"), R("interface_type_definition"),
         R("union_type_definition"), R("enum_type_definition"), R("input_object_type_definition")>>)]

DirectiveDefinitionRules ==
  [directive_location |-> Class({"QUERY", "MUTATION", "SUBSCRIPTION", "FIELD", "FRAGMENT_DEFINITION", "FRAGMENT_SPREAD",
     "INLINE_FRAGMENT", "SCHEMA", "SCALAR", "OBJECT", "FIELD_DEFINITION", "ARGUMENT_DEFINITION", "INTERFACE", "UNION",
     "ENUM", "ENUM_VALUE", "INPUT_OBJECT", "INPUT_FIELD_DEFINITION"}),
   repeatable_keyword |-> One("repeatable"),
   directive_definition |-> IfMust(Described(One("directive")),
     All(<<Blank, One("@"), R("directive_name"), Opt(After(R("arguments_definition"))),
           Opt(AfterSpace(R("repeatable_keyword"))), Space, One("on"), Space,
           Opt(All(<<One("|"), Blank>>)), List(R("directive_location"), All(<<Blank, One("|"), Blank>>))>>)),
   type_system_definition |-> First(<<R("schema_definition"), R("type_definition"), R("directive_definition")>>)]

Extending(keyword, then) == IfMust(All(<<One("extend"), Space, One(keyword)>>), then)

ExtensionRules ==
  LET implements == AfterSpace(R("implements_interfaces"))
      annotations == After(R("directives"))
      fields == After(R("fields_definition"))
      implementing == First(<<All(<<Opt(implements), Opt(annotations), fields>>), All(<<Opt(implements), annotations>>), implements>>)
  IN  [operation_type_definition |-> <<"as", "root_operation_definition">>,
       schema_extension |-> Extending("schema", All(<<Blank, First(<<All(<<Opt(R("directives")),
         One("{"), Blank, List(R("operation_type_definition"), Space), Blank, Must(One("}"))>>), R("directives")>>)>>)),
       scalar_type_extension |-> Extending("scalar", All(<<Blank, R("scalar_name"), annotations>>)),
       object_type_extension |-> Extending("type", All(<<Space, R("object_name"), implementing>>)),
       interface_type_extension |-> Extending("interface", All(<<Space, R("interface_name"), Blank, implementing>>))]

LaterExtensionRules ==
  LET extended(name, e) == All(<<Space, R(name), Blank,
        First(<<All(<<Opt(All(<<R("directives"), Blank>>)), R(e)>>), R("directives")>>)>>)
  IN  [union_type_extension |-> Extending("union", extended("union_name", "union_member_types")),
       enum_type_extension |-> Extending("enum", extended("enum_name", "enum_values_definition")),
       input_object_type_extension |-> Extending("input", extended("object_name", "input_fields_definition")),
       type_system_extension |-> First(<<R("schema_extension"), R("scalar_type_extension"), R("object_type_extension"),
         R("interface_type_extension"), R("union_type_extension"), R("enum_type_extension"), R("input_object_type_extension")>>)]

DocumentRules ==
  LET whole(definition) == Must(All(<<Blank, List(definition, Blank), Blank, Eof>>))
      typeSystem == First(<<R("type_system_definition"), R("type_system_extension")>>)
  IN  [mixed_document |-> whole(First(<<R("executable_definition"), typeSystem>>)),
       executable_document |-> whole(R("executable_definition")),
       schema_document |-> whole(typeSystem)]

Rules ==
  LexicalRules @@ StringRules @@ NumberRules @@ ValueRules @@ TypeRules @@ DirectiveRules @@ SelectionRules @@ ExecutableRules
    @@ DefinitionRules @@ ObjectRules @@ UnionAndEnumRules @@ InputRules @@ DirectiveDefinitionRules @@ ExtensionRules
    @@ LaterExtensionRules @@ DocumentRules
=============================================================================
