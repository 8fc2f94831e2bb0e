----------------------------- MODULE SyntaxTree -----------------------------
(***************************************************************************)
(* Parsing a document by the rules of Grammar: an expression matches at a  *)
(* place and gives nodes, or does not match there, or an exception leaves  *)
(* the parser.  A node has the name of its rule, the text that it covers   *)
(* if something may read it (that of a leaf, or a part of a string), and   *)
(* its children.                                                           *)
(***************************************************************************)
EXTENDS Grammar, SequencesExt

-----------------------------------------------------------------------------
\* The rules that give a node, by ast_selector, and by the two selectors that
\* add to it.
ValueNodes ==
  {"operation_type", "list_value", "object_field_name", "object_field", "object_value", "variable_value",
   "integer_value", "float_value", "escaped_unicode", "escaped_char", "string_quote_character",
   "block_escape_sequence", "block_quote_content_lines", "block_quote_empty_line", "block_quote_line",
   "block_quote_line_content", "block_quote_character", "string_value", "true_keyword", "false_keyword",
   "null_keyword", "enum_value"}
DefinitionNodes ==
  {"field_name", "argument_name", "argument", "arguments", "directive_name", "directive", "directives", "variable",
   "scalar_name", "named_type", "list_type", "nonnull_type", "default_value", "operation_definition",
   "fragment_definition", "schema_definition", "scalar_type_definition", "object_type_definition",
   "interface_type_definition", "union_type_definition", "enum_type_definition", "input_object_type_definition",
   "directive_definition", "schema_extension", "scalar_type_extension", "object_type_extension",
   "interface_type_extension", "union_type_extension", "enum_type_extension", "input_object_type_extension"}
SchemaNodes ==
  {"description", "object_name", "interface_name", "union_name", "enum_name", "root_operation_definition",
   "interface_type", "input_field_definition", "input_fields_definition", "arguments_definition", "field_definition",
   "fields_definition", "union_type", "enum_value_definition", "repeatable_keyword", "directive_location",
   "operation_type_definition"}
ExecutableNodes ==
  {"variable_name", "alias_name", "operation_name", "fragment_name", "field", "fragment_spread",
   "inline_fragment", "selection_set", "type_condition"}

SchemaSelector == ValueNodes \cup DefinitionNodes \cup SchemaNodes
ExecutableSelector == ValueNodes \cup DefinitionNodes \cup ExecutableNodes

-----------------------------------------------------------------------------
StringNodes ==
  {"string_quote_character", "escaped_char", "escaped_unicode", "block_escape_sequence", "block_quote_content_lines",
   "block_quote_line", "block_quote_empty_line", "block_quote_line_content", "block_quote_character"}
NodeOf(rule, text, children) ==
  [rule |-> rule, children |-> children,
   text |-> CASE rule \in StringNodes -> text
              [] children = <<>> /\ rule \notin StringNodes -> SelectSeq(text, LAMBDA t : t # "_")
              [] OTHER -> <<>>]

\* state_handler::success of a selected rule, and that of the other rules,
\* which leaves the nodes found in it to the node it is in.  An alias is folded
\* into its only child, alias_name, which is selected alone here.
Success(rule, selector, text, children) ==
  IF rule \in selector THEN <<NodeOf(rule, text, children)>> ELSE children

NoMatch == [is |-> "no"]
Matched(at, nodes) == [is |-> "yes", at |-> at, nodes |-> nodes]
Raise(at) == [is |-> "error", at |-> at]

NoLimit == 0
\* Mutant of TooDeep: a selection set at the limit is one too many.
AtTheLimit(rule, depth, in) == rule = "selection_set" /\ in.depthLimit # NoLimit /\ depth >= in.depthLimit
\* depth_guard counts the selection sets that the parser is in or tries to
\* enter, which it does after each field.
TooDeep(rule, depth, in) == rule = "selection_set" /\ in.depthLimit # NoLimit /\ depth > in.depthLimit

\* in is the input [text, depthLimit, selector].
RuleOf(rule) == IF Rules[rule][1] = "as" THEN Rules[Rules[rule][2]] ELSE Rules[rule]
Inside(rule, depth) == IF rule = "selection_set" THEN depth + 1 ELSE depth
OneToken(in, at, test) == IF at <= Len(in.text) /\ test THEN Matched(at + 1, <<>>) ELSE NoMatch

Finished(rule, in, at, found) ==
  IF found.is = "yes"
  THEN Matched(found.at, Success(rule, in.selector, SubSeq(in.text, at, found.at - 1), found.nodes))
  ELSE found
FollowedBy(before, found) == IF found.is = "yes" THEN Matched(found.at, before \o found.nodes) ELSE found
RaiseUnless(at, found) == IF found.is = "no" THEN Raise(at) ELSE found
NotAt(at, found) == IF found.is = "no" THEN Matched(at, <<>>) ELSE IF found.is = "yes" THEN NoMatch ELSE found

RECURSIVE Match(_, _, _, _), MatchAll(_, _, _, _, _), MatchFirst(_, _, _, _, _), MatchMore(_, _, _, _, _)
MatchRule(rule, in, at, depth) ==
  IF TooDeep(rule, Inside(rule, depth), in) THEN Raise(at)
  ELSE Finished(rule, in, at, Match(RuleOf(rule), in, at, Inside(rule, depth)))

Match(e, in, at, depth) ==
  CASE e[1] = "rule" -> MatchRule(e[2], in, at, depth)
    [] e[1] = "class" -> OneToken(in, at, in.text[at] \in e[2])
    [] e[1] = "except" -> OneToken(in, at, in.text[at] \notin e[2])
    [] e[1] = "seq" -> MatchAll(e[2], 1, in, Matched(at, <<>>), depth)
    [] e[1] = "sor" -> MatchFirst(e[2], 1, in, at, depth)
    [] e[1] = "star" -> MatchMore(e, in, at, Match(e[2], in, at, depth), depth)
    [] e[1] = "must" -> RaiseUnless(at, Match(e[2], in, at, depth))
    [] e[1] = "not" -> NotAt(at, Match(e[2], in, at, depth))
    [] e[1] = "eof" -> IF at <= Len(in.text) THEN NoMatch ELSE Matched(at, <<>>)

MatchAll(list, i, in, before, depth) ==
  IF i > Len(list) \/ before.is # "yes" THEN before
  ELSE MatchAll(list, i + 1, in, FollowedBy(before.nodes, Match(list[i], in, before.at, depth)), depth)

MatchFirst(list, i, in, at, depth) ==
  IF i > Len(list) THEN NoMatch
  ELSE LET one == Match(list[i], in, at, depth)
       IN  IF one.is = "no" THEN MatchFirst(list, i + 1, in, at, depth) ELSE one

\* A star, of which one has been tried.
MatchMore(e, in, at, one, depth) ==
  IF one.is = "no" THEN Matched(at, <<>>)
  ELSE IF one.is = "yes" THEN FollowedBy(one.nodes, Match(e, in, one.at, depth)) ELSE one

-----------------------------------------------------------------------------
\* A smaller grammar is tried first, and if it raises a parse_error, the one of
\* all definitions, on the input from its begin.
ParseWith(rule, text, depthLimit, selector) ==
  LET in == [text |-> text, depthLimit |-> depthLimit, selector |-> selector]
      small == MatchRule(rule, in, 1, 0)
  IN  IF small.is = "error" THEN MatchRule("mixed_document", in, 1, 0) ELSE small

parseSchemaString(text, depthLimit) == ParseWith("schema_document", text, depthLimit, SchemaSelector)
parseString(text, depthLimit) == ParseWith("executable_document", text, depthLimit, ExecutableSelector)
\* operator""_graphql
graphql(text) == ParseWith("executable_document", text, NoLimit, ExecutableSelector)

-----------------------------------------------------------------------------
\* ast_node::unescaped_view.  The lines of a block string are those between the
\* first and the last that are not blank; a blank one has no text.
Unblank(lines) ==
  LET full == {i \in DOMAIN lines : lines[i].rule = "block_quote_line"}
  IN  IF full = {} THEN <<>>
      ELSE SubSeq(lines, CHOOSE i \in full : \A j \in full : i <= j, CHOOSE i \in full : \A j \in full : j <= i)
Joined(texts) == FoldRight(LAMBDA text, rest : IF rest = <<>> THEN <<text>> ELSE <<text, <<"nl">>>> \o rest, texts, <<>>)

Decoded(char) ==
  CASE char = "b" -> "backspace" [] char = "f" -> "feed" [] char = "n" -> "nl" [] char = "r" -> "return"
    [] char = "t" -> "tab" [] OTHER -> char

\* The code points of \uXXXX\uXXXX...; the text begins with the first u.
CodePoints(text) == <<"codes", SelectSeq(text, LAMBDA t : t \notin {"u", "bs"})>>

RECURSIVE Unescaped(_)
BlockText(lines) ==
  LET shown == Unblank(lines)
      full == {i \in DOMAIN shown : shown[i].rule = "block_quote_line"}
      indent(i) == Len(shown[i].children[1].text)
      commonIndent == CHOOSE n \in {indent(i) : i \in full} : \A i \in full : n <= indent(i)
  IN  FlattenSeq(Joined([i \in DOMAIN shown |->
        IF i \in full
        THEN SubSeq(shown[i].children[1].text, commonIndent + 1, indent(i)) \o Unescaped(shown[i].children[2])
        ELSE <<>>]))
Unescaped(node) ==
  CASE node.rule = "escaped_char" -> <<Decoded(node.text[1])>>
    [] node.rule \in {"string_quote_character", "block_quote_character"} -> node.text
    [] node.rule = "block_escape_sequence" -> <<"dq", "dq", "dq">>
    [] node.rule = "escaped_unicode" -> <<CodePoints(node.text)>>
    [] node.rule = "block_quote_content_lines" -> BlockText(node.children)
    [] OTHER -> FlattenSeq([i \in DOMAIN node.children |-> node.children[i].text])

\* What visitStringValue reads of a literal, and the loader of a description.
Literal(text) == Unescaped(MatchRule("string_value", [text |-> text, depthLimit |-> NoLimit, selector |-> ExecutableSelector], 1, 0).nodes[1])
DescriptionText(text) ==
  LET node == MatchRule("description", [text |-> text, depthLimit |-> NoLimit, selector |-> SchemaSelector], 1, 0).nodes[1]
  IN  IF node.children = <<>> THEN <<>> ELSE Unescaped(node.children[1])
=============================================================================
