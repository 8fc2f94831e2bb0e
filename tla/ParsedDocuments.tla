--------------------------- MODULE ParsedDocuments ---------------------------
(***************************************************************************)
(* What the parser should make of a document and of the strings without    *)
(* escapes in it, by GraphQL's own account of strings and not the code's.  *)
(***************************************************************************)
EXTENDS SyntaxTree

Reads(result, nodes) == result.is = "yes" /\ result.nodes = nodes
NeverMisreads(result, nodes) == result.is = "error" \/ result.nodes = nodes

\* How deep the parser looks for selection sets: after the name of a field it
\* looks for one more, whether there is one or not.
RECURSIVE Attempts(_)
Deepest(nodes) == FoldLeft(LAMBDA deepest, node : LET n == Attempts(node) IN IF n > deepest THEN n ELSE deepest, 0, nodes)
Attempts(node) ==
  LET below == Deepest(node.children)
  IN  CASE node.rule = "selection_set" -> 1 + below
        [] node.rule = "field" /\ \A i \in DOMAIN node.children : node.children[i].rule # "selection_set" -> 1
        [] OTHER -> below

-----------------------------------------------------------------------------
(* StringValue                                                             *)

\* BlockStringValue
RECURSIVE Lines(_)
Lines(chars) ==
  IF \A i \in DOMAIN chars : chars[i] # "nl" THEN <<chars>>
  ELSE LET end == CHOOSE i \in DOMAIN chars : chars[i] = "nl" /\ \A j \in 1..(i - 1) : chars[j] # "nl"
       IN  <<SubSeq(chars, 1, end - 1)>> \o Lines(SubSeq(chars, end + 1, Len(chars)))
Blanks(line) == \A i \in DOMAIN line : line[i] = "_"
Indent(line) == CHOOSE n \in 0..Len(line) : Blanks(SubSeq(line, 1, n)) /\ (n = Len(line) \/ line[n + 1] # "_")
RECURSIVE WithoutFirst(_)
WithoutFirst(lines) == IF lines # <<>> /\ Blanks(lines[1]) THEN WithoutFirst(Tail(lines)) ELSE lines
BlockStringValue(chars) ==
  LET lines == Lines(chars)
      indents == {Indent(lines[i]) : i \in {i \in 2..Len(lines) : ~Blanks(lines[i])}}
      common == IF indents = {} THEN 0 ELSE CHOOSE n \in indents : \A m \in indents : n <= m
      stripped == [i \in DOMAIN lines |-> IF i = 1 THEN lines[1] ELSE SubSeq(lines[i], common + 1, Len(lines[i]))]
      shown == Reverse(WithoutFirst(Reverse(WithoutFirst(stripped))))
  IN  FlattenSeq([i \in DOMAIN shown |-> IF i = 1 THEN shown[1] ELSE <<"nl">> \o shown[i]])

IsBlock(text) == Len(text) >= 6 /\ \A i \in 1..3 : text[i] = "dq"
StringValue(text) ==
  IF IsBlock(text) THEN BlockStringValue(SubSeq(text, 4, Len(text) - 3)) ELSE SubSeq(text, 2, Len(text) - 1)

\* A quoted string has its value, and so has the block string of a description,
\* if its first line is blank and blank lines are empty.
PlainStringsArrive(text) ==
  LET lines == Lines(SubSeq(text, 4, Len(text) - 3))
  IN  /\ ~IsBlock(text) => Literal(text) = StringValue(text)
      /\ IF IsBlock(text)
         THEN Blanks(lines[1]) /\ (\A i \in 2..(Len(lines) - 1) : Blanks(lines[i]) => lines[i] = <<>>) =>
                DescriptionText(text) = StringValue(text)
         ELSE DescriptionText(text) = StringValue(text)
=============================================================================
