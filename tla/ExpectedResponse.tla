-------------------------- MODULE ExpectedResponse --------------------------
(***************************************************************************)
(* What the response to an operation should be, as GraphQL defines it:     *)
(* the fields that are left when fragments are flattened, in the order in  *)
(* which they are met, each response name once, with null and an error for *)
(* each field that failed.  An exception out of a selection is an error of *)
(* its whole object.  It is evaluated in one go, without visitors,         *)
(* stacks, launch policies or the order in which results become ready.     *)
(***************************************************************************)
EXTENDS Execution, SequencesExt

\* In all that follows, c is what the @skip and @include of the nodes evaluate
\* to, and o what the accessors of the fields do.
Only(condition, value) == condition \in {"none", value}

\* "Only resolve this field and include it in the results if the if argument
\* evaluates to true", or to false for @skip.
Included(c, n) ==
    /\ Only(c[n].skip, "false")
    /\ Only(c[n].include, "true")
    /\ n \in Fields \cup Applies

\* A directive without its argument, on a node that is visited.
Raises(c, n) == Malformed(c[n]) /\ (n \in Spreads => n \in Applies)

\* What is left of each node when fragments are flattened: the fields that are
\* included, and the nodes that raise an exception.
Pieces(c) ==
    LET piece[n \in Nodes] ==
        IF Raises(c, n) \/ (n \in Fields /\ Included(c, n)) THEN <<n>>
        ELSE IF Included(c, n) THEN FlattenSeq([i \in DOMAIN Sub[n] |-> piece[Sub[n][i]]])
        ELSE <<>>
    IN  piece

Flat(c, selection) ==
    FlattenSeq([i \in DOMAIN selection |-> Pieces(c)[selection[i]]])

SameName(m, n) == m \in Fields /\ n \in Fields /\ Alias[m] = Alias[n]

\* The nodes without the fields whose response name was met before.
Distinct(nodes) ==
    FlattenSeq([i \in DOMAIN nodes |->
                   IF \E j \in 1..(i - 1) : SameName(nodes[j], nodes[i])
                   THEN <<>> ELSE <<nodes[i]>>])

\* The result of a selection, of which result has those of the fields.
ObjectResult(c, result, selection, path) ==
    LET nodes == Distinct(Flat(c, selection))
        of(i) == result[nodes[i]][Append(path, Alias[nodes[i]])]
    IN  IF \E i \in DOMAIN nodes : Raises(c, nodes[i]) THEN Null(<<<<>>>>)
        ELSE [kind |-> "object",
              fields |-> [i \in DOMAIN nodes |->
                             [alias |-> Alias[nodes[i]], kind |-> of(i).kind,
                              fields |-> of(i).fields]],
              errors |-> FlattenSeq([i \in DOMAIN nodes |-> of(i).errors])]

Failures == {"fails", "rejects", "unknown"}

\* The kind, fields and errors of each field, on each path.
FieldResults(c, o) ==
    LET result[n \in Fields] ==
        [path \in Seq({Alias[m] : m \in Fields}) |->
            CASE o[n] = "null" -> Null(<<>>)
              [] o[n] \in Failures -> Null(<<path>>)
              [] o[n] = "value" /\ Sub[n] = <<>> -> Scalar
              [] OTHER -> ObjectResult(c, result, Sub[n], path)]
    IN  result

Expected == ObjectResult(conditions, FieldResults(conditions, outcomes), Root, <<>>)

\* No accessor is unknown or rejects its await, whose errors have other paths
\* than those of their fields.
ErrorsHavePaths == \A n \in Fields : outcomes[n] \notin {"rejects", "unknown"}

\* Whatever runs first and whatever throws: the data and errors of the response
\* are the expected ones, in the expected order.
ResponseIsExpected == Ready(<<>>) /\ ErrorsHavePaths => Response = Expected

\* The data alone, whatever the paths of the errors.
DataIsExpected == Ready(<<>>) => Response.fields = Expected.fields

-----------------------------------------------------------------------------
(* Documents whose responses are the expected ones                         *)

\* No node is below itself, which a parsed document and the validation of its
\* fragments see to.
Deepens(depth) == \A n \in Nodes : \A i \in DOMAIN Sub[n] : depth[Sub[n][i]] < depth[n]

Acyclic == \E d \in Nat : \E depth \in [Nodes -> 0..d] : Deepens(depth)

\* The nodes of a selection and of the fragments in it.
Encloses(selection, nodes) ==
    /\ \A i \in DOMAIN selection : selection[i] \in nodes
    /\ \A m \in nodes \ Fields : \A i \in DOMAIN Sub[m] : Sub[m][i] \in nodes

Level(selection) ==
    {n \in Nodes : \A nodes \in SUBSET Nodes : Encloses(selection, nodes) => n \in nodes}

Excluded(c, n) == ~Raises(c, n) /\ ~Included(c, n)

\* One directive decides about each node, and an unknown field has none that
\* does.  The fields of an object that have a response name are excluded
\* together: of two of which only the first one is, the second one is lost.
DirectivesAgree ==
    \A chosen \in Cases : LET c == chosen.conditions IN
        /\ \A n \in Nodes : ~(c[n].skip = "false" /\ c[n].include \in {"false", "bad"})
        /\ \A n \in Fields : chosen.outcomes[n] = "unknown" => Included(c, n) /\ ~Raises(c, n)
        /\ \A selection \in {Root} \cup {Sub[n] : n \in Fields} :
              \A m, n \in Level(selection) \cap Fields :
                  Alias[m] = Alias[n] /\ Excluded(c, m) => Excluded(c, n)
=============================================================================
