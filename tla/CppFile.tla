------------------------------- MODULE CppFile -------------------------------
(***************************************************************************)
(* A file of generated C++ is a sequence of declarations.  Each names what *)
(* it declares, says if it is a definition, and which other types it needs *)
(* complete or only declared, so that C++ accepts the file from its first  *)
(* declaration to its last.                                                *)
(***************************************************************************)
EXTENDS Naturals, SequencesExt

Declare(name) == [name |-> name, defines |-> FALSE, complete |-> {}, declared |-> {}]
Define(name, complete, declared) ==
  [name |-> name, defines |-> TRUE, complete |-> complete, declared |-> declared]

NamesIn(file) == {file[i].name : i \in DOMAIN file}
DefinedIn(file) == {file[i].name : i \in {j \in DOMAIN file : file[j].defines}}

\* What a declaration uses comes before it, and nothing is defined twice.
UsesFollowDeclarations(file) ==
  \A i \in DOMAIN file :
    LET before == SubSeq(file, 1, i - 1)
    IN  /\ file[i].complete \subseteq DefinedIn(before)
        /\ file[i].declared \subseteq NamesIn(before) \cup {file[i].name}

DefinedOnce(file) ==
  \A i, j \in DOMAIN file : file[i].defines /\ file[j].defines /\ file[i].name = file[j].name => i = j

Accepted(file) == UsesFollowDeclarations(file) /\ DefinedOnce(file)
=============================================================================
