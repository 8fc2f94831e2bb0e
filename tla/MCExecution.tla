---------------------------- MODULE MCExecution ----------------------------
(***************************************************************************)
(* Small documents for Execution.  The one for the responses is            *)
(*                                                                         *)
(*   { a { c  ...F }  ...F  ... { b  a { c  ...F } } }                     *)
(*   fragment F on T { d  g { e } }                                        *)
(*                                                                         *)
(* with a fragment in two selection sets and a response name twice.        *)
(***************************************************************************)
EXTENDS ExpectedResponse

TheFields == {"a", "a2", "b", "c", "d", "e", "g"}
TheSpreads == {"rootF", "aF"}
TheInlines == {"inline"}

TheAlias == [n \in TheFields |-> IF n = "a2" THEN "a" ELSE n]

TheRoot == <<"a", "rootF", "inline">>

TheSub ==
    [n \in TheFields \cup TheSpreads \cup TheInlines |->
        CASE n \in {"a", "a2"} -> <<"c", "aF">>
          [] n \in {"rootF", "aF"} -> <<"d", "g">>
          [] n = "inline" -> <<"b", "a2">>
          [] n = "g" -> <<"e">>
          [] OTHER -> <<>>]

TheFragment == [n \in TheSpreads |-> "F"]

Everywhere == TheSpreads \cup TheInlines

Plain == [skip |-> "none", include |-> "none"]
IfSkip(value) == [Plain EXCEPT !.skip = value]
IfInclude(value) == [Plain EXCEPT !.include = value]

NoConditions == [n \in Everywhere \cup TheFields |-> Plain]

AllValues == [n \in TheFields |-> "value"]

\* F in the root or the inline fragment is excluded, or a condition throws.
SomeConditions ==
    {[NoConditions EXCEPT !["rootF"] = f, !["inline"] = i] :
        f \in {Plain, IfSkip("true")},
        i \in {IfInclude("true"), IfInclude("false")}}
    \cup {[NoConditions EXCEPT ![n] = IfSkip("bad")] : n \in {"aF", "d", "e", "a2"}}
    \cup {[NoConditions EXCEPT !["inline"] = IfInclude("bad")]}

\* Everything an accessor may do, at objects and at a leaf.
SomeOutcomes ==
    {[AllValues EXCEPT !["a"] = a, !["b"] = b, !["g"] = g] :
        a \in OutcomeValues, b \in {"value", "fails"}, g \in OutcomeValues}

SyncQuery == [policy |-> "sync", isMutation |-> FALSE]
AsyncQuery == [policy |-> "async", isMutation |-> FALSE]
AsyncMutation == [policy |-> "async", isMutation |-> TRUE]

CasesOf(requests, conditionses, outcomeses) ==
    [request : requests, conditions : conditionses, outcomes : outcomeses]

\* A query and a mutation that are launched serially, and each object of a
\* smaller selection on a thread of its own, with a null and exceptions.
Excluding(nodes) ==
    [n \in Everywhere \cup TheFields |-> IF n \in nodes THEN IfSkip("true") ELSE Plain]

SerialCases == CasesOf({SyncQuery, AsyncMutation}, SomeConditions, SomeOutcomes)
Concurrent(excluded, outcomeses) == CasesOf({AsyncQuery}, {Excluding(excluded)}, outcomeses)
ConcurrentCases ==
    Concurrent({"aF", "d", "c", "b"}, {AllValues})
    \cup Concurrent({"rootF", "d", "c", "b"}, {AllValues, [AllValues EXCEPT !["e"] = "fails"]})
    \cup Concurrent({"a", "a2", "d"}, {[AllValues EXCEPT !["b"] = "null", !["g"] = g] : g \in {"value", "fails"}})
    \cup CasesOf({AsyncQuery},
                {[Excluding({"aF", "d", "c", "b"}) EXCEPT ![n] = IfInclude("bad")] : n \in {"inline", "e"}},
                {AllValues})

TheCases == SerialCases \cup ConcurrentCases

\* Everything is included and has its value.
UnconditionalCase == CasesOf({SyncQuery}, {NoConditions}, {AllValues})

\* The variable of the inline fragment's @skip is null.
NullCase ==
    CasesOf({AsyncQuery}, {[NoConditions EXCEPT !["inline"] = IfSkip("bad")]}, {AllValues})

\* What the response is proved from holds of these documents.
TheDepth ==
    [n \in Nodes |->
        CASE n \in {"b", "c", "e"} -> 0
          [] n \in {"d", "g"} -> 1
          [] n \in TheSpreads -> 2
          [] n \in {"a", "a2"} -> 3
          [] OTHER -> 4]

ASSUME DocumentIsAcyclic == Deepens(TheDepth)

ASSUME DirectivesOfDocument == DirectivesAgree
=============================================================================
