------------------------------ MODULE SortedMap ------------------------------
(***************************************************************************)
(* sorted_map: a vector of keys and values in the order that Compare gives *)
(* the keys, in which std::equal_range finds a key.  sorted_set is the     *)
(* same without values.  An iterator is the number of entries before it.   *)
(***************************************************************************)
EXTENDS Naturals, FiniteSets, SequencesExt

CONSTANTS
  Keys,     \* what the map is asked for
  Order,    \* the pairs <<a, b>> for which Compare {}(a, b)
  Values,
  Default,  \* what operator[] puts in for a new key, V {}
  Absent,   \* an answer without a value: end(), or an exception of at()
  Initial   \* the entries of initializer lists, as functions on keys

\* A strict total order: then keys that neither is before the other are equal.
ASSUME StrictOrder ==
  /\ \A a \in Keys : <<a, a>> \notin Order
  /\ \A a, b \in Keys : a = b \/ <<a, b>> \in Order \/ <<b, a>> \in Order
  /\ \A a, b, c \in Keys : <<a, b>> \in Order /\ <<b, c>> \in Order => <<a, c>> \in Order

\* A list has each key once: the constructor sorts it and looks no further.
ASSUME Lists ==
  /\ Default \in Values /\ Absent \notin Values
  /\ \A f \in Initial :
       IsFiniteSet(DOMAIN f) /\ DOMAIN f \subseteq Keys /\ f \in [DOMAIN f -> Values]

VARIABLES data, answer

mapVars == <<data, answer>>

Entries == [key : Keys, value : Values]

Precedes(a, b) == <<a, b>> \in Order

\* std::equal_range, external: the bounds of the entries that are neither
\* before the key nor after it, if the entries before it are in front.
IsEqualRange(first, last, k) ==
  /\ first \in 0..Len(data) /\ last \in first..Len(data)
  /\ \A i \in DOMAIN data :
       /\ i <= first <=> Precedes(data[i].key, k)
       /\ i > last <=> Precedes(k, data[i].key)
EqualRange(k) ==
  {range \in (0..Len(data)) \X (0..Len(data)) : IsEqualRange(range[1], range[2], k)}

Entry(k, v) == [key |-> k, value |-> v]

-----------------------------------------------------------------------------
(* string_view_map and string_view_set: strings are sequences of numbers.  *)

\* operator< of std::string_view.
Before(lhs, rhs) ==
  \/ Len(lhs) < Len(rhs) /\ SubSeq(rhs, 1, Len(lhs)) = lhs
  \/ \E i \in DOMAIN lhs \cap DOMAIN rhs :
        lhs[i] < rhs[i] /\ SubSeq(lhs, 1, i - 1) = SubSeq(rhs, 1, i - 1)

\* shorter_or_less with the cheap comparison in front of the other one.
ShorterThenLess(lhs, rhs) == Len(lhs) < Len(rhs) \/ Before(lhs, rhs)

ShorterOrLess(lhs, rhs) ==
  IF Len(lhs) = Len(rhs) THEN Before(lhs, rhs) ELSE Len(lhs) < Len(rhs)

-----------------------------------------------------------------------------
\* The constructor for initializer lists.
MapInit ==
  /\ \E f \in Initial :
       data \in {s \in [1..Cardinality(DOMAIN f) -> {Entry(k, f[k]) : k \in DOMAIN f}] :
                   /\ \A i, j \in DOMAIN s : i < j => Precedes(s[i].key, s[j].key)
                   /\ {s[i].key : i \in DOMAIN s} = DOMAIN f}
  /\ answer = Absent

\* find, at and sorted_map_lookup.
Find(k) ==
  \E range \in EqualRange(k) :
    /\ answer' = IF range[1] = range[2] THEN Absent ELSE data[range[1] + 1].value
    /\ UNCHANGED data

EmplaceBack(k, v) ==
  \E range \in EqualRange(k) :
    \/ range[1] # range[2] /\ answer' = data[range[1] + 1].value /\ UNCHANGED data
    \/ range[1] = range[2] /\ answer' = v /\ data' = Append(data, Entry(k, v))
Emplace(k, v) ==
  \E range \in EqualRange(k) :
    \/ range[1] # range[2] /\ answer' = data[range[1] + 1].value /\ UNCHANGED data
    \/ range[1] = range[2] /\ answer' = v /\ data' = InsertAt(data, range[2] + 1, Entry(k, v))

EraseAtEnd(k) ==
  \E range \in EqualRange(k) :
    /\ answer' = Absent
    /\ data' = IF range[1] = range[2] THEN data ELSE RemoveAt(data, range[2] + 1)
Erase(k) ==
  \E range \in EqualRange(k) :
    /\ answer' = Absent
    /\ data' = IF range[1] = range[2] THEN data ELSE RemoveAt(data, range[1] + 1)

\* operator[] and the assignment to what it refers to.
Assign(k, v) ==
  \E range \in EqualRange(k) :
    /\ answer' = v
    /\ data' = IF range[1] # range[2]
               THEN [data EXCEPT ![range[1] + 1].value = v]
               ELSE InsertAt(data, range[2] + 1, Entry(k, v))

Clear == answer' = Absent /\ data' = <<>>

MapNext ==
  \/ \E k \in Keys : Find(k) \/ Erase(k)
  \/ \E k \in Keys, v \in Values : Emplace(k, v) \/ Assign(k, v)
  \/ Clear

MapSpec == MapInit /\ [][MapNext]_mapVars

-----------------------------------------------------------------------------
Sorted == \A i, j \in DOMAIN data : i < j => Precedes(data[i].key, data[j].key)

\* The entries are in order and no key occurs twice, so that the range of a
\* key is at most one entry (every member of sorted_map relies on it).
MapTypeOK == data \in Seq(Entries) /\ answer \in Values \cup {Absent} /\ Sorted

\* Whatever was put in and taken out, there is a place for every key: a
\* binary search ends at the key or where it belongs (sorted_map_equal_range).
EveryKeyHasItsPlace == \A k \in Keys : EqualRange(k) # {}

Position(k) == CHOOSE i \in DOMAIN data : data[i].key = k
Contents == [k \in {data[i].key : i \in DOMAIN data} |-> data[Position(k)].value]

\* The sorted vector answers like a map, and has its entries (sorted_map).
Map == INSTANCE KeyedMap WITH map <- Contents
ImplementsMap == Map!Spec
=============================================================================
