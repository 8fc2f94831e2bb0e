--------------------------- MODULE SortedMapProofs ---------------------------
(***************************************************************************)
(* A sorted_map stays sorted and implements a map, for every total order   *)
(* of keys and maps of any size.                                           *)
(***************************************************************************)
EXTENDS SortedMap, SequencesExt, FiniteSetTheorems, TLAPS

-----------------------------------------------------------------------------
(* Inserting into a vector and erasing from it                             *)

\* Inserting puts the entry at the place, leaves those in front alone and moves
\* those behind by one.
LEMMA InsertedAt ==
  ASSUME NEW S, NEW s \in Seq(S), NEW e \in S, NEW n \in 0..Len(s)
  PROVE  /\ InsertAt(s, n + 1, e) \in Seq(S)
         /\ Len(InsertAt(s, n + 1, e)) = Len(s) + 1
         /\ \A i \in 1..n : InsertAt(s, n + 1, e)[i] = s[i]
         /\ InsertAt(s, n + 1, e)[n + 1] = e
         /\ \A i \in (n + 2)..(Len(s) + 1) : InsertAt(s, n + 1, e)[i] = s[i - 1]
<1> DEFINE front == SubSeq(s, 1, n)
           back == SubSeq(s, n + 1, Len(s))
<1>1. front \in Seq(S) /\ Len(front) = n /\ \A j \in 1..n : front[j] = s[j]
  OBVIOUS
<1>2. /\ back \in Seq(S) /\ Len(back) = Len(s) - n
      /\ \A j \in 1..(Len(s) - n) : back[j] = s[n + j]
  OBVIOUS
<1>3. InsertAt(s, n + 1, e) = (front \o <<e>>) \o back
  <2>1. (n + 1) - 1 = n
    OBVIOUS
  <2> QED  BY ONLY <2>1 DEF InsertAt
<1> HIDE DEF front, back
<1>4. /\ front \o <<e>> \in Seq(S) /\ Len(front \o <<e>>) = n + 1
      /\ \A j \in 1..n : (front \o <<e>>)[j] = s[j]
      /\ (front \o <<e>>)[n + 1] = e
  BY <1>1
<1> DEFINE first == front \o <<e>>
<1> HIDE DEF first
<1>5. /\ first \o back \in Seq(S) /\ Len(first \o back) = Len(s) + 1
      /\ \A j \in 1..(n + 1) : (first \o back)[j] = first[j]
      /\ \A j \in (n + 2)..(Len(s) + 1) : (first \o back)[j] = back[j - (n + 1)]
  <2>1. /\ first \in Seq(S) /\ Len(first) = n + 1
        /\ back \in Seq(S) /\ Len(back) = Len(s) - n /\ Len(s) \in Nat
    BY <1>2, <1>4 DEF first
  <2> QED  BY ONLY <2>1, n \in 0..Len(s), SMTT(60)
<1>6. InsertAt(s, n + 1, e) = first \o back
  BY <1>3 DEF first
<1>7. first[n + 1] = e /\ \A i \in 1..n : first[i] = s[i]
  BY <1>4 DEF first
<1>8. /\ \A i \in 1..n : (first \o back)[i] = s[i]
      /\ (first \o back)[n + 1] = e
  BY <1>5, <1>7
<1>9. ASSUME NEW i \in (n + 2)..(Len(s) + 1)
      PROVE  (first \o back)[i] = s[i - 1]
  <2>1. i - (n + 1) \in 1..(Len(s) - n) /\ n + (i - (n + 1)) = i - 1
    OBVIOUS
  <2> QED  BY <1>2, <1>5, <2>1
<1> QED  BY <1>5, <1>6, <1>8, <1>9

\* Removing moves them back.
LEMMA RemovedAt ==
  ASSUME NEW S, NEW s \in Seq(S), NEW n \in 1..Len(s)
  PROVE  /\ RemoveAt(s, n) \in Seq(S)
         /\ Len(RemoveAt(s, n)) = Len(s) - 1
         /\ \A i \in 1..(Len(s) - 1) :
              RemoveAt(s, n)[i] = IF i < n THEN s[i] ELSE s[i + 1]
<1> DEFINE front == SubSeq(s, 1, n - 1)
           back == SubSeq(s, n + 1, Len(s))
<1>1. front \in Seq(S) /\ Len(front) = n - 1 /\ \A i \in 1..(n - 1) : front[i] = s[i]
  OBVIOUS
<1>2. /\ back \in Seq(S) /\ Len(back) = Len(s) - n
      /\ \A i \in 1..(Len(s) - n) : back[i] = s[n + i]
  OBVIOUS
<1>3. RemoveAt(s, n) = front \o back
  BY DEF RemoveAt
<1> HIDE DEF front, back
<1>4. \A i \in n..(Len(s) - 1) : back[i - (n - 1)] = s[i + 1]
  <2> TAKE i \in n..(Len(s) - 1)
  <2>1. i - (n - 1) \in 1..(Len(s) - n) /\ n + (i - (n - 1)) = i + 1
    OBVIOUS
  <2> QED  BY <1>2, <2>1
<1>5. /\ front \o back \in Seq(S) /\ Len(front \o back) = Len(s) - 1
      /\ \A i \in 1..(n - 1) : (front \o back)[i] = front[i]
      /\ \A i \in n..(Len(s) - 1) : (front \o back)[i] = back[i - (n - 1)]
  <2>1. /\ front \in Seq(S) /\ Len(front) = n - 1
        /\ back \in Seq(S) /\ Len(back) = Len(s) - n /\ Len(s) \in Nat
    BY <1>1, <1>2
  <2> QED  BY ONLY <2>1, n \in 1..Len(s), SMTT(60)
<1>6. ASSUME NEW i \in 1..(Len(s) - 1)
      PROVE  (front \o back)[i] = IF i < n THEN s[i] ELSE s[i + 1]
  <2>1. CASE i < n
    <3>1. i \in 1..(n - 1)
      BY <2>1
    <3> QED  BY <1>1, <1>5, <2>1, <3>1
  <2>2. CASE i >= n
    <3>1. i \in n..(Len(s) - 1) /\ ~(i < n)
      BY <2>2
    <3>2. (front \o back)[i] = s[i + 1]
      BY <1>4, <1>5, <3>1
    <3> QED  BY <3>1, <3>2
  <2>3. i < n \/ i >= n
    BY ONLY i \in 1..(Len(s) - 1), n \in 1..Len(s)
  <2> QED  BY <2>1, <2>2, <2>3
<1> QED  BY <1>3, <1>5, <1>6

-----------------------------------------------------------------------------
(* The order of the entries                                                *)

\* In a range with an entry, that one has the key; otherwise nobody has it.
LEMMA RangeFinds ==
  ASSUME MapTypeOK, NEW k \in Keys, NEW range \in EqualRange(k)
  PROVE  /\ range[1] \in 0..Len(data) /\ range[2] \in range[1]..Len(data)
         /\ \A i \in DOMAIN data : /\ i <= range[1] <=> Precedes(data[i].key, k)
                                   /\ i > range[2] <=> Precedes(k, data[i].key)
         /\ range[1] # range[2] => range[1] + 1 \in DOMAIN data /\ data[range[1] + 1].key = k
         /\ range[1] = range[2] => \A i \in DOMAIN data : data[i].key # k
<1>1. /\ range[1] \in 0..Len(data) /\ range[2] \in range[1]..Len(data)
      /\ \A i \in DOMAIN data : /\ i <= range[1] <=> Precedes(data[i].key, k)
                                /\ i > range[2] <=> Precedes(k, data[i].key)
  BY DEF EqualRange, IsEqualRange
<1>2. DOMAIN data = 1..Len(data) /\ \A i \in DOMAIN data : data[i] \in Entries
  BY DEF MapTypeOK
<1>3. ASSUME range[1] # range[2]
      PROVE  range[1] + 1 \in DOMAIN data /\ data[range[1] + 1].key = k
  <2>1. range[1] + 1 \in DOMAIN data /\ ~ (range[1] + 1 <= range[1]) /\ ~ (range[1] + 1 > range[2])
    BY <1>1, <1>2, <1>3
  <2> QED  BY <1>1, <1>2, <2>1, StrictOrder DEF Precedes, Entries
<1>4. ASSUME range[1] = range[2], NEW i \in DOMAIN data
      PROVE  data[i].key # k
  <2>1. i <= range[1] \/ i > range[2]
    BY <1>1, <1>2, <1>4
  <2> QED  BY <1>1, <2>1, StrictOrder DEF Precedes
<1> QED  BY <1>1, <1>3, <1>4

\* An index of a key is the position of the key.
LEMMA PositionIs ==
  ASSUME MapTypeOK, NEW i \in DOMAIN data
  PROVE  Position(data[i].key) = i
<1>1. \A j \in DOMAIN data : data[j].key = data[i].key => j = i
  <2> SUFFICES ASSUME NEW j \in DOMAIN data, data[j].key = data[i].key, j # i
               PROVE  FALSE
    OBVIOUS
  <2>1. i < j \/ j < i
    BY DEF MapTypeOK
  <2>2. data[i] \in Entries
    BY DEF MapTypeOK
  <2>3. data[i].key \in Keys
    BY <2>2 DEF Entries
  <2> QED  BY <2>1, <2>3, StrictOrder DEF MapTypeOK, Sorted, Precedes
<1> QED  BY <1>1 DEF Position

\* An entry for a missing key keeps the order where its range ends.
LEMMA InsertKeepsOrder ==
  ASSUME MapTypeOK, NEW k \in Keys, NEW v \in Values, NEW range \in EqualRange(k),
         range[1] = range[2], data' = InsertAt(data, range[2] + 1, Entry(k, v))
  PROVE  data' \in Seq(Entries) /\ Sorted'
<1>0. PICK n \in 0..Len(data) : n = range[2]
  <2>1. range[1] \in 0..Len(data) /\ range[2] \in range[1]..Len(data)
    BY RangeFinds
  <2> QED  BY <2>1
<1>1. /\ n \in 0..Len(data)
      /\ \A i \in DOMAIN data : /\ i <= n => Precedes(data[i].key, k)
                                /\ i > n => Precedes(k, data[i].key)
  BY <1>0, RangeFinds
<1>2. Entry(k, v) \in Entries /\ data \in Seq(Entries) /\ Entry(k, v).key = k
  BY DEF Entry, Entries, MapTypeOK
<1>6. data' = InsertAt(data, n + 1, Entry(k, v))
  BY <1>0
<1>3. /\ data' \in Seq(Entries) /\ Len(data') = Len(data) + 1
      /\ \A i \in 1..n : data'[i] = data[i]
      /\ data'[n + 1] = Entry(k, v)
      /\ \A i \in (n + 2)..(Len(data) + 1) : data'[i] = data[i - 1]
  <2> DEFINE e == Entry(k, v)
  <2>1. e \in Entries /\ data \in Seq(Entries)
    BY <1>2
  <2> HIDE DEF e
  <2>2. InsertAt(data, n + 1, e) \in Seq(Entries) /\ Len(InsertAt(data, n + 1, e)) = Len(data) + 1
    BY <2>1, InsertedAt
  <2>3. \A i \in 1..n : InsertAt(data, n + 1, e)[i] = data[i]
    BY <2>1, InsertedAt
  <2>4. InsertAt(data, n + 1, e)[n + 1] = e
    BY <2>1, InsertedAt
  <2>5. \A i \in (n + 2)..(Len(data) + 1) : InsertAt(data, n + 1, e)[i] = data[i - 1]
    BY <2>1, InsertedAt
  <2>6. data' = InsertAt(data, n + 1, e)
    BY <1>6 DEF e
  <2> QED  BY <2>2, <2>3, <2>4, <2>5, <2>6 DEF e
<1>4. ASSUME NEW i \in 1..(Len(data) + 1), NEW j \in 1..(Len(data) + 1), i < j
      PROVE  Precedes(data'[i].key, data'[j].key)
  <2>1. CASE j <= n
    BY <1>1, <1>3, <1>4, <2>1 DEF MapTypeOK, Sorted
  <2>2. CASE j = n + 1
    <3>1. i <= n /\ i \in DOMAIN data /\ data'[i] = data[i] /\ data'[j].key = k
      BY <1>1, <1>2, <1>3, <1>4, <2>2
    <3> QED  BY <1>1, <3>1
  <2>3. CASE j > n + 1
    <3>1. j - 1 \in DOMAIN data /\ data'[j] = data[j - 1] /\ j - 1 > n
      BY <1>1, <1>2, <1>3, <1>4, <2>3
    <3>2. CASE i <= n
      <4>1. i \in DOMAIN data /\ data'[i] = data[i] /\ i < j - 1
        BY <1>1, <1>2, <1>3, <1>4, <3>1, <3>2
      <4> QED  BY <3>1, <4>1 DEF MapTypeOK, Sorted
    <3>3. CASE i = n + 1
      <4>1. data'[i].key = k
        BY <1>1, <1>2, <1>3, <3>3
      <4> QED  BY <1>1, <3>1, <4>1
    <3>4. CASE i > n + 1
      <4>1. i - 1 \in DOMAIN data /\ data'[i] = data[i - 1] /\ i - 1 < j - 1
        BY <1>1, <1>2, <1>3, <1>4, <3>4
      <4> QED  BY <3>1, <4>1 DEF MapTypeOK, Sorted
    <3> QED  BY <1>1, <3>2, <3>3, <3>4
  <2> QED  BY <1>1, <2>1, <2>2, <2>3
<1>5. DOMAIN data' = 1..(Len(data) + 1)
  BY <1>3
<1> QED  BY <1>3, <1>4, <1>5 DEF Sorted

\* Without one of them, the others are still in order.
LEMMA RemoveKeepsOrder ==
  ASSUME MapTypeOK, NEW n \in DOMAIN data, data' = RemoveAt(data, n)
  PROVE  data' \in Seq(Entries) /\ Sorted'
<1>1. n \in 1..Len(data) /\ data \in Seq(Entries)
  BY DEF MapTypeOK
<1>2. /\ data' \in Seq(Entries) /\ Len(data') = Len(data) - 1
      /\ \A i \in 1..(Len(data) - 1) : data'[i] = IF i < n THEN data[i] ELSE data[i + 1]
  BY <1>1, RemovedAt
<1>3. DOMAIN data' = 1..(Len(data) - 1)
  BY <1>2
<1>4. ASSUME NEW i \in 1..(Len(data) - 1), NEW j \in 1..(Len(data) - 1), i < j
      PROVE  Precedes(data'[i].key, data'[j].key)
  <2> DEFINE Old(m) == IF m < n THEN m ELSE m + 1
  <2>1. /\ Old(i) \in DOMAIN data /\ Old(j) \in DOMAIN data /\ Old(i) < Old(j)
        /\ data'[i] = data[Old(i)] /\ data'[j] = data[Old(j)]
    BY <1>1, <1>2, <1>4
  <2> QED  BY <2>1 DEF MapTypeOK, Sorted
<1> QED  BY <1>2, <1>3, <1>4 DEF Sorted

-----------------------------------------------------------------------------
(* The invariant                                                           *)

\* What the constructor makes of a list.
LEMMA InitSorted == MapInit => MapTypeOK
<1> SUFFICES ASSUME MapInit  PROVE MapTypeOK
  OBVIOUS
<1>1. PICK f \in Initial :
        data \in {s \in [1..Cardinality(DOMAIN f) -> {Entry(k, f[k]) : k \in DOMAIN f}] :
                   /\ \A i, j \in DOMAIN s : i < j => Precedes(s[i].key, s[j].key)
                   /\ {s[i].key : i \in DOMAIN s} = DOMAIN f}
  BY DEF MapInit
<1>2. Cardinality(DOMAIN f) \in Nat
  BY Lists, FS_CardinalityType
<1>3. {Entry(k, f[k]) : k \in DOMAIN f} \subseteq Entries
  BY Lists DEF Entry, Entries
<1>4. data \in [1..Cardinality(DOMAIN f) -> Entries]
  BY <1>1, <1>3
<1>5. data \in Seq(Entries)
  BY <1>2, <1>4
<1> QED  BY <1>1, <1>5 DEF MapTypeOK, Sorted, MapInit

\* The answer is the value found in a range of one entry.
LEMMA FoundValue ==
  ASSUME MapTypeOK, NEW k \in Keys, NEW range \in EqualRange(k), range[1] # range[2]
  PROVE  data[range[1] + 1].value \in Values
<1>1. range[1] + 1 \in DOMAIN data
  BY RangeFinds
<1>2. data[range[1] + 1] \in Entries
  BY <1>1 DEF MapTypeOK
<1> QED  BY <1>2 DEF Entries

\* Assigning to an entry leaves the keys as they are.
LEMMA UpdateKeepsOrder ==
  ASSUME MapTypeOK, NEW n \in DOMAIN data, NEW v \in Values,
         data' = [data EXCEPT ![n].value = v]
  PROVE  /\ data' \in Seq(Entries) /\ Sorted' /\ DOMAIN data' = DOMAIN data
         /\ \A i \in DOMAIN data : data'[i].key = data[i].key
         /\ \A i \in DOMAIN data : data'[i].value = IF i = n THEN v ELSE data[i].value
<1>1. data \in Seq(Entries) /\ \A i \in DOMAIN data : data[i] \in Entries
  BY DEF MapTypeOK
<1>2. DOMAIN data' = DOMAIN data
  OBVIOUS
<1>3. \A i \in DOMAIN data : data'[i] = IF i = n THEN [data[i] EXCEPT !.value = v] ELSE data[i]
  OBVIOUS
<1>4. \A i \in DOMAIN data : /\ data'[i].key = data[i].key
                             /\ data'[i].value = IF i = n THEN v ELSE data[i].value
                             /\ data'[i] \in Entries
  BY <1>1, <1>3 DEF Entries
<1>5. data' \in Seq(Entries)
  BY <1>1, <1>2, <1>4
<1> QED  BY <1>2, <1>4, <1>5 DEF MapTypeOK, Sorted

LEMMA NextSorted == MapTypeOK /\ [MapNext]_mapVars => MapTypeOK'
<1> SUFFICES ASSUME MapTypeOK, [MapNext]_mapVars  PROVE MapTypeOK'
  OBVIOUS
<1>1. ASSUME NEW k \in Keys, Find(k)  PROVE MapTypeOK'
  BY <1>1, FoundValue DEF Find, MapTypeOK, Sorted
<1>2. ASSUME NEW k \in Keys, NEW v \in Values, Emplace(k, v)  PROVE MapTypeOK'
  <2> PICK range \in EqualRange(k) :
        \/ range[1] # range[2] /\ answer' = data[range[1] + 1].value /\ UNCHANGED data
        \/ range[1] = range[2] /\ answer' = v /\ data' = InsertAt(data, range[2] + 1, Entry(k, v))
    BY <1>2 DEF Emplace
  <2>1. CASE range[1] # range[2]
    BY <2>1, FoundValue DEF MapTypeOK, Sorted
  <2>2. CASE range[1] = range[2]
    BY <2>2, InsertKeepsOrder DEF MapTypeOK
  <2> QED  BY <2>1, <2>2
<1>3. ASSUME NEW k \in Keys, Erase(k)  PROVE MapTypeOK'
  <2> PICK range \in EqualRange(k) :
        /\ answer' = Absent
        /\ data' = IF range[1] = range[2] THEN data ELSE RemoveAt(data, range[1] + 1)
    BY <1>3 DEF Erase
  <2>1. CASE range[1] = range[2]
    BY <2>1 DEF MapTypeOK, Sorted
  <2>2. CASE range[1] # range[2]
    BY <2>2, RangeFinds, RemoveKeepsOrder DEF MapTypeOK
  <2> QED  BY <2>1, <2>2
<1>4. ASSUME NEW k \in Keys, NEW v \in Values, Assign(k, v)  PROVE MapTypeOK'
  <2> PICK range \in EqualRange(k) :
        /\ answer' = v
        /\ data' = IF range[1] # range[2]
                   THEN [data EXCEPT ![range[1] + 1].value = v]
                   ELSE InsertAt(data, range[2] + 1, Entry(k, v))
    BY <1>4 DEF Assign
  <2>1. CASE range[1] # range[2]
    BY <2>1, RangeFinds, UpdateKeepsOrder DEF MapTypeOK
  <2>2. CASE range[1] = range[2]
    BY <2>2, InsertKeepsOrder DEF MapTypeOK
  <2> QED  BY <2>1, <2>2
<1>5. CASE Clear
  BY <1>5 DEF Clear, MapTypeOK, Sorted
<1>6. CASE UNCHANGED mapVars
  BY <1>6 DEF mapVars, MapTypeOK, Sorted
<1> QED  BY <1>1, <1>2, <1>3, <1>4, <1>5, <1>6 DEF MapNext

\* The vector is sorted and has each key once, whatever is put in and taken
\* out (sorted_map).
THEOREM TypeCorrect == MapSpec => []MapTypeOK
  BY InitSorted, NextSorted, PTL DEF MapSpec

-----------------------------------------------------------------------------
(* The refinement                                                          *)

KeysIn == {data[i].key : i \in DOMAIN data}

\* The contents have the key and value of each entry, and nothing else.
LEMMA ContentsAre ==
  ASSUME MapTypeOK
  PROVE  DOMAIN Contents = KeysIn /\ \A i \in DOMAIN data : Contents[data[i].key] = data[i].value
<1>1. ASSUME NEW i \in DOMAIN data
      PROVE  Contents[data[i].key] = data[i].value
  <2>1. data[i].key \in {data[j].key : j \in DOMAIN data} /\ Position(data[i].key) = i
    BY PositionIs
  <2> QED  BY <2>1 DEF Contents
<1> QED  BY <1>1 DEF Contents, KeysIn

\* A function with a sorted vector's keys and values is its contents.
LEMMA IsContents ==
  ASSUME MapTypeOK, NEW f, f = [x \in DOMAIN f |-> f[x]], DOMAIN f = KeysIn,
         \A i \in DOMAIN data : f[data[i].key] = data[i].value
  PROVE  Contents = f
<1>1. Contents = [x \in DOMAIN Contents |-> Contents[x]]
  BY DEF Contents
<1>2. ASSUME NEW x \in KeysIn
      PROVE  Contents[x] = f[x]
  <2> PICK i \in DOMAIN data : x = data[i].key
    BY DEF KeysIn
  <2> QED  BY ContentsAre
<1> QED  BY <1>1, <1>2, ContentsAre

\* The same in the next state.
LEMMA IsNextContents ==
  ASSUME MapTypeOK', NEW f, f = [x \in DOMAIN f |-> f[x]], DOMAIN f = KeysIn',
         \A i \in DOMAIN data' : f[data'[i].key] = data'[i].value
  PROVE  Contents' = f
<1>1. \A i, j \in DOMAIN data' : data'[i].key = data'[j].key => i = j
  <2> SUFFICES ASSUME NEW i \in DOMAIN data', NEW j \in DOMAIN data',
                      data'[i].key = data'[j].key, i # j
               PROVE  FALSE
    OBVIOUS
  <2>1. i < j \/ j < i
    BY DEF MapTypeOK
  <2>2. data'[i] \in Entries
    BY DEF MapTypeOK
  <2>3. data'[i].key \in Keys
    BY <2>2 DEF Entries
  <2> QED  BY <2>1, <2>3, StrictOrder DEF MapTypeOK, Sorted, Precedes
<1>3. Contents' = [x \in KeysIn' |-> data'[(CHOOSE i \in DOMAIN data' : data'[i].key = x)].value]
  BY DEF Contents, KeysIn, Position
<1>4. ASSUME NEW x \in KeysIn'
      PROVE  Contents'[x] = f[x]
  <2> PICK i \in DOMAIN data' : x = data'[i].key
    BY DEF KeysIn
  <2>1. (CHOOSE j \in DOMAIN data' : data'[j].key = x) = i
    BY <1>1
  <2> QED  BY <1>3, <2>1
<1>5. Contents' = [x \in KeysIn' |-> Contents'[x]]
  BY <1>3
<1> QED  BY <1>4, <1>5

Added(k, v) == [x \in DOMAIN Contents \cup {k} |-> IF x = k THEN v ELSE Contents[x]]

\* Inserting an entry for a missing key puts the key into the contents.
LEMMA InsertPuts ==
  ASSUME MapTypeOK, MapTypeOK', NEW k \in Keys, NEW v \in Values, NEW range \in EqualRange(k),
         range[1] = range[2], data' = InsertAt(data, range[2] + 1, Entry(k, v))
  PROVE  Contents' = Added(k, v) /\ k \notin DOMAIN Contents
<1>1. k \notin KeysIn
  BY RangeFinds DEF KeysIn
<1>2. PICK n \in 0..Len(data) : n = range[2]
  <2>1. range[1] \in 0..Len(data) /\ range[2] \in range[1]..Len(data)
    BY RangeFinds
  <2> QED  BY <2>1
<1> DEFINE e == Entry(k, v)
<1>3. e \in Entries /\ data \in Seq(Entries) /\ e.key = k /\ e.value = v
  BY DEF Entry, Entries, MapTypeOK
<1> HIDE DEF e
<1>4. data' = InsertAt(data, n + 1, e)
  BY <1>2 DEF e
<1>5. Len(data') = Len(data) + 1 /\ data' \in Seq(Entries)
  BY <1>3, <1>4, InsertedAt
<1>6. \A i \in 1..n : data'[i] = data[i]
  BY <1>3, <1>4, InsertedAt
<1>7. data'[n + 1] = e
  BY <1>3, <1>4, InsertedAt
<1>8. \A i \in (n + 2)..(Len(data) + 1) : data'[i] = data[i - 1]
  <2>1. \A i \in (n + 2)..(Len(data) + 1) : InsertAt(data, n + 1, e)[i] = data[i - 1]
    BY ONLY <1>3, InsertedAt, n \in 0..Len(data)
  <2> QED  BY <1>4, <2>1
<1>9. DOMAIN data = 1..Len(data) /\ DOMAIN data' = 1..(Len(data) + 1) /\ Len(data) \in Nat
  BY <1>3, <1>5
<1>10. \A i \in DOMAIN data' : \/ i \in DOMAIN data /\ data'[i] = data[i]
                               \/ i = n + 1
                               \/ i - 1 \in DOMAIN data /\ data'[i] = data[i - 1]
  BY <1>6, <1>8, <1>9
<1>11. \A i \in DOMAIN data : \/ i \in DOMAIN data' /\ data'[i] = data[i]
                              \/ i + 1 \in DOMAIN data' /\ data'[i + 1] = data[i]
  <2> TAKE i \in DOMAIN data
  <2>1. CASE i <= n
    <3>1. i \in 1..n /\ i \in DOMAIN data'
      BY <1>9, <2>1
    <3>2. data'[i] = data[i]
      BY <1>6, <3>1
    <3> QED  BY <3>1, <3>2
  <2>2. CASE i > n
    <3>1. i + 1 \in (n + 2)..(Len(data) + 1) /\ (i + 1) - 1 = i
      BY <1>9, <2>2
    <3> QED  BY <1>8, <1>9, <3>1
  <2> QED  BY <1>9, <2>1, <2>2
<1>12. KeysIn' = KeysIn \cup {k}
  <2>1. KeysIn' \subseteq KeysIn \cup {k}
    BY <1>3, <1>7, <1>10 DEF KeysIn
  <2>2. KeysIn \subseteq KeysIn'
    BY <1>11 DEF KeysIn
  <2>3. k \in KeysIn'
    BY <1>3, <1>7, <1>9 DEF KeysIn
  <2> QED  BY <2>1, <2>2, <2>3
<1>13. DOMAIN Contents = KeysIn
  BY ContentsAre
<1>14. ASSUME NEW i \in DOMAIN data'
       PROVE  Added(k, v)[data'[i].key] = data'[i].value
  <2>1. CASE i = n + 1
    BY <1>3, <1>7, <1>13, <2>1 DEF Added
  <2>2. ASSUME NEW j \in DOMAIN data, data'[i] = data[j]
        PROVE  Added(k, v)[data'[i].key] = data'[i].value
    <3>1. data[j].key \in KeysIn /\ Contents[data[j].key] = data[j].value
      BY ContentsAre DEF KeysIn
    <3>2. data[j].key # k
      BY <1>1, <3>1
    <3> QED  BY <1>13, <2>2, <3>1, <3>2 DEF Added
  <2> QED  BY <1>10, <2>1, <2>2
<1>15. DOMAIN Added(k, v) = KeysIn' /\ Added(k, v) = [x \in DOMAIN Added(k, v) |-> Added(k, v)[x]]
  BY <1>12, <1>13 DEF Added
<1>16. Contents' = Added(k, v)
  BY <1>14, <1>15, IsNextContents
<1> QED  BY <1>1, <1>13, <1>16

\* Assigning to the entry of a key changes its value only.
LEMMA UpdatePuts ==
  ASSUME MapTypeOK, MapTypeOK', NEW n \in DOMAIN data, NEW v \in Values,
         data' = [data EXCEPT ![n].value = v]
  PROVE  Contents' = Added(data[n].key, v)
<1> DEFINE k == data[n].key
<1>1. /\ DOMAIN data' = DOMAIN data
      /\ \A i \in DOMAIN data : data'[i].key = data[i].key
      /\ \A i \in DOMAIN data : data'[i].value = IF i = n THEN v ELSE data[i].value
  BY UpdateKeepsOrder
<1>2. KeysIn' = KeysIn /\ k \in KeysIn /\ DOMAIN Contents = KeysIn
  BY <1>1, ContentsAre DEF KeysIn
<1>3. ASSUME NEW i \in DOMAIN data'
      PROVE  Added(k, v)[data'[i].key] = data'[i].value
  <2>1. data[i].key \in KeysIn /\ Contents[data[i].key] = data[i].value
    BY <1>1, ContentsAre DEF KeysIn
  <2>2. data[i].key = k => i = n
    <3>1. Position(data[i].key) = i /\ Position(data[n].key) = n
      BY <1>1, PositionIs
    <3> QED  BY <3>1
  <2>3. Added(k, v)[data[i].key] = IF data[i].key = k THEN v ELSE Contents[data[i].key]
    BY <1>2, <2>1 DEF Added
  <2> HIDE DEF k
  <2>4. CASE i = n
    BY <1>1, <2>3, <2>4 DEF k
  <2>5. CASE i # n
    BY <1>1, <2>1, <2>2, <2>3, <2>5
  <2> QED  BY <2>4, <2>5
<1>4. DOMAIN Added(k, v) = KeysIn' /\ Added(k, v) = [x \in DOMAIN Added(k, v) |-> Added(k, v)[x]]
  BY <1>2 DEF Added
<1> QED  BY <1>3, <1>4, IsNextContents

Without(k) == [x \in DOMAIN Contents \ {k} |-> Contents[x]]

\* Removing the entry of a key takes the key out of the contents.
LEMMA RemoveErases ==
  ASSUME MapTypeOK, MapTypeOK', NEW n \in DOMAIN data, data' = RemoveAt(data, n)
  PROVE  Contents' = Without(data[n].key)
<1> DEFINE k == data[n].key
<1>1. n \in 1..Len(data) /\ data \in Seq(Entries) /\ Len(data) \in Nat /\ DOMAIN data = 1..Len(data)
  BY DEF MapTypeOK
<1>2. /\ data' \in Seq(Entries) /\ Len(data') = Len(data) - 1
      /\ \A i \in 1..(Len(data) - 1) : data'[i] = IF i < n THEN data[i] ELSE data[i + 1]
  BY <1>1, RemovedAt
<1>3. DOMAIN data' = 1..(Len(data) - 1)
  BY <1>2
<1>4. \A i \in DOMAIN data' : \E j \in DOMAIN data : j # n /\ data'[i] = data[j]
  <2> TAKE i \in DOMAIN data'
  <2>1. CASE i < n
    BY <1>1, <1>2, <1>3, <2>1
  <2>2. CASE i >= n
    <3>1. i + 1 \in DOMAIN data /\ i + 1 # n /\ data'[i] = data[i + 1]
      BY <1>1, <1>2, <1>3, <2>2
    <3> QED  BY <3>1
  <2> QED  BY <1>1, <1>3, <2>1, <2>2
<1>5. \A j \in DOMAIN data : j # n => \E i \in DOMAIN data' : data'[i] = data[j]
  <2> SUFFICES ASSUME NEW j \in DOMAIN data, j # n  PROVE \E i \in DOMAIN data' : data'[i] = data[j]
    OBVIOUS
  <2>1. CASE j < n
    BY <1>1, <1>2, <1>3, <2>1
  <2>2. CASE j > n
    <3>1. j - 1 \in DOMAIN data' /\ data'[j - 1] = data[j]
      BY <1>1, <1>2, <1>3, <2>2
    <3> QED  BY <3>1
  <2> QED  BY <1>1, <2>1, <2>2
<1>6. \A j \in DOMAIN data : j # n => data[j].key # k
  <2>1. \A j \in DOMAIN data : Position(data[j].key) = j
    BY PositionIs
  <2> QED  BY <2>1
<1>7. DOMAIN Contents = KeysIn /\ \A i \in DOMAIN data : Contents[data[i].key] = data[i].value
  BY ContentsAre
<1> HIDE DEF k
<1>8. KeysIn' = KeysIn \ {k}
  <2>1. KeysIn' \subseteq KeysIn \ {k}
    BY <1>4, <1>6 DEF KeysIn
  <2>2. KeysIn \ {k} \subseteq KeysIn'
    BY <1>5 DEF KeysIn, k
  <2> QED  BY <2>1, <2>2
<1>9. ASSUME NEW i \in DOMAIN data'
      PROVE  Without(k)[data'[i].key] = data'[i].value
  <2>1. PICK j \in DOMAIN data : j # n /\ data'[i] = data[j]
    BY <1>4
  <2>2. data[j].key \in KeysIn /\ data[j].key # k
    BY <1>6, <2>1 DEF KeysIn
  <2> QED  BY <1>7, <2>1, <2>2 DEF Without
<1>10. DOMAIN Without(k) = KeysIn' /\ Without(k) = [x \in DOMAIN Without(k) |-> Without(k)[x]]
  BY <1>7, <1>8 DEF Without
<1>11. Contents' = Without(k)
  BY <1>9, <1>10, IsNextContents
<1> QED  BY <1>11 DEF k

-----------------------------------------------------------------------------
\* What is found is the value of the key, if it has one.
LEMMA FoundIs ==
  ASSUME MapTypeOK, NEW k \in Keys, NEW range \in EqualRange(k)
  PROVE  /\ range[1] # range[2] => k \in DOMAIN Contents /\ data[range[1] + 1].value = Contents[k]
         /\ range[1] = range[2] => k \notin DOMAIN Contents
<1>1. CASE range[1] # range[2]
  <2>1. range[1] + 1 \in DOMAIN data /\ data[range[1] + 1].key = k
    BY <1>1, RangeFinds
  <2> QED  BY <1>1, <2>1, ContentsAre DEF KeysIn
<1>2. CASE range[1] = range[2]
  <2>1. \A i \in DOMAIN data : data[i].key # k
    BY <1>2, RangeFinds
  <2> QED  BY <1>2, <2>1, ContentsAre DEF KeysIn
<1> QED  BY <1>1, <1>2

\* A vector that stays the same has the same contents.
LEMMA SameContents == ASSUME UNCHANGED data PROVE Contents' = Contents
  BY DEF Contents, Position

\* A list becomes the map it is written as.
LEMMA InitImplements == MapInit /\ MapTypeOK => Map!Init
<1> SUFFICES ASSUME MapInit, MapTypeOK  PROVE Map!Init
  OBVIOUS
<1>1. PICK f \in Initial :
        data \in {s \in [1..Cardinality(DOMAIN f) -> {Entry(k, f[k]) : k \in DOMAIN f}] :
                   /\ \A i, j \in DOMAIN s : i < j => Precedes(s[i].key, s[j].key)
                   /\ {s[i].key : i \in DOMAIN s} = DOMAIN f}
  BY DEF MapInit
<1>2. DOMAIN f = KeysIn
  BY <1>1 DEF KeysIn
<1>3. ASSUME NEW i \in DOMAIN data  PROVE f[data[i].key] = data[i].value
  <2> PICK k \in DOMAIN f : data[i] = Entry(k, f[k])
    BY <1>1
  <2> QED  BY DEF Entry
<1>4. f = [x \in DOMAIN f |-> f[x]]
  BY Lists
<1>5. Contents = f
  BY <1>2, <1>3, <1>4, IsContents
<1> QED  BY <1>5 DEF Map!Init, MapInit

\* Every call does to the contents what it does to a map.
LEMMA NextImplements ==
  MapTypeOK /\ MapTypeOK' /\ [MapNext]_mapVars => [Map!Next]_<<Contents, answer>>
<1> SUFFICES ASSUME MapTypeOK, MapTypeOK', [MapNext]_mapVars  PROVE [Map!Next]_<<Contents, answer>>
  OBVIOUS
<1>1. ASSUME NEW k \in Keys, Find(k)  PROVE Map!Find(k)
  BY <1>1, FoundIs, SameContents DEF Find, Map!Find
<1>2. ASSUME NEW k \in Keys, NEW v \in Values, Emplace(k, v)  PROVE Map!Emplace(k, v)
  <2> PICK range \in EqualRange(k) :
        \/ range[1] # range[2] /\ answer' = data[range[1] + 1].value /\ UNCHANGED data
        \/ range[1] = range[2] /\ answer' = v /\ data' = InsertAt(data, range[2] + 1, Entry(k, v))
    BY <1>2 DEF Emplace
  <2>1. CASE range[1] # range[2]
    BY <2>1, FoundIs, SameContents DEF Map!Emplace
  <2>2. CASE range[1] = range[2]
    BY <2>2, InsertPuts DEF Map!Emplace, Map!Put, Added
  <2> QED  BY <2>1, <2>2
<1>3. ASSUME NEW k \in Keys, Erase(k)  PROVE Map!Erase(k)
  <2> PICK range \in EqualRange(k) :
        /\ answer' = Absent
        /\ data' = IF range[1] = range[2] THEN data ELSE RemoveAt(data, range[1] + 1)
    BY <1>3 DEF Erase
  <2>1. CASE range[1] = range[2]
    <3>1. k \notin DOMAIN Contents /\ Contents' = Contents
      BY <2>1, FoundIs, SameContents
    <3>2. Contents = [x \in DOMAIN Contents \ {k} |-> Contents[x]]
      <4>1. DOMAIN Contents \ {k} = DOMAIN Contents
        BY <3>1
      <4> QED  BY <4>1 DEF Contents
    <3> QED  BY <3>1, <3>2 DEF Map!Erase
  <2>2. CASE range[1] # range[2]
    <3>1. range[1] + 1 \in DOMAIN data /\ data[range[1] + 1].key = k
      BY <2>2, RangeFinds
    <3>2. Contents' = Without(data[range[1] + 1].key)
      BY <2>2, <3>1, RemoveErases
    <3> QED  BY <3>1, <3>2 DEF Map!Erase, Without
  <2> QED  BY <2>1, <2>2
<1>4. ASSUME NEW k \in Keys, NEW v \in Values, Assign(k, v)  PROVE Map!Assign(k, v)
  <2> PICK range \in EqualRange(k) :
        /\ answer' = v
        /\ data' = IF range[1] # range[2]
                   THEN [data EXCEPT ![range[1] + 1].value = v]
                   ELSE InsertAt(data, range[2] + 1, Entry(k, v))
    BY <1>4 DEF Assign
  <2>1. CASE range[1] # range[2]
    <3>1. range[1] + 1 \in DOMAIN data /\ data[range[1] + 1].key = k
      BY <2>1, RangeFinds
    <3>2. Contents' = Added(data[range[1] + 1].key, v)
      BY <2>1, <3>1, UpdatePuts
    <3> QED  BY <3>1, <3>2 DEF Map!Assign, Map!Put, Added
  <2>2. CASE range[1] = range[2]
    BY <2>2, InsertPuts DEF Map!Assign, Map!Put, Added
  <2> QED  BY <2>1, <2>2
<1>5. ASSUME Clear  PROVE Map!Clear
  <2>1. KeysIn' = {} /\ data' = <<>> /\ DOMAIN data' = {} /\ answer' = Absent
    BY <1>5 DEF Clear, KeysIn
  <2>2. Contents' = [k \in {} |-> Absent]
    BY <2>1 DEF Contents, KeysIn
  <2> QED  BY <2>1, <2>2 DEF Map!Clear
<1>6. CASE UNCHANGED mapVars
  BY <1>6, SameContents DEF mapVars
<1> QED  BY <1>1, <1>2, <1>3, <1>4, <1>5, <1>6 DEF MapNext, Map!Next

\* For every order and every sequence of calls the sorted vector is a map
\* (sorted_map, sorted_set).
THEOREM SortedMapImplementsMap == MapSpec => ImplementsMap
<1>1. MapInit => Map!Init
  BY InitSorted, InitImplements
<1>2. MapTypeOK /\ MapTypeOK' /\ [MapNext]_mapVars => [Map!Next]_<<Contents, answer>>
  BY NextImplements
<1>3. MapSpec => []MapTypeOK
  BY TypeCorrect
<1> QED  BY <1>1, <1>2, <1>3, PTL DEF MapSpec, Map!Spec, ImplementsMap
=============================================================================
