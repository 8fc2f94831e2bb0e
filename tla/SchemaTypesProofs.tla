-------------------------- MODULE SchemaTypesProofs --------------------------
(***************************************************************************)
(* WrapType returns one wrapper for a type, for any number of threads,     *)
(* types and calls.                                                        *)
(***************************************************************************)
EXTENDS SchemaTypes, SequencesExt, WellFoundedInduction, TLAPS

-----------------------------------------------------------------------------
(* Inserting into a vector                                                 *)

\* Inserting puts the entry at the place, leaves those in front alone and moves
\* those behind by one.
LEMMA InsertedAt ==
  ASSUME NEW S, NEW s \in Seq(S), NEW e \in S, NEW n \in 0..Len(s)
  PROVE  /\ InsertAt(s, n + 1, e) \in Seq(S)
         /\ Len(InsertAt(s, n + 1, e)) = Len(s) + 1
         /\ \A i \in 1..n : InsertAt(s, n + 1, e)[i] = s[i]
         /\ InsertAt(s, n + 1, e)[n + 1] = e
         /\ \A i \in (n + 2)..(Len(s) + 1) : InsertAt(s, n + 1, e)[i] = s[i - 1]
<1> DEFINE front == SubSeq(s, 1, n)
           back == SubSeq(s, n + 1, Len(s))
<1>1. front \in Seq(S) /\ Len(front) = n /\ \A j \in 1..n : front[j] = s[j]
  OBVIOUS
<1>2. /\ back \in Seq(S) /\ Len(back) = Len(s) - n
      /\ \A j \in 1..(Len(s) - n) : back[j] = s[n + j]
  OBVIOUS
<1>3. InsertAt(s, n + 1, e) = (front \o <<e>>) \o back
  <2>1. (n + 1) - 1 = n
    OBVIOUS
  <2> QED  BY ONLY <2>1 DEF InsertAt
<1> HIDE DEF front, back
<1>4. /\ front \o <<e>> \in Seq(S) /\ Len(front \o <<e>>) = n + 1
      /\ \A j \in 1..n : (front \o <<e>>)[j] = s[j]
      /\ (front \o <<e>>)[n + 1] = e
  BY <1>1
<1> DEFINE first == front \o <<e>>
<1> HIDE DEF first
<1>5. /\ first \o back \in Seq(S) /\ Len(first \o back) = Len(s) + 1
      /\ \A j \in 1..(n + 1) : (first \o back)[j] = first[j]
      /\ \A j \in (n + 2)..(Len(s) + 1) : (first \o back)[j] = back[j - (n + 1)]
  <2>1. /\ first \in Seq(S) /\ Len(first) = n + 1
        /\ back \in Seq(S) /\ Len(back) = Len(s) - n /\ Len(s) \in Nat
    BY <1>2, <1>4 DEF first
  <2> QED  BY ONLY <2>1, n \in 0..Len(s), SMTT(60)
<1>6. InsertAt(s, n + 1, e) = first \o back
  BY <1>3 DEF first
<1>7. first[n + 1] = e /\ \A i \in 1..n : first[i] = s[i]
  BY <1>4 DEF first
<1>8. /\ \A i \in 1..n : (first \o back)[i] = s[i]
      /\ (first \o back)[n + 1] = e
  BY <1>5, <1>7
<1>9. ASSUME NEW i \in (n + 2)..(Len(s) + 1)
      PROVE  (first \o back)[i] = s[i - 1]
  <2>1. i - (n + 1) \in 1..(Len(s) - n) /\ n + (i - (n + 1)) = i - 1
    OBVIOUS
  <2> QED  BY <1>2, <1>5, <2>1
<1> QED  BY <1>5, <1>6, <1>8, <1>9

-----------------------------------------------------------------------------
(* The steps that insert nothing                                           *)

LEMMA InitIndInv == WrapInit => WrapIndInv
<1> SUFFICES ASSUME WrapInit  PROVE WrapIndInv
  OBVIOUS
<1>1. WrapTypeOK
  BY Numbers DEF WrapInit, WrapTypeOK, Kinds, Requests
<1>2. Mutexes /\ IteratorsAreValid /\ Distinct /\ WrappersAreKept
  BY DEF WrapInit, Mutexes, IteratorsAreValid, Distinct, WrappersAreKept, Kinds
<1> QED  BY <1>1, <1>2 DEF WrapIndInv

LEMMA CallIndInv ==
  ASSUME WrapIndInv, NEW t \in Threads, NEW request \in Requests, Call(t, request)
  PROVE  WrapIndInv'
<1>1. WrapTypeOK'
  BY DEF WrapIndInv, WrapTypeOK, Call, Goto
<1>2. Mutexes' /\ IteratorsAreValid'
  BY DEF WrapIndInv, WrapTypeOK, Call, Goto, Mutexes, IteratorsAreValid
<1>3. Distinct' /\ WrappersAreKept'
  BY DEF WrapIndInv, Call, Distinct, WrappersAreKept
<1> QED  BY <1>1, <1>2, <1>3 DEF WrapIndInv

LEMMA LookUpIndInv ==
  ASSUME WrapIndInv, NEW t \in Threads, LookUp(t)
  PROVE  WrapIndInv'
<1>1. asked[t] \in Requests /\ asked[t].kind \in Kinds
  BY DEF WrapIndInv, WrapTypeOK, Requests
<1>2. wrappers[asked[t].kind] \in Seq(Pairs)
  BY <1>1 DEF WrapIndInv, WrapTypeOK
<1>3. WrapTypeOK'
  <2>1. \A i \in Found(asked[t]) : i \in Nat
    BY <1>2 DEF Found
  <2>2. itr' \in [Threads -> Nat]
    BY <2>1 DEF WrapIndInv, WrapTypeOK, LookUp
  <2>3. pc' \in [Threads -> {"idle", "sharing", "missing", "locking", "found"}]
    BY DEF WrapIndInv, WrapTypeOK, LookUp, Goto
  <2>4. readers' \in [Kinds -> SUBSET Threads]
    BY DEF WrapIndInv, WrapTypeOK, LookUp, Share
  <2> QED  BY <2>2, <2>3, <2>4 DEF WrapIndInv, WrapTypeOK, LookUp
<1>4. Mutexes'
  BY <1>1 DEF WrapIndInv, WrapTypeOK, LookUp, Goto, Share, Mutexes
<1>5. IteratorsAreValid'
  BY <1>1 DEF WrapIndInv, WrapTypeOK, LookUp, Goto, IteratorsAreValid, Found
<1>6. Distinct' /\ WrappersAreKept'
  BY DEF WrapIndInv, LookUp, Distinct, WrappersAreKept
<1> QED  BY <1>3, <1>4, <1>5, <1>6 DEF WrapIndInv

LEMMA GiveBackIndInv ==
  ASSUME WrapIndInv, NEW t \in Threads, GiveBack(t)
  PROVE  WrapIndInv'
<1>1. asked[t].kind \in Kinds
  BY DEF WrapIndInv, WrapTypeOK, Requests
<1>2. WrapTypeOK'
  BY <1>1 DEF WrapIndInv, WrapTypeOK, GiveBack, Goto, Unshare
<1>3. Mutexes'
  BY <1>1 DEF WrapIndInv, WrapTypeOK, GiveBack, Goto, Unshare, Mutexes
<1>4. IteratorsAreValid'
  BY DEF WrapIndInv, WrapTypeOK, GiveBack, Goto, IteratorsAreValid
<1>5. Distinct' /\ WrappersAreKept'
  BY DEF WrapIndInv, GiveBack, Distinct, WrappersAreKept
<1> QED  BY <1>2, <1>3, <1>4, <1>5 DEF WrapIndInv

LEMMA ReturnIndInv ==
  ASSUME WrapIndInv, NEW t \in Threads, Return(t)
  PROVE  WrapIndInv'
<1> DEFINE kind == asked[t].kind
           pair == wrappers[kind][itr[t]]
<1>1. kind \in Kinds /\ wrappers[kind] \in Seq(Pairs) /\ itr[t] \in DOMAIN wrappers[kind]
  BY DEF WrapIndInv, WrapTypeOK, Requests, IteratorsAreValid, Return
<1>2. pair \in Pairs /\ pair.ofType = asked[t].ofType
  BY <1>1 DEF WrapIndInv, IteratorsAreValid, Return
<1>3. pair = [ofType |-> asked[t].ofType, wrapper |-> pair.wrapper]
  BY <1>2 DEF Pairs
<1>4. WrapTypeOK'
  <2>1. pair.wrapper \in Addresses /\ asked[t].ofType \in Addresses
    BY <1>2 DEF Pairs
  <2>2. returned' \subseteq [kind : Kinds, ofType : Addresses, wrapper : Addresses]
    BY <1>1, <2>1 DEF WrapIndInv, WrapTypeOK, Return
  <2> QED  BY <1>1, <2>2 DEF WrapIndInv, WrapTypeOK, Return, Goto, Unshare
<1>5. Mutexes'
  BY <1>1, NobodyIsNoThread DEF WrapIndInv, WrapTypeOK, Return, Goto, Unshare, Mutexes
<1>6. IteratorsAreValid' /\ Distinct'
  BY DEF WrapIndInv, WrapTypeOK, Return, Goto, IteratorsAreValid, Distinct
<1>7. WrappersAreKept'
  BY <1>1, <1>3 DEF WrapIndInv, Return, WrappersAreKept
<1> QED  BY <1>4, <1>5, <1>6, <1>7 DEF WrapIndInv

-----------------------------------------------------------------------------
(* Making a wrapper                                                        *)

\* Who has a mutex alone holds no iterator into its map yet, and no other
\* thread does.
LEMMA AloneMeansNoIterator ==
  ASSUME WrapIndInv, NEW t \in Threads, NEW u \in Threads, pc[t] = "locking", pc[u] = "found",
         readers[asked[t].kind] = {}, writer[asked[t].kind] = Nobody
  PROVE  asked[u].kind # asked[t].kind
  BY NobodyIsNoThread DEF WrapIndInv, Mutexes

\* Another thread was faster: the iterator refers to its wrapper.
LEMMA EmplaceFound ==
  ASSUME WrapIndInv, NEW t \in Threads, MakeAndEmplace(t), UNCHANGED wrappers,
         NEW i \in Found(asked[t]), itr' = [itr EXCEPT ![t] = i]
  PROVE  WrapIndInv'
<1>1. asked[t] \in Requests /\ asked[t].kind \in Kinds
  BY DEF WrapIndInv, WrapTypeOK, Requests
<1>2. wrappers[asked[t].kind] \in Seq(Pairs)
  BY <1>1 DEF WrapIndInv, WrapTypeOK
<1>3. i \in DOMAIN wrappers[asked[t].kind] /\ i \in Nat /\ wrappers[asked[t].kind][i].ofType = asked[t].ofType
  BY <1>2 DEF Found
<1>4. WrapTypeOK'
  <2>1. itr' \in [Threads -> Nat]
    BY <1>3 DEF WrapIndInv, WrapTypeOK
  <2>2. pc' \in [Threads -> {"idle", "sharing", "missing", "locking", "found"}]
    BY DEF WrapIndInv, WrapTypeOK, MakeAndEmplace, Goto
  <2>3. writer' \in [Kinds -> Threads \cup {Nobody}]
    BY DEF WrapIndInv, WrapTypeOK, MakeAndEmplace
  <2> QED  BY <2>1, <2>2, <2>3 DEF WrapIndInv, WrapTypeOK, MakeAndEmplace
<1>5. Mutexes'
  BY <1>1, NobodyIsNoThread DEF WrapIndInv, WrapTypeOK, MakeAndEmplace, Goto, Mutexes
<1>6. IteratorsAreValid'
  BY <1>3 DEF WrapIndInv, WrapTypeOK, MakeAndEmplace, Goto, IteratorsAreValid
<1>7. Distinct' /\ WrappersAreKept'
  BY DEF WrapIndInv, MakeAndEmplace, Distinct, WrappersAreKept
<1> QED  BY <1>4, <1>5, <1>6, <1>7 DEF WrapIndInv

\* A new wrapper is unlike the others, and moves only entries of its map that
\* no iterator refers to.
LEMMA EmplaceMissing ==
  ASSUME WrapIndInv, NEW t \in Threads, MakeAndEmplace(t), NEW a \in Addresses \ Live,
         Found(asked[t]) = {}, NEW n \in Places(asked[t]), itr' = [itr EXCEPT ![t] = n],
         wrappers' = [wrappers EXCEPT ![asked[t].kind] =
                        InsertAt(@, n, [ofType |-> asked[t].ofType, wrapper |-> a])]
  PROVE  WrapIndInv'
<1> PICK k \in Kinds : k = asked[t].kind
  BY DEF WrapIndInv, WrapTypeOK, Requests
<1> PICK pair \in Pairs : pair = [ofType |-> asked[t].ofType, wrapper |-> a]
  BY DEF WrapIndInv, WrapTypeOK, Requests, Pairs
<1> PICK old \in Seq(Pairs) : old = wrappers[k]
  BY DEF WrapIndInv, WrapTypeOK
<1>1. asked[t].ofType \in Addresses /\ asked[t].kind = k /\ pc[t] = "locking"
  BY DEF WrapIndInv, WrapTypeOK, Requests, MakeAndEmplace
<1>2. PICK m \in 0..Len(old) : n = m + 1
  <2>1. n \in 1..(Len(old) + 1)
    BY <1>1 DEF Places
  <2> QED  BY <2>1
<1>3. \A i \in DOMAIN old : old[i].ofType # asked[t].ofType
  BY <1>1 DEF Found
<1>4. \A i \in DOMAIN old : old[i].wrapper # a
  BY DEF Live, Kept
<1>5. wrappers'[k] = InsertAt(old, m + 1, pair)
  BY <1>1, <1>2 DEF WrapIndInv, WrapTypeOK
<1>6. wrappers'[k] \in Seq(Pairs) /\ Len(wrappers'[k]) = Len(old) + 1
  BY ONLY <1>5, InsertedAt, old \in Seq(Pairs), pair \in Pairs, m \in 0..Len(old)
<1>7. \A i \in 1..m : wrappers'[k][i] = old[i]
  BY ONLY <1>5, InsertedAt, old \in Seq(Pairs), pair \in Pairs, m \in 0..Len(old)
<1>8. wrappers'[k][m + 1] = pair
  BY ONLY <1>5, InsertedAt, old \in Seq(Pairs), pair \in Pairs, m \in 0..Len(old)
<1>9. \A i \in (m + 2)..(Len(old) + 1) : wrappers'[k][i] = old[i - 1]
  <2>1. \A i \in (m + 2)..(Len(old) + 1) : InsertAt(old, m + 1, pair)[i] = old[i - 1]
    BY ONLY InsertedAt, old \in Seq(Pairs), pair \in Pairs, m \in 0..Len(old)
  <2> QED  BY <1>5, <2>1
<1>10. DOMAIN old = 1..Len(old) /\ DOMAIN (wrappers'[k]) = 1..(Len(old) + 1) /\ Len(old) \in Nat
  BY <1>6
<1>11. \A other \in Kinds : other # k => wrappers'[other] = wrappers[other]
  BY <1>1 DEF WrapIndInv, WrapTypeOK
<1>12. m + 1 \in DOMAIN (wrappers'[k])
  BY <1>10
<1>13. ASSUME NEW kind \in Kinds, NEW i \in DOMAIN (wrappers'[kind])
       PROVE  \/ kind = k /\ wrappers'[kind][i] = pair
              \/ \E j \in DOMAIN wrappers[kind] : wrappers'[kind][i] = wrappers[kind][j]
  <2>1. CASE kind # k
    BY <1>11, <2>1
  <2>2. CASE kind = k
    <3>1. \/ i \in 1..m /\ i \in DOMAIN old
          \/ i = m + 1
          \/ i \in (m + 2)..(Len(old) + 1) /\ i - 1 \in DOMAIN old
      BY <1>10, <2>2
    <3> QED  BY <1>7, <1>8, <1>9, <2>2, <3>1
  <2> QED  BY <2>1, <2>2
<1>14. ASSUME NEW kind \in Kinds, NEW j \in DOMAIN wrappers[kind]
       PROVE  \E i \in DOMAIN (wrappers'[kind]) : wrappers'[kind][i] = wrappers[kind][j]
  <2>1. CASE kind # k
    BY <1>11, <2>1
  <2>2. CASE kind = k
    <3>1. \/ j \in 1..m /\ j \in DOMAIN (wrappers'[k])
          \/ j + 1 \in (m + 2)..(Len(old) + 1) /\ j + 1 \in DOMAIN (wrappers'[k]) /\ (j + 1) - 1 = j
      BY <1>10, <2>2
    <3>2. CASE j \in 1..m
      BY <1>7, <2>2, <3>1, <3>2
    <3>3. CASE j + 1 \in (m + 2)..(Len(old) + 1) /\ j + 1 \in DOMAIN (wrappers'[k]) /\ (j + 1) - 1 = j
      <4>1. wrappers'[k][j + 1] = old[j]
        BY <1>9, <3>3
      <4> QED  BY <2>2, <3>3, <4>1
    <3> QED  BY <3>1, <3>2, <3>3
  <2> QED  BY <2>1, <2>2
<1>15. WrapTypeOK'
  <2>1. itr' \in [Threads -> Nat]
    BY <1>2 DEF WrapIndInv, WrapTypeOK
  <2>2. pc' \in [Threads -> {"idle", "sharing", "missing", "locking", "found"}]
    BY DEF WrapIndInv, WrapTypeOK, MakeAndEmplace, Goto
  <2>3. writer' \in [Kinds -> Threads \cup {Nobody}]
    BY DEF WrapIndInv, WrapTypeOK, MakeAndEmplace
  <2>4. wrappers' \in [Kinds -> Seq(Pairs)]
    BY <1>1, <1>5, <1>6, <1>2 DEF WrapIndInv, WrapTypeOK
  <2> QED  BY <2>1, <2>2, <2>3, <2>4 DEF WrapIndInv, WrapTypeOK, MakeAndEmplace
<1>16. Mutexes'
  BY <1>1, NobodyIsNoThread DEF WrapIndInv, WrapTypeOK, MakeAndEmplace, Goto, Mutexes
<1>17. IteratorsAreValid'
  <2> SUFFICES ASSUME NEW u \in Threads, pc'[u] = "found"
               PROVE  /\ itr'[u] \in DOMAIN (wrappers'[asked'[u].kind])
                      /\ wrappers'[asked'[u].kind][itr'[u]].ofType = asked'[u].ofType
    BY DEF IteratorsAreValid
  <2>1. asked' = asked
    BY DEF MakeAndEmplace
  <2>2. CASE u = t
    <3>1. itr'[u] = m + 1
      BY <1>2, <2>2 DEF WrapIndInv, WrapTypeOK
    <3> QED  BY <1>1, <1>8, <1>12, <2>1, <2>2, <3>1
  <2>3. CASE u # t
    <3>1. pc[u] = "found" /\ itr'[u] = itr[u]
      BY <2>3 DEF WrapIndInv, WrapTypeOK, MakeAndEmplace, Goto
    <3>2. asked[u].kind # k
      BY <1>1, <3>1, AloneMeansNoIterator DEF MakeAndEmplace
    <3>3. asked[u].kind \in Kinds
      BY DEF WrapIndInv, WrapTypeOK, Requests
    <3>4. wrappers'[asked[u].kind] = wrappers[asked[u].kind]
      BY <1>11, <3>2, <3>3
    <3> QED  BY <2>1, <3>1, <3>4 DEF WrapIndInv, IteratorsAreValid
  <2> QED  BY <2>2, <2>3
<1>18. Distinct'
  <2>1. pair.ofType = asked[t].ofType /\ pair.wrapper = a
    OBVIOUS
  <2>2. ASSUME NEW kind \in Kinds, NEW j \in DOMAIN wrappers[kind]
        PROVE  /\ wrappers[kind][j].wrapper # pair.wrapper
               /\ ~ (wrappers[kind][j].ofType = pair.ofType /\ kind = k)
    BY <1>3, <2>1 DEF Live, Kept
  <2> SUFFICES ASSUME NEW kind \in Kinds, NEW other \in Kinds,
                      NEW i \in DOMAIN (wrappers'[kind]), NEW j \in DOMAIN (wrappers'[other])
               PROVE  wrappers'[kind][i].ofType = wrappers'[other][j].ofType /\ kind = other
                        <=> wrappers'[kind][i].wrapper = wrappers'[other][j].wrapper
    BY DEF Distinct
  <2>3. CASE kind = k /\ wrappers'[kind][i] = pair
    <3>1. CASE other = k /\ wrappers'[other][j] = pair
      BY <2>3, <3>1
    <3>2. CASE \E j0 \in DOMAIN wrappers[other] : wrappers'[other][j] = wrappers[other][j0]
      BY <2>2, <2>3, <3>2
    <3> QED  BY <1>13, <3>1, <3>2
  <2>4. CASE \E i0 \in DOMAIN wrappers[kind] : wrappers'[kind][i] = wrappers[kind][i0]
    <3>1. CASE other = k /\ wrappers'[other][j] = pair
      BY <2>2, <2>4, <3>1
    <3>2. CASE \E j0 \in DOMAIN wrappers[other] : wrappers'[other][j] = wrappers[other][j0]
      BY <2>4, <3>2 DEF WrapIndInv, Distinct
    <3> QED  BY <1>13, <3>1, <3>2
  <2> QED  BY <1>13, <2>3, <2>4
<1>19. WrappersAreKept'
  <2> SUFFICES ASSUME NEW r \in returned
               PROVE  \E i \in DOMAIN (wrappers'[r.kind]) :
                        wrappers'[r.kind][i] = [ofType |-> r.ofType, wrapper |-> r.wrapper]
    BY DEF WrappersAreKept, MakeAndEmplace
  <2>1. r.kind \in Kinds
    BY DEF WrapIndInv, WrapTypeOK
  <2>2. PICK j \in DOMAIN wrappers[r.kind] :
          wrappers[r.kind][j] = [ofType |-> r.ofType, wrapper |-> r.wrapper]
    BY DEF WrapIndInv, WrappersAreKept
  <2> QED  BY <1>14, <2>1, <2>2
<1> QED  BY <1>15, <1>16, <1>17, <1>18, <1>19 DEF WrapIndInv

-----------------------------------------------------------------------------
LEMMA NextIndInv == WrapIndInv /\ [WrapNext]_wrapVars => WrapIndInv'
<1> SUFFICES ASSUME WrapIndInv, [WrapNext]_wrapVars  PROVE WrapIndInv'
  OBVIOUS
<1>1. CASE UNCHANGED wrapVars
  BY <1>1 DEF wrapVars, WrapIndInv, WrapTypeOK, Mutexes, IteratorsAreValid, Distinct, WrappersAreKept
<1>2. ASSUME NEW t \in Threads, MakeAndEmplace(t)  PROVE WrapIndInv'
  <2> PICK a \in Addresses \ Live :
       \/ \E i \in Found(asked[t]) : itr' = [itr EXCEPT ![t] = i] /\ UNCHANGED wrappers
       \/ /\ Found(asked[t]) = {}
          /\ \E n \in Places(asked[t]) :
               /\ itr' = [itr EXCEPT ![t] = n]
               /\ wrappers' = [wrappers EXCEPT ![asked[t].kind] =
                                 InsertAt(@, n, [ofType |-> asked[t].ofType, wrapper |-> a])]
    BY <1>2 DEF MakeAndEmplace
  <2> QED  BY <1>2, EmplaceFound, EmplaceMissing
<1>3. ASSUME NEW t \in Threads, GoOn(t)  PROVE WrapIndInv'
  BY <1>2, <1>3, LookUpIndInv, GiveBackIndInv, ReturnIndInv DEF GoOn
<1> QED  BY <1>1, <1>3, CallIndInv DEF WrapNext

\* For any number of threads, types and calls, the mutexes keep readers and
\* writers apart, an iterator stays good until it is read, and no two types
\* or kinds share a wrapper (WrapType).
THEOREM WrapTypeInvariant == WrapSpec => []WrapIndInv
<1> QED  BY InitIndInv, NextIndInv, PTL DEF WrapSpec

\* Every call for a kind of wrapper of a type returns the same (WrapType).
THEOREM AlwaysOneWrapperEach == WrapSpec => []OneWrapperEach
<1>1. WrapIndInv => OneWrapperEach
  <2> SUFFICES ASSUME WrapIndInv, NEW r \in returned, NEW s \in returned
               PROVE  r.wrapper = s.wrapper <=> r.kind = s.kind /\ r.ofType = s.ofType
    BY DEF OneWrapperEach
  <2>1. r.kind \in Kinds /\ s.kind \in Kinds
    BY DEF WrapIndInv, WrapTypeOK
  <2>2. PICK i \in DOMAIN wrappers[r.kind] :
          wrappers[r.kind][i] = [ofType |-> r.ofType, wrapper |-> r.wrapper]
    BY DEF WrapIndInv, WrappersAreKept
  <2>3. PICK j \in DOMAIN wrappers[s.kind] :
          wrappers[s.kind][j] = [ofType |-> s.ofType, wrapper |-> s.wrapper]
    BY DEF WrapIndInv, WrappersAreKept
  <2> QED  BY <2>1, <2>2, <2>3 DEF WrapIndInv, Distinct
<1> QED  BY <1>1, WrapTypeInvariant, PTL

\* A wrapper that was returned lives as long as the schema (WrapType).
THEOREM WrappersAreAlwaysKept == WrapSpec => []WrappersAreKept
<1>1. WrapIndInv => WrappersAreKept
  BY DEF WrapIndInv
<1> QED  BY <1>1, WrapTypeInvariant, PTL

-----------------------------------------------------------------------------
(* No call waits for ever                                                  *)

\* The maps are sorted, which Places relies on.
Ascending(entries) ==
  \A i, j \in DOMAIN entries : i < j => entries[i].ofType < entries[j].ofType

\* Who shares a mutex or has it alone is in the middle of a call for its kind.
Holders ==
  \A kind \in Kinds :
    /\ \A t \in readers[kind] : pc[t] \in {"missing", "found"} /\ asked[t].kind = kind
    /\ writer[kind] # Nobody => pc[writer[kind]] = "found" /\ asked[writer[kind]].kind = kind

GoOnInv == Holders /\ \A kind \in Kinds : Ascending(wrappers[kind])

LEMMA HoldersNext ==
  ASSUME WrapIndInv, Holders, WrapNext
  PROVE  Holders'
<1>1. /\ pc \in [Threads -> {"idle", "sharing", "missing", "locking", "found"}]
      /\ readers \in [Kinds -> SUBSET Threads] /\ writer \in [Kinds -> Threads \cup {Nobody}]
      /\ asked \in [Threads -> Requests] /\ \A t \in Threads : asked[t].kind \in Kinds
  BY DEF WrapIndInv, WrapTypeOK, Requests
<1>2. ASSUME NEW t \in Threads, NEW request \in Requests, Call(t, request)
      PROVE  Holders'
  BY <1>1, <1>2, NobodyIsNoThread DEF Holders, Call, Goto
<1>3. ASSUME NEW t \in Threads, LookUp(t)
      PROVE  Holders'
  <2>1. \E place \in {"missing", "found"} : pc' = [pc EXCEPT ![t] = place]
    BY <1>3 DEF LookUp, Goto
  <2>2. readers' = [readers EXCEPT ![asked[t].kind] = @ \cup {t}] /\ UNCHANGED <<writer, asked>> /\ pc[t] = "sharing"
    BY <1>3 DEF LookUp, Share
  <2> QED  BY <1>1, <2>1, <2>2, NobodyIsNoThread DEF Holders
<1>4. ASSUME NEW t \in Threads, GiveBack(t)
      PROVE  Holders'
  BY <1>1, <1>4, NobodyIsNoThread DEF Holders, GiveBack, Goto, Unshare
<1>5. ASSUME NEW t \in Threads, MakeAndEmplace(t)
      PROVE  Holders'
  <2>1. /\ pc' = [pc EXCEPT ![t] = "found"] /\ pc[t] = "locking"
        /\ writer' = [writer EXCEPT ![asked[t].kind] = t] /\ UNCHANGED <<readers, asked>>
    BY <1>5 DEF MakeAndEmplace, Goto
  <2> QED  BY <1>1, <2>1, NobodyIsNoThread DEF Holders
<1>6. ASSUME NEW t \in Threads, Return(t)
      PROVE  Holders'
  BY <1>1, <1>6, NobodyIsNoThread DEF Holders, Return, Goto, Unshare
<1> QED  BY <1>2, <1>3, <1>4, <1>5, <1>6 DEF WrapNext, GoOn

\* An entry that is put behind those that are smaller leaves them sorted.
LEMMA EmplacedAscending ==
  ASSUME NEW s \in Seq(Pairs), Ascending(s), NEW e \in Pairs, NEW n \in 1..(Len(s) + 1),
         \A i \in DOMAIN s : i < n <=> s[i].ofType < e.ofType,
         \A i \in DOMAIN s : s[i].ofType # e.ofType
  PROVE  Ascending(InsertAt(s, n, e))
<1>0. Len(s) \in Nat /\ DOMAIN s = 1..Len(s) /\ n - 1 \in 0..Len(s) /\ (n - 1) + 1 = n
  OBVIOUS
<1> PICK m \in 0..Len(s) : m = n - 1
  BY <1>0
<1> PICK new : new = InsertAt(s, m + 1, e)
  OBVIOUS
<1>1. m + 1 = n /\ new = InsertAt(s, m + 1, e)
  BY <1>0
<1>2. new \in Seq(Pairs) /\ Len(new) = Len(s) + 1
  BY ONLY <1>1, InsertedAt, s \in Seq(Pairs), e \in Pairs, m \in 0..Len(s)
<1>front. \A i \in 1..m : new[i] = s[i]
  BY ONLY <1>1, InsertedAt, s \in Seq(Pairs), e \in Pairs, m \in 0..Len(s)
<1>placed. new[m + 1] = e
  BY ONLY <1>1, InsertedAt, s \in Seq(Pairs), e \in Pairs, m \in 0..Len(s)
<1>3. \A i \in (m + 2)..(Len(s) + 1) : new[i] = s[i - 1]
  <2>1. \A i \in (m + 2)..(Len(s) + 1) : InsertAt(s, m + 1, e)[i] = s[i - 1]
    BY ONLY InsertedAt, s \in Seq(Pairs), e \in Pairs, m \in 0..Len(s), SMTT(60)
  <2> QED  BY ONLY <1>1, <2>1
<1>4. /\ DOMAIN s = 1..Len(s) /\ DOMAIN new = 1..(Len(s) + 1) /\ Len(s) \in Nat
      /\ new[n] = e
  BY <1>0, <1>1, <1>2, <1>placed
<1>5. e.ofType \in Nat /\ \A i \in DOMAIN s : s[i].ofType \in Nat
  <2>1. \A p \in Pairs : p.ofType \in Nat
    BY Numbers DEF Pairs
  <2> QED  BY <1>4, <2>1
<1>6. ASSUME NEW i \in 1..Len(s), i < n
      PROVE  new[i] = s[i] /\ s[i].ofType < e.ofType
  <2>1. i \in 1..m /\ i \in DOMAIN s
    BY <1>1, <1>4, <1>6
  <2> QED  BY <1>front, <1>6, <2>1
<1>7. ASSUME NEW i \in 1..(Len(s) + 1), n < i
      PROVE  i - 1 \in 1..Len(s) /\ new[i] = s[i - 1] /\ e.ofType < s[i - 1].ofType
  <2>1. i - 1 \in DOMAIN s /\ ~(i - 1 < n) /\ i \in (m + 2)..(Len(s) + 1)
    BY <1>1, <1>4, <1>7
  <2>2. ~(s[i - 1].ofType < e.ofType) /\ s[i - 1].ofType # e.ofType
    BY <2>1
  <2>3. s[i - 1].ofType \in Nat
    BY <1>5, <2>1
  <2>4. e.ofType < s[i - 1].ofType
    BY <1>5, <2>2, <2>3
  <2> QED  BY <1>3, <1>4, <2>1, <2>4
<1>8. ASSUME NEW i \in DOMAIN new, NEW j \in DOMAIN new, i < j
      PROVE  new[i].ofType < new[j].ofType
  <2>1. CASE j < n
    <3>1. new[i] = s[i] /\ new[j] = s[j] /\ i \in DOMAIN s /\ j \in DOMAIN s
      BY <1>4, <1>6, <1>8, <2>1
    <3> QED  BY <1>8, <3>1 DEF Ascending
  <2>2. CASE j = n
    <3>1. i \in 1..Len(s) /\ i < n
      BY <1>4, <1>8, <2>2
    <3> QED  BY <1>4, <1>6, <2>2, <3>1
  <2>3. CASE n < j /\ i = n
    BY <1>4, <1>7, <2>3
  <2>4. CASE n < j /\ i < n
    <3>1. new[i] = s[i] /\ s[i].ofType < e.ofType /\ i \in DOMAIN s
      BY <1>4, <1>6, <2>4
    <3>2. new[j] = s[j - 1] /\ e.ofType < s[j - 1].ofType /\ j - 1 \in DOMAIN s
      BY <1>4, <1>7, <2>4
    <3>3. e.ofType \in Nat /\ s[i].ofType \in Nat /\ s[j - 1].ofType \in Nat
      BY <1>5, <3>1, <3>2
    <3> QED  BY <3>1, <3>2, <3>3
  <2>5. CASE n < i
    <3>1. /\ new[i] = s[i - 1] /\ i - 1 \in DOMAIN s
          /\ new[j] = s[j - 1] /\ j - 1 \in DOMAIN s /\ i - 1 < j - 1
      BY <1>4, <1>7, <1>8, <2>5
    <3> QED  BY <3>1 DEF Ascending
  <2> QED  BY <1>4, <2>1, <2>2, <2>3, <2>4, <2>5
<1> QED  BY <1>1, <1>8 DEF Ascending

LEMMA AscendingNext ==
  ASSUME WrapIndInv, \A kind \in Kinds : Ascending(wrappers[kind]), WrapNext
  PROVE  \A kind \in Kinds : Ascending(wrappers'[kind])
<1>1. CASE UNCHANGED wrappers
  BY <1>1
<1>2. ASSUME NEW t \in Threads, MakeAndEmplace(t), wrappers' # wrappers
      PROVE  \A kind \in Kinds : Ascending(wrappers'[kind])
  <2>1. PICK a \in Addresses \ Live, n \in Places(asked[t]) :
          /\ Found(asked[t]) = {}
          /\ wrappers' = [wrappers EXCEPT ![asked[t].kind] =
                            InsertAt(@, n, [ofType |-> asked[t].ofType, wrapper |-> a])]
    BY <1>2 DEF MakeAndEmplace
  <2> PICK k \in Kinds : k = asked[t].kind
    BY DEF WrapIndInv, WrapTypeOK, Requests
  <2> PICK e \in Pairs : e = [ofType |-> asked[t].ofType, wrapper |-> a]
    BY DEF WrapIndInv, WrapTypeOK, Requests, Pairs
  <2> PICK s \in Seq(Pairs) : s = wrappers[k]
    BY DEF WrapIndInv, WrapTypeOK
  <2>2. n \in 1..(Len(s) + 1) /\ \A i \in DOMAIN s : i < n <=> s[i].ofType < e.ofType
    BY DEF Places
  <2>3. \A i \in DOMAIN s : s[i].ofType # e.ofType
    BY <2>1 DEF Found
  <2>4. Ascending(InsertAt(s, n, e))
    BY <2>2, <2>3, EmplacedAscending
  <2>5. wrappers' = [wrappers EXCEPT ![k] = InsertAt(s, n, e)]
    BY <2>1
  <2> QED  BY <2>4, <2>5 DEF WrapIndInv, WrapTypeOK
<1> QED  BY <1>1, <1>2 DEF WrapNext, GoOn, Call, LookUp, GiveBack, Return

LEMMA GoOnAlways == WrapSpec => []GoOnInv
<1>1. WrapInit => GoOnInv
  BY DEF WrapInit, GoOnInv, Holders, Ascending
<1>2. WrapIndInv /\ GoOnInv /\ [WrapNext]_wrapVars => GoOnInv'
  <2> SUFFICES ASSUME WrapIndInv, GoOnInv, [WrapNext]_wrapVars PROVE GoOnInv'
    OBVIOUS
  <2>1. CASE WrapNext
    BY <2>1, HoldersNext, AscendingNext DEF GoOnInv
  <2>2. CASE UNCHANGED wrapVars
    BY <2>2 DEF wrapVars, GoOnInv, Holders
  <2> QED  BY <2>1, <2>2
<1> QED  BY <1>1, <1>2, WrapTypeInvariant, PTL DEF WrapSpec

\* In a sorted map there is a place for any key.
LEMMA PlaceExists ==
  ASSUME WrapIndInv, GoOnInv, NEW request \in Requests
  PROVE  Places(request) # {}
<1> PICK k \in Kinds : k = request.kind
  BY DEF Requests
<1> PICK s \in Seq(Pairs) : s = wrappers[k]
  BY DEF WrapIndInv, WrapTypeOK
<1> DEFINE x == request.ofType
           behind == {i \in 1..(Len(s) + 1) : i = Len(s) + 1 \/ x <= s[i].ofType}
           less == {pair \in Nat \X Nat : pair[1] < pair[2]}
<1>1. /\ x \in Nat /\ Ascending(s) /\ Len(s) \in Nat /\ DOMAIN s = 1..Len(s)
      /\ \A i \in DOMAIN s : s[i].ofType \in Nat
  <2>1. x \in Nat /\ \A p \in Pairs : p.ofType \in Nat
    BY Numbers DEF Requests, Pairs
  <2> QED  BY <2>1 DEF GoOnInv
<1>2. IsWellFoundedOn(less, Nat)
  BY NatLessThanWellFounded DEF OpToRel
<1>3. behind \subseteq Nat /\ Len(s) + 1 \in behind
  BY <1>1
<1>4. PICK n \in behind : \A i \in behind : <<i, n>> \notin less
  <2> HIDE DEF behind, less
  <2> QED  BY <1>2, <1>3, WFMin
<1>5. ASSUME NEW i \in behind
      PROVE  n <= i
  <2>1. i \in Nat /\ n \in Nat /\ <<i, n>> \notin less
    BY <1>3, <1>4
  <2>2. ~(i < n)
    BY ONLY <2>1 DEF less
  <2> QED  BY ONLY <2>1, <2>2
<1>6. ASSUME NEW i \in DOMAIN s
      PROVE  i < n <=> s[i].ofType < x
  <2>1. CASE i < n
    <3>1. i \notin behind
      BY <1>1, <1>5, <2>1
    <3> QED  BY <1>1, <2>1, <3>1
  <2>2. CASE i = n
    BY <1>1, <2>2
  <2>3. CASE n < i
    <3>1. n \in DOMAIN s /\ x <= s[n].ofType
      BY <1>1, <2>3
    <3>2. s[n].ofType < s[i].ofType
      BY <1>1, <2>3, <3>1 DEF Ascending
    <3>3. s[n].ofType \in Nat /\ s[i].ofType \in Nat
      BY <1>1, <3>1
    <3>4. ~(s[i].ofType < x)
      BY <1>1, <3>1, <3>2, <3>3
    <3> QED  BY <1>1, <2>3, <3>4
  <2> QED  BY <1>1, <2>1, <2>2, <2>3
<1>7. n \in Places(request)
  BY <1>6 DEF Places
<1> QED  BY <1>7

\* A call has what its next section needs: the mutex, a place in the map and an
\* address for a new wrapper, or an iterator that can be read.
MayGoOn(t) ==
  \/ pc[t] = "sharing" /\ writer[asked[t].kind] = Nobody
  \/ pc[t] = "missing"
  \/ /\ pc[t] = "locking" /\ readers[asked[t].kind] = {} /\ writer[asked[t].kind] = Nobody
     /\ Places(asked[t]) # {} /\ Addresses \ Live # {}
  \/ pc[t] = "found" /\ itr[t] \in DOMAIN wrappers[asked[t].kind]

\* Threads that share the mutexes, and that give them back to get them alone,
\* never all wait for each other: while a call is under way and there is memory
\* for a wrapper, some call may go on (WrapType).
THEOREM SomebodyGoesOn ==
  WrapSpec => []((\E t \in Threads : pc[t] # "idle") /\ Addresses \ Live # {}
                   => \E t \in Threads : MayGoOn(t))
<1>1. WrapIndInv /\ GoOnInv =>
        ((\E t \in Threads : pc[t] # "idle") /\ Addresses \ Live # {}
           => \E t \in Threads : MayGoOn(t))
  <2> SUFFICES ASSUME WrapIndInv, GoOnInv, NEW t \in Threads, pc[t] # "idle", Addresses \ Live # {}
               PROVE  \E u \in Threads : MayGoOn(u)
    OBVIOUS
  <2>1. asked[t] \in Requests /\ asked[t].kind \in Kinds
    BY DEF WrapIndInv, WrapTypeOK, Requests
  <2>2. ASSUME NEW u \in Threads, pc[u] \in {"missing", "found"}
        PROVE  MayGoOn(u)
    BY <2>2 DEF MayGoOn, WrapIndInv, IteratorsAreValid
  <2>3. CASE \A u \in Threads : pc[u] \notin {"missing", "found"}
    <3>1. readers[asked[t].kind] = {} /\ writer[asked[t].kind] = Nobody
      BY <2>1, <2>3 DEF GoOnInv, Holders, WrapIndInv, WrapTypeOK
    <3>2. pc[t] \in {"sharing", "locking"}
      BY <2>3 DEF WrapIndInv, WrapTypeOK
    <3>3. Places(asked[t]) # {}
      BY <2>1, PlaceExists
    <3> QED  BY <3>1, <3>2, <3>3 DEF MayGoOn
  <2> QED  BY <2>2, <2>3
<1> QED  BY <1>1, GoOnAlways, WrapTypeInvariant, PTL
=============================================================================
