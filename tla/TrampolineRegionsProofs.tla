------------------------ MODULE TrampolineRegionsProofs ------------------------
(***************************************************************************)
(* What holds of the trampoline memory for any address space, any size of  *)
(* region and any functions: the invariants of TrampolineRegions, and that *)
(* it implements SlotPool.  TypeOK and the three invariants that a run     *)
(* checks support each other: the free list of a region is a list of its   *)
(* free slots only while the region is on the list, and a new region may   *)
(* be put on the list because what is mapped free is not on it.            *)
(***************************************************************************)
EXTENDS TrampolineRegions, FiniteSetTheorems, TLAPS

Contents == Targets \cup {"fresh", "free"}

\* A list without repetitions that leads through the free slots of region u.
Distinct(list) == \A i, j \in DOMAIN list : list[i] = list[j] => i = j
Leads(list, k) == \E i \in DOMAIN list : list[i] = k
Exact(list, contents, u) ==
    /\ Distinct(list)
    /\ \A k \in Indices : contents[<<u, k>>] = "free" <=> Leads(list, k)

RegionInv == TypeOK /\ FreeListsExact /\ RegionsAreMapped /\ WithinReach

LEMMA ListsExact ==
    FreeListsExact <=> \A v \in Units : Exact(pFree[v], block, v)
BY DEF FreeListsExact, Exact, Distinct, Leads

LEMMA SlotIs ==
    ASSUME NEW s \in Slots
    PROVE  s[1] \in Units /\ s[2] \in Indices /\ s = <<s[1], s[2]>>
BY DEF Slots

LEMMA Lists ==
    ASSUME NEW S, NEW list \in Seq(S), list # <<>>
    PROVE  /\ Head(list) \in S /\ Tail(list) \in Seq(S)
           /\ Head(list) = list[1] /\ 1 \in DOMAIN list
           /\ \A i \in DOMAIN Tail(list) :
                  i + 1 \in DOMAIN list /\ Tail(list)[i] = list[i + 1]
           /\ \A i \in DOMAIN list :
                  i = 1 \/ (i - 1 \in DOMAIN Tail(list) /\ i \in Int)
           /\ \A i \in DOMAIN Tail(list) : i \in Nat \ {0}
<1>1. list \in [1 .. Len(list) -> S] /\ Len(list) \in Nat \ {0}
  OBVIOUS
<1>2. Tail(list) \in Seq(S) /\ Len(Tail(list)) = Len(list) - 1
  BY <1>1
<1>3. DOMAIN list = 1 .. Len(list) /\ DOMAIN Tail(list) = 1 .. Len(list) - 1
  BY <1>1, <1>2
<1>4. \A i \in 1 .. Len(list) - 1 : Tail(list)[i] = list[i + 1]
  BY <1>1
<1> QED
  BY <1>1, <1>2, <1>3, <1>4

-----------------------------------------------------------------------------
(* Taking a slot.                                                          *)

\* The list without its head is exact when the head's slot is taken.
LEMMA AdvancedExact ==
    ASSUME NEW u \in Units, NEW list \in Seq(Indices), list # <<>>,
           NEW old \in [Slots -> Contents], Exact(list, old, u),
           NEW t \in Targets
    PROVE  Exact(Advanced(list), [old EXCEPT ![<<u, Head(list)>>] = t], u)
<1> DEFINE new == [old EXCEPT ![<<u, Head(list)>>] = t]
<1>1. Head(list) \in Indices /\ <<u, Head(list)>> \in Slots
  BY Lists DEF Slots
<1>2. \A k \in Indices : <<u, k>> \in Slots
  BY DEF Slots
<1>3. \A k \in Indices : new[<<u, k>>] = IF k = Head(list) THEN t ELSE old[<<u, k>>]
  BY <1>1, <1>2
<1>4. \A i, j \in DOMAIN list : list[i] = list[j] => i = j
  BY DEF Exact, Distinct
<1> HIDE DEF new
<1>5. Distinct(Tail(list))
  BY Lists, <1>4 DEF Distinct
<1>6. ASSUME NEW k \in Indices
      PROVE  Leads(Tail(list), k) <=> Leads(list, k) /\ k # Head(list)
  <2>1. ASSUME Leads(Tail(list), k) PROVE Leads(list, k) /\ k # Head(list)
    <3>1. PICK i \in DOMAIN Tail(list) : Tail(list)[i] = k
      BY <2>1 DEF Leads
    <3>2. i + 1 \in DOMAIN list /\ list[i + 1] = k /\ i + 1 # 1
      BY <3>1, Lists
    <3> QED
      BY <3>2, <1>4, Lists DEF Leads
  <2>2. ASSUME Leads(list, k), k # Head(list) PROVE Leads(Tail(list), k)
    <3>1. PICK i \in DOMAIN list : list[i] = k
      BY <2>2 DEF Leads
    <3>2. i # 1
      BY <3>1, <2>2, Lists
    <3>3. i - 1 \in DOMAIN Tail(list) /\ i \in Int
      BY <3>2, Lists
    <3>4. Tail(list)[i - 1] = list[(i - 1) + 1]
      BY <3>3, Lists
    <3> QED
      BY <3>1, <3>3, <3>4 DEF Leads
  <2> QED
    BY <2>1, <2>2
<1>7. ASSUME NEW k \in Indices
      PROVE  new[<<u, k>>] = "free" <=> Leads(Tail(list), k)
  BY <1>3, <1>6, ContentsAssumption DEF Exact
<1> QED
  BY <1>5, <1>7 DEF Exact, Advanced, new

\* What found_region leaves, given a region's list that is exact: the caller
\* has a free slot within reach, or none; nothing else is changed.
Takes(t, s, old) ==
    /\ old[s] = "free" /\ Fits(t, s) /\ returned' = s
    /\ block' = [old EXCEPT ![s] = t]

LEMMA FoundStep ==
    ASSUME NEW t \in Targets, NEW u \in Units,
           NEW list \in Seq(Indices), list # <<>>,
           NEW old \in [Slots -> Contents],
           pFree \in [Units -> Seq(Indices)],
           Exact(list, old, u),
           \A v \in Units : v # u => Exact(pFree[v], old, v),
           Found(t, u, list, old)
    PROVE  /\ pFree' \in [Units -> Seq(Indices)]
           /\ block' \in [Slots -> Contents]
           /\ returned' \in Slots \cup {Null}
           /\ s_pRegion' = u
           /\ FreeListsExact'
           /\ \/ Takes(t, <<u, Head(list)>>, old)
              \/ block' = old
<1> DEFINE s == <<u, Head(list)>>
<1>1. Head(list) \in Indices /\ s \in Slots
  BY Lists DEF Slots
<1>2. SUFFICES \A v \in Units : Exact(pFree'[v], block', v)
  <2>1. FreeListsExact' <=> \A v \in Units : Exact(pFree'[v], block', v)
    BY DEF FreeListsExact, Exact, Distinct, Leads
  <2>2. old[s] = "free"
    <3>1. Leads(list, Head(list))
      BY Lists DEF Leads
    <3> QED
      BY <3>1, <1>1 DEF Exact
  <2>3. Tail(list) \in Seq(Indices)
    BY Lists
  <2> HIDE DEF s
  <2>4. CASE SanityCheck(t, s) /\ pFree' = [pFree EXCEPT ![u] = Tail(list)]
              /\ block' = [old EXCEPT ![s] = t] /\ returned' = s /\ s_pRegion' = u
    BY <2>1, <2>2, <2>3, <2>4, <1>1, <1>2 DEF SanityCheck, Takes, Contents, s
  <2>5. CASE pFree' = [pFree EXCEPT ![u] = list] /\ block' = old /\ returned' = Null
              /\ s_pRegion' = u
    BY <2>1, <2>5, <1>2
  <2> QED
    BY <2>4, <2>5 DEF Found, Advanced, s
<1>3. ASSUME NEW v \in Units PROVE Exact(pFree'[v], block', v)
  <2>1. CASE pFree' = [pFree EXCEPT ![u] = Advanced(list)] /\ block' = [old EXCEPT ![s] = t]
    <3>1. CASE v = u
      BY <3>1, <2>1, AdvancedExact
    <3>2. CASE v # u
      <4>1. \A k \in Indices : block'[<<v, k>>] = old[<<v, k>>]
        BY <2>1, <3>2, <1>1 DEF Slots
      <4>2. pFree'[v] = pFree[v]
        BY <2>1, <3>2
      <4> QED
        BY <4>1, <4>2, <3>2 DEF Exact
    <3> QED
      BY <3>1, <3>2
  <2>2. CASE pFree' = [pFree EXCEPT ![u] = list] /\ block' = old
    BY <2>2
  <2> QED
    BY <2>1, <2>2 DEF Found
<1> QED
  BY <1>2, <1>3

\* The region that a step names is on the list.
LEMMA DefaultListed ==
    ASSUME RegionInv, Default # Null PROVE Default \in Units /\ Listed(Default)
<1>1. CASE s_pRegion = Null /\ s_pRegions # <<>>
  <2>1. 1 \in DOMAIN s_pRegions /\ Head(s_pRegions) = s_pRegions[1] /\ Head(s_pRegions) \in Units
    BY <1>1, Lists DEF RegionInv, TypeOK
  <2> QED
    BY <1>1, <2>1 DEF Default, Listed
<1>2. CASE ~(s_pRegion = Null /\ s_pRegions # <<>>)
  BY <1>2 DEF Default, RegionInv, TypeOK, RegionsAreMapped
<1> QED
  BY <1>1, <1>2

\* A new region's free list, and its slots.
LEMMA FreshExact ==
    ASSUME RegionInv, NEW u \in Units
    PROVE  /\ FreshList \in Seq(Indices) /\ FreshList # <<>>
           /\ Formatted(u) \in [Slots -> Contents]
           /\ \A v \in Units : v # u => Exact(pFree[v], Formatted(u), v)
           /\ Exact(FreshList, Formatted(u), u)
<1> DEFINE n == TrampolinesPerRegion - 2
<1>1. n \in Nat \ {0} /\ FreshList \in [1 .. n -> Indices]
  BY SlotsAssumption DEF FreshList, Indices
<1>2. FreshList \in Seq(Indices) /\ FreshList # <<>>
  <2>1. FreshList \in Seq(Indices) /\ Len(FreshList) = n
    BY <1>1
  <2> QED
    BY <2>1, <1>1
<1>3. DOMAIN FreshList = 1 .. n /\ \A i \in 1 .. n : FreshList[i] = i + 1
  BY DEF FreshList
<1>4. Formatted(u) \in [Slots -> Contents]
  BY DEF Formatted, RegionInv, TypeOK, Contents
<1>5. \A v \in Units, k \in Indices : <<v, k>> \in Slots
  BY DEF Slots
<1>6. ASSUME NEW v \in Units, v # u PROVE Exact(pFree[v], Formatted(u), v)
  <2>1. \A k \in Indices : Formatted(u)[<<v, k>>] = block[<<v, k>>]
    BY <1>5, <1>6 DEF Formatted
  <2>2. Exact(pFree[v], block, v)
    BY ListsExact DEF RegionInv
  <2> QED
    BY <2>1, <2>2 DEF Exact
<1>7. Exact(FreshList, Formatted(u), u)
  <2>1. Distinct(FreshList)
    BY <1>1, <1>3 DEF Distinct
  <2>2. \A k \in Indices : Formatted(u)[<<u, k>>] =
            IF k \in {FreshList[i] : i \in DOMAIN FreshList} THEN "free" ELSE "fresh"
    BY <1>5 DEF Formatted
  <2>3. \A k \in Indices : k \in {FreshList[i] : i \in DOMAIN FreshList} <=> Leads(FreshList, k)
    BY DEF Leads
  <2> QED
    BY <2>1, <2>2, <2>3 DEF Exact
<1> QED
  BY <1>2, <1>4, <1>6, <1>7

\* The list of regions with a new one in front.
LEMMA Prepended ==
    ASSUME NEW u \in Units, s_pRegions \in Seq(Units), s_pRegions' = <<u>> \o s_pRegions,
           ~Listed(u), \A i, j \in DOMAIN s_pRegions : s_pRegions[i] = s_pRegions[j] => i = j
    PROVE  /\ s_pRegions' \in Seq(Units)
           /\ \A v \in Units : Listed(v)' <=> Listed(v) \/ v = u
           /\ \A i, j \in DOMAIN s_pRegions' : s_pRegions'[i] = s_pRegions'[j] => i = j
<1>1. PICK n \in Nat : DOMAIN s_pRegions = 1 .. n /\ Len(s_pRegions) = n
  OBVIOUS
<1>2. s_pRegions' \in Seq(Units) /\ DOMAIN s_pRegions' = 1 .. n + 1
  BY <1>1
<1>3. s_pRegions'[1] = u /\ \A i \in 1 .. n : s_pRegions'[i + 1] = s_pRegions[i]
  BY <1>1
<1>4. \A i \in 1 .. n + 1 : i = 1 \/ (i - 1 \in 1 .. n /\ s_pRegions'[i] = s_pRegions[i - 1])
  BY <1>1, <1>3
<1>5. \A i \in 1 .. n : s_pRegions[i] # u
  BY <1>1 DEF Listed
<1>6. \A v \in Units : Listed(v)' <=> Listed(v) \/ v = u
  <2>1. ASSUME NEW v \in Units, Listed(v) \/ v = u PROVE Listed(v)'
    <3>1. CASE v = u
      BY <3>1, <1>2, <1>3 DEF Listed
    <3>2. CASE Listed(v)
      <4>1. PICK i \in 1 .. n : s_pRegions[i] = v
        BY <3>2, <1>1 DEF Listed
      <4>2. i + 1 \in DOMAIN s_pRegions' /\ s_pRegions'[i + 1] = v
        BY <4>1, <1>2, <1>3
      <4> QED
        BY <4>2 DEF Listed
    <3> QED
      BY <2>1, <3>1, <3>2
  <2>2. ASSUME NEW v \in Units, Listed(v)' PROVE Listed(v) \/ v = u
    BY <2>2, <1>1, <1>2, <1>3, <1>4 DEF Listed
  <2> QED
    BY <2>1, <2>2
<1>7. \A i, j \in 1 .. n + 1 : s_pRegions'[i] = s_pRegions'[j] => i = j
  <2>1. \A i, j \in 1 .. n : s_pRegions[i] = s_pRegions[j] => i = j
    BY <1>1
  <2> SUFFICES ASSUME NEW i \in 1 .. n + 1, NEW j \in 1 .. n + 1,
                      s_pRegions'[i] = s_pRegions'[j]
               PROVE  i = j
    OBVIOUS
  <2>2. CASE i = 1 \/ j = 1
    BY <2>2, <1>3, <1>4, <1>5
  <2>3. CASE i # 1 /\ j # 1
    <3>1. s_pRegions[i - 1] = s_pRegions[j - 1] /\ i - 1 \in 1 .. n /\ j - 1 \in 1 .. n
      BY <2>3, <1>4
    <3> QED
      BY <2>1, <3>1
  <2> QED
    BY <2>2, <2>3
<1> QED
  BY <1>1, <1>2, <1>6, <1>7

-----------------------------------------------------------------------------
(* Releasing regions: Kept counts through what remains.                    *)

LEMMA KeptEnumerates ==
    ASSUME s_pRegions \in Seq(Units), NEW unused
    PROVE  /\ Cardinality(Remaining(unused)) \in Nat
           /\ \A n \in 1 .. Cardinality(Remaining(unused)) :
                  Kept(unused, n) \in Remaining(unused)
           /\ \A i \in Remaining(unused) :
                  \E n \in 1 .. Cardinality(Remaining(unused)) : Kept(unused, n) = i
           /\ \A m, n \in 1 .. Cardinality(Remaining(unused)) :
                  Kept(unused, m) = Kept(unused, n) => m = n
<1> DEFINE K == Remaining(unused)
           Upto(i) == {j \in K : j <= i}
           c == Cardinality(K)
           rank == [i \in K |-> Cardinality(Upto(i))]
<1>1. IsFiniteSet(K) /\ K \subseteq Nat /\ c \in Nat
  <2>1. DOMAIN s_pRegions = 1 .. Len(s_pRegions) /\ Len(s_pRegions) \in Nat
    OBVIOUS
  <2>2. K \in SUBSET (1 .. Len(s_pRegions))
    BY <2>1 DEF Remaining
  <2>3. IsFiniteSet(1 .. Len(s_pRegions))
    BY <2>1, FS_Interval
  <2>4. IsFiniteSet(K)
    BY <2>2, <2>3, FS_Subset
  <2> QED
    BY <2>1, <2>2, <2>4, FS_CardinalityType
<1> HIDE DEF K
<1>2. ASSUME NEW i \in K
      PROVE  IsFiniteSet(Upto(i)) /\ Cardinality(Upto(i)) \in 1 .. c
  <2>1. Upto(i) \in SUBSET K /\ i \in Upto(i)
    BY <1>1
  <2>2. IsFiniteSet(Upto(i)) /\ Cardinality(Upto(i)) <= c
    BY <2>1, <1>1, FS_Subset
  <2>3. Cardinality(Upto(i)) \in Nat /\ Cardinality(Upto(i)) # 0
    BY <2>1, <2>2, FS_CardinalityType, FS_EmptySet
  <2> HIDE DEF Upto, c
  <2> QED
    BY <2>2, <2>3, <1>1
<1>3. ASSUME NEW i \in K, NEW j \in K, Cardinality(Upto(i)) = Cardinality(Upto(j))
      PROVE  i = j
  <2>1. ASSUME NEW a \in K, NEW b \in K, a <= b, Cardinality(Upto(a)) = Cardinality(Upto(b))
        PROVE  a = b
    <3>1. Upto(a) \in SUBSET Upto(b)
      <4>1. \A x \in K : x <= a => x <= b
        BY <2>1, <1>1
      <4> QED
        BY <4>1
    <3>2. Upto(a) = Upto(b)
      BY <3>1, <2>1, <1>2, FS_Subset
    <3>3. b \in Upto(b)
      BY <1>1
    <3> QED
      BY <3>2, <3>3, <2>1, <1>1
  <2>2. i <= j \/ j <= i
    BY <1>1
  <2> HIDE DEF Upto
  <2> QED
    BY <2>1, <2>2, <1>3
<1>4. rank \in Injection(K, 1 .. c)
  <2>1. rank \in [K -> 1 .. c]
    BY <1>2
  <2>2. \A i, j \in K : rank[i] = rank[j] => i = j
    BY <1>3
  <2> HIDE DEF rank
  <2> QED
    BY <2>1, <2>2 DEF Injection, IsInjective
<1>5. rank \in Surjection(K, 1 .. c)
  <2>1. IsFiniteSet(1 .. c) /\ Cardinality(1 .. c) = c
    BY <1>1, FS_Interval
  <2> HIDE DEF rank
  <2> QED
    BY <2>1, <1>4, FS_Injection DEF c
<1>6. ASSUME NEW n \in 1 .. c
      PROVE  Kept(unused, n) \in K /\ rank[Kept(unused, n)] = n
  <2>1. PICK i \in K : rank[i] = n
    BY <1>5 DEF Surjection
  <2>2. \E j \in K : Cardinality({k \in K : k <= j}) = n
    BY <2>1
  <2>3. Kept(unused, n) = CHOOSE j \in K : Cardinality({k \in K : k <= j}) = n
    BY DEF Kept, K
  <2> QED
    BY <2>2, <2>3
<1>7. \A i \in K : rank[i] \in 1 .. c
  BY <1>2
<1>8. \A i, j \in K : rank[i] = rank[j] => i = j
  BY <1>3
<1> HIDE DEF rank
<1>9. \A i \in K : Kept(unused, rank[i]) = i
  BY <1>6, <1>7, <1>8
<1> QED
  BY <1>1, <1>6, <1>7, <1>9 DEF K, c

LEMMA UnlinkedIs ==
    ASSUME s_pRegions \in Seq(Units), NEW unused,
           \A i, j \in DOMAIN s_pRegions : s_pRegions[i] = s_pRegions[j] => i = j,
           s_pRegions' = Unlinked(unused)
    PROVE  /\ s_pRegions' \in Seq(Units)
           /\ \A v \in Units : Listed(v)' <=> Listed(v) /\ v \notin unused
           /\ \A i, j \in DOMAIN s_pRegions' : s_pRegions'[i] = s_pRegions'[j] => i = j
<1> DEFINE K == Remaining(unused)
           c == Cardinality(K)
<1>1. c \in Nat /\ \A n \in 1 .. c : Kept(unused, n) \in K
  BY KeptEnumerates
<1>2. \A i \in K : \E n \in 1 .. c : Kept(unused, n) = i
  BY KeptEnumerates
<1>3. \A m, n \in 1 .. c : Kept(unused, m) = Kept(unused, n) => m = n
  BY KeptEnumerates
<1>4. K \subseteq DOMAIN s_pRegions /\ \A i \in K : s_pRegions[i] \in Units \ unused
  BY DEF Remaining
<1>5. DOMAIN s_pRegions' = 1 .. c
      /\ \A n \in 1 .. c : s_pRegions'[n] = s_pRegions[Kept(unused, n)]
  BY DEF Unlinked
<1>6. \A i \in DOMAIN s_pRegions : s_pRegions[i] \notin unused => i \in K
  BY DEF Remaining
<1>7. s_pRegions' = [n \in 1 .. c |-> s_pRegions[Kept(unused, n)]]
  BY DEF Unlinked
<1> HIDE DEF K, c
<1>8. s_pRegions' \in Seq(Units)
  <2>1. s_pRegions' \in [1 .. c -> Units]
    BY <1>1, <1>4, <1>7
  <2> QED
    BY <2>1, <1>1
<1>9. ASSUME NEW v \in Units PROVE Listed(v)' <=> Listed(v) /\ v \notin unused
  <2>1. ASSUME Listed(v)' PROVE Listed(v) /\ v \notin unused
    <3>1. PICK n \in 1 .. c : s_pRegions'[n] = v
      BY <2>1, <1>5 DEF Listed
    <3> QED
      BY <3>1, <1>1, <1>4, <1>5 DEF Listed
  <2>2. ASSUME Listed(v), v \notin unused PROVE Listed(v)'
    <3>1. PICK i \in K : s_pRegions[i] = v
      BY <2>2, <1>6 DEF Listed
    <3>2. PICK n \in 1 .. c : Kept(unused, n) = i
      BY <1>2
    <3>3. n \in DOMAIN s_pRegions' /\ s_pRegions'[n] = v
      BY <3>1, <3>2, <1>5
    <3> QED
      BY <3>3 DEF Listed
  <2> QED
    BY <2>1, <2>2
<1>10. \A i, j \in 1 .. c : s_pRegions'[i] = s_pRegions'[j] => i = j
  BY <1>1, <1>3, <1>4, <1>5
<1> QED
  BY <1>5, <1>8, <1>9, <1>10

-----------------------------------------------------------------------------
(* The invariant.                                                          *)

LEMMA InitRegions == Init => RegionInv
<1> SUFFICES ASSUME Init PROVE RegionInv
    OBVIOUS
<1>1. TypeOK
  <2>1. memory \in [Units -> {"free", "fragment", "other", "region"}]
    BY DEF Init
  <2> QED
    BY <2>1 DEF Init, TypeOK
<1>2. FreeListsExact
  <2>1. \A u \in Units, k \in Indices : block[<<u, k>>] = "fresh"
    BY DEF Init, Slots
  <2>2. \A u \in Units : pFree[u] = <<>>
    BY DEF Init
  <2> QED
    BY <2>1, <2>2 DEF FreeListsExact
<1>3. \A s \in Slots : ~InUse(s)
  BY ContentsAssumption DEF Init, InUse
<1>4. RegionsAreMapped
  <2>1. \A u \in Units : memory[u] # "region" /\ ~Listed(u)
    BY DEF Init, Unallocated, Listed
  <2> QED
    BY <2>1, <1>3 DEF Init, RegionsAreMapped
<1> QED
  BY <1>1, <1>2, <1>3, <1>4 DEF RegionInv, WithinReach

\* A search finds only free units.
LEMMA NewIsFree ==
    ASSUME NEW t \in Targets, NEW u \in NewRegion(t)
    PROVE  u \in Units /\ memory[u] = "free"
<1>1. \A lo, hi : \A v \in FromLo(lo, hi) : v \in Units /\ memory[v] = "free"
  BY DEF FromLo, TriedUp
<1>2. \A lo, hi : \A v \in FromHi(lo, hi) : v \in Units /\ memory[v] = "free"
  BY DEF FromHi, TriedDown
<1> DEFINE at == RoundDown(AddressOf[t]) * UnitSize
           off == Offset * UnitSize
           near == <<FromHi(pLo(t), at), FromLo(at, pHi(t))>>
           far == <<IF at > off THEN FromHi(pLo(t), at - off) ELSE {},
                    FromLo(at + off, pHi(t)),
                    IF at > off THEN FromLo(at - off, at) ELSE {},
                    FromHi(at, at + off)>>
           searches == IF Offset = 0 THEN near ELSE far \o near
<1>3. u \in FirstOf(searches)
  BY DEF NewRegion
<1>4. PICK i \in DOMAIN searches : u \in searches[i]
  BY <1>3 DEF FirstOf
<1> HIDE DEF at, off
<1>5. CASE Offset = 0
  BY <1>1, <1>2, <1>4, <1>5
<1>6. CASE Offset # 0
  BY <1>1, <1>2, <1>4, <1>6
<1> QED
  BY <1>5, <1>6

\* What an allocation leaves: the regions and a slot taken, or none.
Allocates(t) ==
    \/ \E s \in Slots, old \in [Slots -> Contents] :
           /\ Takes(t, s, old)
           /\ Listed(s[1])'
           /\ \A r \in Slots : (old[r] \in Targets \/ InUse(r)) => old[r] = block[r]
    \/ \A r \in Slots : (block'[r] \in Targets \/ InUse(r)) => block'[r] = block[r]

LEMMA FoundKept ==
    ASSUME RegionInv, NEW t \in Targets, NEW u \in Units, pFree[u] # <<>>, Listed(u),
           Found(t, u, pFree[u], block), UNCHANGED <<memory, s_pRegions>>
    PROVE  TypeOK' /\ FreeListsExact' /\ RegionsAreMapped' /\ Allocates(t)
<1>1. \A v \in Units : Exact(pFree[v], block, v)
  BY ListsExact DEF RegionInv
<1>2. pFree \in [Units -> Seq(Indices)] /\ block \in [Slots -> Contents]
  BY DEF RegionInv, TypeOK, Contents
<1>3. /\ pFree' \in [Units -> Seq(Indices)] /\ block' \in [Slots -> Contents]
      /\ returned' \in Slots \cup {Null} /\ s_pRegion' = u /\ FreeListsExact'
      /\ Takes(t, <<u, Head(pFree[u])>>, block) \/ block' = block
  <2>1. pFree[u] \in Seq(Indices)
    BY <1>2
  <2> QED
    BY <1>1, <1>2, <2>1, FoundStep
<1>4. TypeOK'
  BY <1>3 DEF RegionInv, TypeOK, Contents
<1>5. <<u, Head(pFree[u])>> \in Slots
  BY <1>2, Lists DEF Slots
<1>6. Listed(u)' /\ \A v : Listed(v)' <=> Listed(v)
  BY DEF Listed
<1>7. Allocates(t)
  BY <1>2, <1>3, <1>5, <1>6 DEF Allocates
<1>8. \A s \in Slots : InUse(s)' => Listed(s[1])'
  <2>1. CASE block' = block
    BY <2>1, <1>6 DEF RegionInv, RegionsAreMapped, InUse
  <2>2. CASE Takes(t, <<u, Head(pFree[u])>>, block)
    <3> SUFFICES ASSUME NEW s \in Slots, InUse(s)' PROVE Listed(s[1])'
      OBVIOUS
    <3>1. CASE s = <<u, Head(pFree[u])>>
      BY <3>1, <1>6
    <3>2. CASE s # <<u, Head(pFree[u])>>
      BY <2>2, <3>2, <1>2, <1>5, <1>6 DEF Takes, RegionInv, RegionsAreMapped, InUse
    <3> QED
      BY <3>1, <3>2
  <2> QED
    BY <1>3, <2>1, <2>2
<1>9. RegionsAreMapped'
  BY <1>3, <1>6, <1>8 DEF RegionInv, RegionsAreMapped
<1> QED
  BY <1>3, <1>4, <1>7, <1>9

LEMMA AllocNewStep ==
    ASSUME RegionInv, NEW t \in Targets, AllocNew(t)
    PROVE  TypeOK' /\ FreeListsExact' /\ RegionsAreMapped' /\ Allocates(t)
<1>1. PICK u \in NewRegion(t) :
          /\ memory' = [memory EXCEPT ![u] = "region"]
          /\ s_pRegions' = <<u>> \o s_pRegions
          /\ Found(t, u, FreshList, Formatted(u))
  BY DEF AllocNew
<1>2. u \in Units /\ memory[u] = "free"
  BY NewIsFree
<1>3. ~Listed(u) /\ \A s \in Slots : InUse(s) => s[1] # u
  BY <1>2 DEF RegionInv, RegionsAreMapped
<1> DEFINE old == Formatted(u)
<1>4. /\ FreshList \in Seq(Indices) /\ FreshList # <<>>
      /\ old \in [Slots -> Contents] /\ Exact(FreshList, old, u)
      /\ \A v \in Units : v # u => Exact(pFree[v], old, v)
  BY <1>2, FreshExact
<1>5. \A s \in Slots : IF s[1] = u THEN old[s] \in {"fresh", "free"} ELSE old[s] = block[s]
  BY DEF Formatted
<1>6. pFree \in [Units -> Seq(Indices)] /\ s_pRegions \in Seq(Units)
      /\ memory \in [Units -> {"free", "fragment", "other", "region"}]
  BY DEF RegionInv, TypeOK
<1> HIDE DEF old
<1> DEFINE s0 == <<u, Head(FreshList)>>
<1>7. /\ pFree' \in [Units -> Seq(Indices)] /\ block' \in [Slots -> Contents]
      /\ returned' \in Slots \cup {Null} /\ s_pRegion' = u /\ FreeListsExact'
      /\ Takes(t, s0, old) \/ block' = old
  <2>1. Found(t, u, FreshList, old)
    BY <1>1 DEF old
  <2> QED
    BY <1>2, <1>4, <1>6, <2>1, FoundStep
<1>8. /\ s_pRegions' \in Seq(Units)
      /\ \A v \in Units : Listed(v)' <=> Listed(v) \/ v = u
      /\ \A i, j \in DOMAIN s_pRegions' : s_pRegions'[i] = s_pRegions'[j] => i = j
  BY <1>1, <1>2, <1>3, <1>6, Prepended DEF RegionInv, RegionsAreMapped
<1>9. TypeOK'
  BY <1>1, <1>2, <1>6, <1>7, <1>8 DEF TypeOK, Contents
<1>10. s0 \in Slots /\ s0[1] = u
  BY <1>2, <1>4, Lists DEF Slots
<1>11. \A s \in Slots : old[s] \in Targets \/ InUse(s) => old[s] = block[s] /\ s[1] # u
  BY <1>3, <1>5, ContentsAssumption
<1> HIDE DEF s0
<1>12. Allocates(t)
  <2>1. CASE Takes(t, s0, old)
    BY <2>1, <1>2, <1>4, <1>8, <1>10, <1>11 DEF Allocates
  <2>2. CASE block' = old
    BY <2>2, <1>11 DEF Allocates
  <2> QED
    BY <1>7, <2>1, <2>2
<1>13. \A s \in Slots : InUse(s)' => Listed(s[1])'
  <2> SUFFICES ASSUME NEW s \in Slots, InUse(s)' PROVE Listed(s[1])'
    OBVIOUS
  <2>1. s[1] \in Units
    BY SlotIs
  <2>2. CASE s[1] = u
    BY <2>2, <1>2, <1>8
  <2>3. CASE s[1] # u
    <3>1. block'[s] = old[s]
      BY <1>4, <1>7, <1>10, <2>3 DEF Takes
    <3>2. InUse(s)
      BY <3>1, <2>3, <1>5 DEF InUse
    <3> QED
      BY <3>2, <2>1, <1>8 DEF RegionInv, RegionsAreMapped
  <2> QED
    BY <2>2, <2>3
<1>14. \A v \in Units : memory'[v] = "region" <=> Listed(v)'
  BY <1>1, <1>2, <1>6, <1>8 DEF RegionInv, RegionsAreMapped
<1>15. RegionsAreMapped'
  BY <1>2, <1>7, <1>8, <1>13, <1>14 DEF RegionsAreMapped
<1> QED
  BY <1>7, <1>9, <1>12, <1>15

LEMMA AllocStep ==
    ASSUME RegionInv, NEW t \in Targets, Alloc(t)
    PROVE  TypeOK' /\ FreeListsExact' /\ RegionsAreMapped' /\ Allocates(t)
<1>1. CASE AllocDefault(t)
  <2>1. Default \in Units /\ Listed(Default)
    BY <1>1, DefaultListed DEF AllocDefault
  <2> QED
    BY <1>1, <2>1, FoundKept DEF AllocDefault, HeadFits
<1>2. CASE AllocExisting(t)
  <2>1. PICK i \in DOMAIN s_pRegions :
            /\ HeadFits(t, s_pRegions[i])
            /\ Found(t, s_pRegions[i], pFree[s_pRegions[i]], block)
    BY <1>2 DEF AllocExisting
  <2>2. s_pRegions[i] \in Units /\ Listed(s_pRegions[i])
    BY DEF RegionInv, TypeOK, Listed
  <2> QED
    BY <1>2, <2>1, <2>2, FoundKept DEF AllocExisting, HeadFits
<1>3. CASE AllocNew(t)
  BY <1>3, AllocNewStep
<1>4. CASE AllocFails(t)
  <2>1. \A v : Listed(v)' <=> Listed(v)
    BY <1>4 DEF AllocFails, Listed
  <2> QED
    BY <1>4, <2>1 DEF AllocFails, RegionInv, TypeOK, FreeListsExact, RegionsAreMapped,
                      InUse, Allocates
<1> QED
  BY <1>1, <1>2, <1>3, <1>4 DEF Alloc

LEMMA AllocReach ==
    ASSUME RegionInv, NEW t \in Targets, Allocates(t), block' \in [Slots -> Contents]
    PROVE  WithinReach'
<1> SUFFICES ASSUME NEW s \in Slots, InUse(s)' PROVE Fits(block'[s], s)
    BY DEF WithinReach, Fits, pLo, pHi
<1>1. block'[s] \in Targets
  BY DEF InUse
<1>2. CASE block'[s] = block[s]
  BY <1>1, <1>2 DEF RegionInv, WithinReach, InUse
<1>3. CASE block'[s] # block[s]
  <2>1. PICK r \in Slots, old \in [Slots -> Contents] :
            /\ Takes(t, r, old)
            /\ \A q \in Slots : (old[q] \in Targets \/ InUse(q)) => old[q] = block[q]
    BY <1>1, <1>3 DEF Allocates
  <2>2. r = s
    BY <1>1, <1>3, <2>1 DEF Takes
  <2> QED
    BY <2>1, <2>2 DEF Takes
<1> QED
  BY <1>2, <1>3

\* A slot that is given back is on no list yet.
LEMMA FreeStep ==
    ASSUME RegionInv, NEW s \in Slots, FreeTrampoline(s) PROVE RegionInv'
<1>1. s[1] \in Units /\ s[2] \in Indices /\ s = <<s[1], s[2]>>
  BY SlotIs
<1>2. pFree \in [Units -> Seq(Indices)] /\ block \in [Slots -> Contents]
  BY DEF RegionInv, TypeOK, Contents
<1>3. block[s] \in Targets /\ block' = [block EXCEPT ![s] = "free"]
      /\ pFree' = [pFree EXCEPT ![s[1]] = Linked(s)]
  BY DEF FreeTrampoline, InUse
<1> DEFINE old == pFree[s[1]]
           new == Linked(s)
<1>4. PICK n \in Nat : n = Len(old) /\ DOMAIN old = 1 .. n
  BY <1>1, <1>2
<1>5. old \in Seq(Indices) /\ new = <<s[2]>> \o old
  BY <1>1, <1>2 DEF Linked
<1> HIDE DEF old, new
<1>6. /\ new \in Seq(Indices) /\ DOMAIN new = 1 .. n + 1 /\ new[1] = s[2]
      /\ \A i \in 1 .. n : new[i + 1] = old[i]
      /\ \A i \in 1 .. n + 1 : i = 1 \/ (i - 1 \in 1 .. n /\ new[i] = old[i - 1])
  <2>1. <<s[2]>> \in Seq(Indices) /\ Len(<<s[2]>>) = 1
    BY <1>1
  <2>2. new \in Seq(Indices) /\ Len(new) = n + 1
    BY <1>4, <1>5, <2>1
  <2>3. new[1] = s[2] /\ \A i \in 1 .. n : new[i + 1] = old[i]
    BY <1>4, <1>5, <2>1
  <2> QED
    BY <2>2, <2>3
<1>7. Exact(old, block, s[1])
  BY <1>1, ListsExact DEF RegionInv, old
<1>8. TypeOK'
  BY <1>1, <1>2, <1>3, <1>6 DEF FreeTrampoline, RegionInv, TypeOK, new
<1>9. \A u \in Units : Exact(pFree'[u], block', u)
  <2> SUFFICES ASSUME NEW u \in Units PROVE Exact(pFree'[u], block', u)
    OBVIOUS
  <2>1. \A k \in Indices : <<u, k>> \in Slots
    BY DEF Slots
  <2>2. CASE u # s[1]
    <3>1. \A k \in Indices : block'[<<u, k>>] = block[<<u, k>>]
      BY <1>1, <1>2, <1>3, <2>1, <2>2
    <3>2. pFree'[u] = pFree[u] /\ Exact(pFree[u], block, u)
      BY <1>1, <1>2, <1>3, <2>2, ListsExact DEF RegionInv
    <3> QED
      BY <3>1, <3>2 DEF Exact
  <2>3. CASE u = s[1]
    <3>1. pFree'[u] = new
      BY <1>1, <1>2, <1>3, <2>3 DEF new
    <3>2. \A k \in Indices :
              block'[<<u, k>>] = IF k = s[2] THEN "free" ELSE block[<<u, k>>]
      BY <1>1, <1>2, <1>3, <2>1, <2>3
    <3>3. ~Leads(old, s[2])
      <4>1. block[<<s[1], s[2]>>] # "free"
        BY <1>1, <1>3, ContentsAssumption
      <4> QED
        BY <1>1, <1>7, <4>1 DEF Exact
    <3>4. Distinct(new)
      <4>1. \A i \in 1 .. n : old[i] # s[2]
        BY <1>4, <3>3 DEF Leads
      <4>2. \A i, j \in 1 .. n : old[i] = old[j] => i = j
        BY <1>4, <1>7 DEF Exact, Distinct
      <4> SUFFICES ASSUME NEW i \in 1 .. n + 1, NEW j \in 1 .. n + 1, new[i] = new[j]
                   PROVE  i = j
        BY <1>6 DEF Distinct
      <4>3. CASE i = 1 \/ j = 1
        BY <4>1, <4>3, <1>6
      <4>4. CASE i # 1 /\ j # 1
        <5>1. old[i - 1] = old[j - 1] /\ i - 1 \in 1 .. n /\ j - 1 \in 1 .. n
          BY <4>4, <1>6
        <5> QED
          BY <4>2, <5>1
      <4> QED
        BY <4>3, <4>4
    <3>5. ASSUME NEW k \in Indices PROVE Leads(new, k) <=> k = s[2] \/ Leads(old, k)
      <4>1. ASSUME Leads(old, k) PROVE Leads(new, k)
        <5>1. PICK i \in 1 .. n : old[i] = k
          BY <4>1, <1>4 DEF Leads
        <5>2. i + 1 \in DOMAIN new /\ new[i + 1] = k
          BY <5>1, <1>6
        <5> QED
          BY <5>2 DEF Leads
      <4>2. ASSUME Leads(new, k) PROVE k = s[2] \/ Leads(old, k)
        <5>1. PICK i \in 1 .. n + 1 : new[i] = k
          BY <4>2, <1>6 DEF Leads
        <5>2. i = 1 \/ (i - 1 \in DOMAIN old /\ old[i - 1] = k)
          BY <5>1, <1>4, <1>6
        <5> QED
          BY <5>1, <5>2, <1>6 DEF Leads
      <4>3. Leads(new, s[2])
        BY <1>6 DEF Leads
      <4> QED
        BY <4>1, <4>2, <4>3
    <3>6. \A k \in Indices : block'[<<u, k>>] = "free" <=> Leads(new, k)
      BY <1>7, <2>3, <3>2, <3>5 DEF Exact
    <3> QED
      BY <3>1, <3>4, <3>6 DEF Exact
  <2> QED
    BY <2>2, <2>3
<1>10. FreeListsExact'
  BY <1>9 DEF FreeListsExact, Exact, Distinct, Leads
<1>11. \A r \in Slots : InUse(r)' => InUse(r) /\ block'[r] = block[r]
  <2>1. \A r \in Slots : block'[r] = IF r = s THEN "free" ELSE block[r]
    BY <1>2, <1>3
  <2> QED
    BY <2>1, ContentsAssumption DEF InUse
<1>12. RegionsAreMapped'
  <2>1. \A v : Listed(v)' <=> Listed(v)
    BY DEF FreeTrampoline, Listed
  <2> QED
    BY <1>11, <2>1 DEF FreeTrampoline, RegionInv, RegionsAreMapped
<1>13. WithinReach'
  BY <1>11 DEF RegionInv, WithinReach, Fits, pLo, pHi
<1> QED
  BY <1>8, <1>10, <1>12, <1>13 DEF RegionInv

Unused == {u \in Units : Listed(u) /\ IsRegionEmpty(u)}

\* No slot of an empty region is in use.
LEMMA UnusedIsEmpty ==
    ASSUME NEW s \in Slots, InUse(s) PROVE s[1] \notin Unused
BY SlotIs, ContentsAssumption DEF Unused, IsRegionEmpty, InUse

LEMMA ReleaseKeeps ==
    ASSUME RegionInv, FreeUnusedRegions, NEW s \in Slots, InUse(s)
    PROVE  block'[s] = block[s] /\ memory'[s[1]] = "region"
<1>1. s[1] \in Units /\ s[1] \notin Unused
  BY UnusedIsEmpty, SlotIs
<1>2. memory[s[1]] = "region"
  BY <1>1 DEF RegionInv, RegionsAreMapped
<1> QED
  BY <1>1, <1>2 DEF FreeUnusedRegions, Unused

LEMMA ReleaseStep ==
    ASSUME RegionInv, FreeUnusedRegions PROVE RegionInv'
<1> DEFINE unused == Unused
<1>1. /\ s_pRegions' = Unlinked(unused)
      /\ memory' = [u \in Units |-> IF u \in unused THEN "free" ELSE memory[u]]
      /\ s_pRegion' = DefaultAfter(unused)
      /\ pFree' = [u \in Units |-> IF u \in unused THEN <<>> ELSE pFree[u]]
      /\ block' = [s \in Slots |-> IF s[1] \in unused THEN "fresh" ELSE block[s]]
      /\ returned' = returned
  BY DEF FreeUnusedRegions, Unused
<1>2. \A u \in unused : u \in Units /\ Listed(u)
  BY DEF Unused
<1> HIDE DEF unused
<1>3. /\ s_pRegions' \in Seq(Units)
      /\ \A v \in Units : Listed(v)' <=> Listed(v) /\ v \notin unused
      /\ \A i, j \in DOMAIN s_pRegions' : s_pRegions'[i] = s_pRegions'[j] => i = j
  BY <1>1, UnlinkedIs DEF RegionInv, TypeOK, RegionsAreMapped
<1>4. TypeOK'
  <2>1. /\ s_pRegion' \in Units \cup {Null}
        /\ memory' \in [Units -> {"free", "fragment", "other", "region"}]
        /\ pFree' \in [Units -> Seq(Indices)]
        /\ block' \in [Slots -> Targets \cup {"fresh", "free"}]
    BY <1>1 DEF RegionInv, TypeOK, DefaultAfter
  <2> QED
    BY <1>1, <1>3, <2>1 DEF RegionInv, TypeOK
<1>5. FreeListsExact'
  <2>1. ASSUME NEW u \in Units PROVE Exact(pFree'[u], block', u)
    <3>1. \A k \in Indices : <<u, k>> \in Slots /\ <<u, k>>[1] = u
      BY DEF Slots
    <3>2. CASE u \in unused
      BY <1>1, <3>1, <3>2 DEF Exact, Distinct, Leads
    <3>3. CASE u \notin unused
      <4>1. pFree'[u] = pFree[u] /\ \A k \in Indices : block'[<<u, k>>] = block[<<u, k>>]
        BY <1>1, <3>1, <3>3
      <4>2. Exact(pFree[u], block, u)
        BY ListsExact DEF RegionInv
      <4> QED
        BY <4>1, <4>2 DEF Exact
    <3> QED
      BY <3>2, <3>3
  <2> QED
    BY <2>1 DEF FreeListsExact, Exact, Distinct, Leads
<1>6. \A s \in Slots : InUse(s)' => InUse(s) /\ s[1] \notin unused /\ block'[s] = block[s]
  BY <1>1, ContentsAssumption DEF InUse
<1>7. RegionsAreMapped'
  <2>1. \A v \in Units : memory'[v] = "region" <=> Listed(v)'
    BY <1>1, <1>3 DEF RegionInv, RegionsAreMapped
  <2>2. s_pRegion' # Null => Listed(s_pRegion)'
    BY <1>1, <1>3 DEF RegionInv, RegionsAreMapped, TypeOK, DefaultAfter
  <2>3. \A s \in Slots : InUse(s)' => Listed(s[1])'
    BY <1>3, <1>6, SlotIs DEF RegionInv, RegionsAreMapped
  <2> QED
    BY <1>3, <2>1, <2>2, <2>3 DEF RegionsAreMapped
<1>8. WithinReach'
  BY <1>6 DEF RegionInv, WithinReach, Fits, pLo, pHi
<1> QED
  BY <1>4, <1>5, <1>7, <1>8 DEF RegionInv

LEMMA ElsewhereStep ==
    ASSUME RegionInv, NEW u \in Units, NEW m \in Unallocated(u), MapElsewhere(u, m)
    PROVE  RegionInv'
<1>1. m \in {"free", "fragment", "other"}
  BY DEF Unallocated
<1>2. memory' = [memory EXCEPT ![u] = m] /\ memory[u] # "region"
      /\ UNCHANGED <<s_pRegions, s_pRegion, pFree, block, returned>>
  BY DEF MapElsewhere
<1>3. TypeOK'
  BY <1>1, <1>2 DEF RegionInv, TypeOK
<1>4. \A v : Listed(v)' <=> Listed(v)
  BY <1>2 DEF Listed
<1>5. RegionsAreMapped'
  BY <1>1, <1>2, <1>4 DEF RegionInv, TypeOK, RegionsAreMapped, InUse
<1>6. FreeListsExact' /\ WithinReach'
  BY <1>2 DEF RegionInv, FreeListsExact, WithinReach, InUse, Fits, pLo, pHi
<1> QED
  BY <1>3, <1>5, <1>6 DEF RegionInv

LEMMA RegionStep ==
    ASSUME RegionInv, [Next]_vars PROVE RegionInv'
<1>1. CASE \E t \in Targets : Alloc(t)
  <2>1. PICK t \in Targets : Alloc(t)
    BY <1>1
  <2>2. TypeOK' /\ FreeListsExact' /\ RegionsAreMapped' /\ Allocates(t)
    BY <2>1, AllocStep
  <2>3. block' \in [Slots -> Contents]
    BY <2>2 DEF TypeOK, Contents
  <2> QED
    BY <2>2, <2>3, AllocReach DEF RegionInv
<1>2. CASE \E s \in Slots : FreeTrampoline(s)
  BY <1>2, FreeStep
<1>3. CASE FreeUnusedRegions
  BY <1>3, ReleaseStep
<1>4. CASE \E u \in Units : \E m \in Unallocated(u) : MapElsewhere(u, m)
  BY <1>4, ElsewhereStep
<1>5. CASE UNCHANGED vars
  BY <1>5 DEF vars, RegionInv, TypeOK, FreeListsExact, RegionsAreMapped, WithinReach,
              Listed, InUse, Fits, pLo, pHi
<1> QED
  BY <1>1, <1>2, <1>3, <1>4, <1>5 DEF Next

-----------------------------------------------------------------------------
(* The theorems.                                                           *)

\* The invariants hold of the allocator, whatever memory it meets.
LEMMA RegionInvariant == Spec => []RegionInv
BY InitRegions, RegionStep, PTL DEF Spec

\* detour_alloc_trampoline and detour_free_trampoline keep every free list
\* exact: each free slot on its region's list once, and no other slot on it.
THEOREM FreeListsStayExact == Spec => []FreeListsExact
<1>1. RegionInv => FreeListsExact
  BY DEF RegionInv
<1> QED
  BY <1>1, RegionInvariant, PTL

\* The list of regions, the default region and the memory agree: what
\* detour_free_unused_trampoline_regions releases is gone from all of them.
THEOREM RegionsStayMapped == Spec => []RegionsAreMapped
<1>1. RegionInv => RegionsAreMapped
  BY DEF RegionInv
<1> QED
  BY <1>1, RegionInvariant, PTL

\* Every slot in use can be reached by the jumps that lead to it and from it,
\* whatever the searches have found.
THEOREM SlotsStayWithinReach == Spec => []WithinReach
<1>1. RegionInv => WithinReach
  BY DEF RegionInv
<1> QED
  BY <1>1, RegionInvariant, PTL

\* detour_free_unused_trampoline_regions takes no slot from its holder.
THEOREM ReleaseKeepsHeldSlots == Spec => HeldSlotsSurvive
<1>1. RegionInv => [FreeUnusedRegions =>
          \A s \in Slots : InUse(s) => block'[s] = block[s] /\ memory'[s[1]] = "region"]_vars
  BY ReleaseKeeps
<1> QED
  BY <1>1, RegionInvariant, PTL DEF HeldSlotsSurvive

-----------------------------------------------------------------------------
(* The refinement of SlotPool.                                             *)

held == [s \in Slots |-> IF InUse(s) THEN block[s] ELSE Null]

LEMMA InitPool == Init => Pool!Init
BY ContentsAssumption DEF Init, Pool!Init, InUse

\* An allocation takes one slot that nobody holds, or changes no holder.
LEMMA TakesSlot ==
    ASSUME RegionInv, NEW t \in Targets, Allocates(t), block' \in [Slots -> Contents]
    PROVE  [Pool!Next]_held
<1>1. CASE \A r \in Slots : (block'[r] \in Targets \/ InUse(r)) => block'[r] = block[r]
  <2>1. \A r \in Slots : (IF InUse(r)' THEN block'[r] ELSE Null)
                           = (IF InUse(r) THEN block[r] ELSE Null)
    BY <1>1 DEF InUse
  <2> QED
    BY <2>1 DEF held
<1>2. CASE \E s \in Slots, old \in [Slots -> Contents] :
           /\ Takes(t, s, old)
           /\ \A r \in Slots : (old[r] \in Targets \/ InUse(r)) => old[r] = block[r]
  <2>1. PICK s \in Slots, old \in [Slots -> Contents] :
           /\ Takes(t, s, old)
           /\ \A r \in Slots : (old[r] \in Targets \/ InUse(r)) => old[r] = block[r]
    BY <1>2
  <2>2. ~InUse(s)
    BY <2>1, ContentsAssumption DEF Takes, InUse
  <2>3. \A r \in Slots : block'[r] = IF r = s THEN t ELSE old[r]
    BY <2>1 DEF Takes
  <2>4. \A r \in Slots : (IF InUse(r)' THEN block'[r] ELSE Null)
            = IF r = s THEN t ELSE IF InUse(r) THEN block[r] ELSE Null
    BY <2>1, <2>3 DEF InUse
  <2>5. held' = [held EXCEPT ![s] = t]
    BY <2>4 DEF held
  <2>6. held[s] = Null /\ Fits(t, s)
    BY <2>1, <2>2 DEF held, Takes
  <2>7. Pool!Take(t, s)
    BY <2>5, <2>6 DEF Pool!Take, held
  <2> QED
    BY <2>7 DEF Pool!Next
<1> QED
  BY <1>1, <1>2 DEF Allocates

LEMMA PoolStep ==
    ASSUME RegionInv, [Next]_vars PROVE [Pool!Next]_held
<1>1. CASE \E t \in Targets : Alloc(t)
  <2>1. PICK t \in Targets : Alloc(t)
    BY <1>1
  <2>2. TypeOK' /\ Allocates(t)
    BY <2>1, AllocStep
  <2>3. block' \in [Slots -> Contents]
    BY <2>2 DEF TypeOK, Contents
  <2> QED
    BY <2>2, <2>3, TakesSlot
<1>2. CASE \E s \in Slots : FreeTrampoline(s)
  <2>1. PICK s \in Slots : FreeTrampoline(s)
    BY <1>2
  <2>2. block \in [Slots -> Contents] /\ block' = [block EXCEPT ![s] = "free"]
        /\ block[s] \in Targets
    BY <2>1 DEF FreeTrampoline, InUse, RegionInv, TypeOK, Contents
  <2>3. held' = [held EXCEPT ![s] = Null]
    <3>1. \A r \in Slots : (IF InUse(r)' THEN block'[r] ELSE Null)
              = IF r = s THEN Null ELSE IF InUse(r) THEN block[r] ELSE Null
      BY <2>2, ContentsAssumption DEF InUse
    <3> QED
      BY <3>1 DEF held
  <2>4. held[s] # Null
    BY <2>2, NullAssumption DEF held, InUse
  <2>5. Pool!GiveBack(s)
    BY <2>3, <2>4 DEF Pool!GiveBack, held
  <2> QED
    BY <2>5 DEF Pool!Next
<1>3. CASE FreeUnusedRegions
  <2>1. \A s \in Slots : InUse(s) => block'[s] = block[s]
    BY <1>3, ReleaseKeeps
  <2>2. \A s \in Slots : ~InUse(s) => ~InUse(s)'
    BY <1>3, ContentsAssumption DEF FreeUnusedRegions, InUse
  <2>3. \A s \in Slots : (IF InUse(s)' THEN block'[s] ELSE Null)
                           = (IF InUse(s) THEN block[s] ELSE Null)
    BY <2>1, <2>2 DEF InUse
  <2> QED
    BY <2>3 DEF held
<1>4. CASE \E u \in Units : \E m \in Unallocated(u) : MapElsewhere(u, m)
  BY <1>4 DEF MapElsewhere, held, InUse
<1>5. CASE UNCHANGED vars
  BY <1>5 DEF vars, held, InUse
<1> QED
  BY <1>1, <1>2, <1>3, <1>4, <1>5 DEF Next

\* The allocator is what DetourAttachEx takes it for: whoever gets a slot gets
\* one that nobody holds and that is within reach, and keeps it until it is
\* given back.
THEOREM AllocatorHandsOutFreeSlots == Spec => HandsOutFreeSlots
BY InitPool, PoolStep, RegionInvariant, PTL DEF Spec, HandsOutFreeSlots, Pool!Spec, held
================================================================================
