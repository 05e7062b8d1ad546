---------------------------- MODULE ImageFileProofs ----------------------------
(***************************************************************************)
(* An executable file that is edited, for any linked file, any lists of    *)
(* imports and any payloads, and however often it is written: its original *)
(* is not lost, and nothing of it is damaged.                              *)
(***************************************************************************)
EXTENDS ImageFile, Inductions, FiniteSetTheorems

-----------------------------------------------------------------------------
(* Sequences and places in a file.                                         *)

\* The parts of two sequences joined, and an element taken out or put in.
Joins(u, s, t, S) ==
    /\ u \in Seq(S) /\ Len(u) = Len(s) + Len(t) /\ DOMAIN u = 1 .. Len(s) + Len(t)
    /\ \A j \in 1 .. Len(s) : u[j] = s[j]
    /\ \A j \in 1 .. Len(t) : u[Len(s) + j] = t[j]
Removes(u, s, k, S) ==
    /\ u \in Seq(S) /\ Len(u) = Len(s) - 1 /\ DOMAIN u = 1 .. Len(s) - 1
    /\ \A j \in 1 .. Len(s) - 1 : u[j] = IF j < k THEN s[j] ELSE s[j + 1]
Inserts(u, s, k, e, S) ==
    /\ u \in Seq(S) /\ Len(u) = Len(s) + 1 /\ DOMAIN u = 1 .. Len(s) + 1
    /\ \A j \in 1 .. Len(s) + 1 :
           u[j] = IF j < k THEN s[j] ELSE IF j = k THEN e ELSE s[j - 1]

\* Two sequences joined.
LEMMA Joined ==
    ASSUME NEW S, NEW s \in Seq(S), NEW t \in Seq(S)
    PROVE  Joins(s \o t, s, t, S)
BY DEF Joins

\* An element taken out: Delete closes the gap of a record, the editing that of
\* a byway.
LEMMA Removed ==
    ASSUME NEW S, NEW s \in Seq(S), NEW k \in 1 .. Len(s)
    PROVE  Removes(RemoveAt(s, k), s, k, S)
<1> DEFINE front == SubSeq(s, 1, k - 1)
           back == SubSeq(s, k + 1, Len(s))
           u == RemoveAt(s, k)
<1>1. /\ front \in Seq(S) /\ Len(front) = k - 1 /\ \A j \in 1 .. k - 1 : front[j] = s[j]
      /\ back \in Seq(S) /\ Len(back) = Len(s) - k
      /\ \A j \in 1 .. Len(s) - k : back[j] = s[k + j]
  OBVIOUS
<1>2. u = front \o back
  BY DEF RemoveAt
<1>0. k \in Nat /\ Len(s) \in Nat /\ k <= Len(s) /\ 1 <= k
  OBVIOUS
<1> HIDE DEF front, back, u
<1>3. Joins(u, front, back, S)
  BY <1>1, <1>2, Joined
<1>4. ASSUME NEW j \in 1 .. Len(s) - 1
      PROVE  u[j] = IF j < k THEN s[j] ELSE s[j + 1]
  <2>1. CASE j < k
    BY <1>0, <1>1, <1>3, <2>1 DEF Joins
  <2>2. CASE ~(j < k)
    <3>1. PICK i \in Nat : j = k - 1 + i
      BY <1>0, <2>2
    <3>2. i \in 1 .. Len(s) - k /\ k + i = j + 1
      BY <1>0, <2>2, <3>1
    <3> QED
      BY <1>1, <1>3, <2>2, <3>1, <3>2 DEF Joins
  <2> QED
    BY <2>1, <2>2
<1>5. /\ u \in Seq(S) /\ Len(u) = (k - 1) + (Len(s) - k)
      /\ DOMAIN u = 1 .. (k - 1) + (Len(s) - k)
  BY <1>1, <1>3 DEF Joins
<1>6. (k - 1) + (Len(s) - k) = Len(s) - 1
  BY <1>0
<1> QED
  BY <1>4, <1>5, <1>6 DEF u, Removes

\* An element put in: a byway before the file that is visited.
LEMMA Inserted ==
    ASSUME NEW S, NEW s \in Seq(S), NEW e \in S, NEW k \in 1 .. Len(s) + 1
    PROVE  Inserts(InsertAt(s, k, e), s, k, e, S)
<1> DEFINE front == SubSeq(s, 1, k - 1)
           back == SubSeq(s, k, Len(s))
           one == <<e>>
           head == front \o one
           u == InsertAt(s, k, e)
<1>1. /\ front \in Seq(S) /\ Len(front) = k - 1 /\ \A j \in 1 .. k - 1 : front[j] = s[j]
      /\ back \in Seq(S) /\ Len(back) = Len(s) + 1 - k
      /\ \A j \in 1 .. Len(s) + 1 - k : back[j] = s[k - 1 + j]
  OBVIOUS
<1>2. u = head \o back
  BY DEF InsertAt
<1>3. one \in Seq(S) /\ Len(one) = 1 /\ one[1] = e
  OBVIOUS
<1>4. head = front \o one
  OBVIOUS
<1>0. k \in Nat /\ Len(s) \in Nat /\ k <= Len(s) + 1 /\ 1 <= k
  OBVIOUS
<1> HIDE DEF front, back, one, head, u
<1>5. Joins(head, front, one, S)
  BY <1>1, <1>3, <1>4, Joined
<1>6. /\ head \in Seq(S) /\ Len(head) = k /\ head[k] = e
      /\ \A j \in 1 .. k - 1 : head[j] = s[j]
  <2>1. (k - 1) + 1 = k
    BY <1>0
  <2>2. 1 \in 1 .. Len(one)
    BY <1>3
  <2>3. head[Len(front) + 1] = one[1]
    BY <1>5, <2>2 DEF Joins
  <2> QED
    BY <1>0, <1>1, <1>3, <1>5, <2>1, <2>3 DEF Joins
<1>7. Joins(u, head, back, S)
  BY <1>1, <1>2, <1>6, Joined
<1>8. ASSUME NEW j \in 1 .. Len(s) + 1
      PROVE  u[j] = IF j < k THEN s[j] ELSE IF j = k THEN e ELSE s[j - 1]
  <2>1. CASE j <= k
    BY <1>0, <1>6, <1>7, <2>1 DEF Joins
  <2>2. CASE ~(j <= k)
    <3>1. PICK i \in Nat : j = k + i
      BY <1>0, <2>2
    <3>2. i \in 1 .. Len(s) + 1 - k /\ k - 1 + i = j - 1
      BY <1>0, <2>2, <3>1
    <3> QED
      <4>1. u[Len(head) + i] = back[i] /\ back[i] = s[k - 1 + i]
        BY <1>1, <1>7, <3>2 DEF Joins
      <4> QED
        BY <1>0, <1>6, <2>2, <3>1, <3>2, <4>1
  <2> QED
    BY <2>1, <2>2
<1>9. /\ u \in Seq(S) /\ Len(u) = k + (Len(s) + 1 - k)
      /\ DOMAIN u = 1 .. k + (Len(s) + 1 - k)
  BY <1>1, <1>6, <1>7 DEF Joins
<1>10. k + (Len(s) + 1 - k) = Len(s) + 1
  BY <1>0
<1> QED
  BY <1>8, <1>9, <1>10 DEF u, Inserts

-----------------------------------------------------------------------------
(* The payloads.                                                           *)

\* The data of an open binary, and the size that a payload of each GUID should
\* have, -1 if there is none.
Payloads == [recs : Seq(Records), alloc : Nat, mapped : BOOLEAN]
Wanted == [Guids -> Int]

\* The records are the payloads that are wanted, each of them once.
Listed(recs, want) ==
    /\ recs \in Seq(Records) /\ want \in Wanted
    /\ \A n \in DOMAIN recs : /\ recs[n].cbBytes >= SizeofRecord
                              /\ want[recs[n].guid] = recs[n].cbBytes - SizeofRecord
    /\ \A m, n \in DOMAIN recs : recs[m].guid = recs[n].guid => m = n
    /\ \A g \in Guids : want[g] # -1 => \E n \in DOMAIN recs : recs[n].guid = g

\* Find returns the record of a GUID, if it has one.
LEMMA FindListed ==
    ASSUME NEW d, NEW want, Listed(d.recs, want), NEW g \in Guids
    PROVE  IF want[g] = -1 THEN Find(d, g) = 0
           ELSE Find(d, g) \in DOMAIN d.recs /\ d.recs[Find(d, g)].guid = g
<1> DEFINE found == {n \in DOMAIN d.recs : d.recs[n].guid = g}
<1>0. DOMAIN d.recs = 1 .. Len(d.recs) /\ Len(d.recs) \in Nat
  BY DEF Listed
<1>1. CASE want[g] = -1
  <2>1. \A n \in DOMAIN d.recs : d.recs[n] \in Records
    BY <1>0 DEF Listed
  <2>2. \A n \in DOMAIN d.recs : d.recs[n].cbBytes \in Nat
    BY <2>1 DEF Records
  <2>3. \A n \in DOMAIN d.recs : want[d.recs[n].guid] # -1
    <3>1. \A n \in DOMAIN d.recs : /\ d.recs[n].cbBytes >= SizeofRecord
                                   /\ want[d.recs[n].guid] = d.recs[n].cbBytes - SizeofRecord
      BY DEF Listed
    <3> QED
      BY <2>2, <3>1 DEF SizeofRecord
  <2>4. found = {}
    BY <1>1, <2>3
  <2> QED
    BY <1>1, <2>4 DEF Find
<1>2. CASE want[g] # -1
  <2>1. found # {} /\ found \in SUBSET Nat
    BY <1>0, <1>2 DEF Listed
  <2>2. Find(d, g) = CHOOSE n \in found : \A k \in found : n <= k
    BY <2>1 DEF Find
  <2>3. \E n \in found : \A k \in found : n <= k
    <3> HIDE DEF found
    <3> QED
      BY <2>1, LeastMember
  <2>4. Find(d, g) \in found
    BY <2>2, <2>3
  <2> QED
    BY <1>2, <2>4
<1> QED
  BY <1>1, <1>2

\* The iterator meets every record, and every record once.
LEMMA EnumeratedIs ==
    ASSUME NEW d, d.recs \in Seq(Records), \A n \in DOMAIN d.recs : d.recs[n].cbBytes >= SizeofRecord
    PROVE  Enumerated(d) = [n \in 1 .. Len(d.recs) |-> d.recs[n].guid]
<1> DEFINE k == Len(d.recs)
           size == [n \in DOMAIN d.recs |-> d.recs[n].cbBytes]
           next == [it \in {Offset(d.recs, n) : n \in 0 .. Len(d.recs)} |->
                      IF CbData(d) < it + SizeofRecord THEN 0
                      ELSE CHOOSE n \in DOMAIN d.recs : Offset(d.recs, n - 1) = it]
<1>0. Enumerated(d) = [n \in 1 .. Len(d.recs) |-> d.recs[next[Offset(d.recs, n - 1)]].guid]
  BY DEF Enumerated
<1> DEFINE at(n) == Offset(d.recs, n)
<1>1. k \in Nat /\ DOMAIN d.recs = 1 .. k
  OBVIOUS
<1>2. \A n \in 1 .. k : size[n] \in Nat /\ size[n] >= SizeofRecord
  <2>1. \A n \in 1 .. k : d.recs[n] \in Records
    BY <1>1
  <2>2. \A n \in 1 .. k : d.recs[n].cbBytes \in Nat
    BY <2>1 DEF Records
  <2> QED
    BY <1>1, <2>2
<1>3. IsSize(size, k)
  BY <1>2 DEF IsSize
<1>4. \A n : at(n) = SumTo(size, n)
  BY DEF Offset
<1>5. CbData(d) = at(k)
  BY DEF CbData
<1>6. \A n \in 0 .. k : next[at(n)] = IF at(k) < at(n) + SizeofRecord THEN 0
                                     ELSE CHOOSE m \in DOMAIN d.recs : at(m - 1) = at(n)
  BY <1>5
<1> HIDE DEF size, k, at, next
<1>7. /\ \A n \in 0 .. k : at(n) \in Nat
      /\ \A n \in 1 .. k : at(n) = at(n - 1) + size[n]
  BY <1>1, <1>3, <1>4, SumSteps
<1>8. \A m \in 0 .. k : \A n \in 0 .. m : at(n) <= at(m)
  BY <1>1, <1>3, <1>4, SumGrows
<1>9. ASSUME NEW n \in 1 .. k PROVE next[at(n - 1)] = n
  <2>1. n - 1 \in 0 .. k /\ n \in 0 .. k /\ k \in 0 .. k
    BY <1>1
  <2>2. ~(at(k) < at(n - 1) + SizeofRecord)
    <3>1. at(n) <= at(k) /\ at(n) = at(n - 1) + size[n]
      BY <1>7, <1>8, <2>1
    <3> QED
      BY <1>2, <1>7, <2>1, <3>1 DEF SizeofRecord
  <2>3. next[at(n - 1)] = CHOOSE m \in DOMAIN d.recs : at(m - 1) = at(n - 1)
    BY <1>6, <2>1, <2>2
  <2>4. ASSUME NEW m \in DOMAIN d.recs, at(m - 1) = at(n - 1) PROVE m = n
    <3>1. m \in 1 .. k /\ m - 1 \in 0 .. k /\ m \in 0 .. k
      BY <1>1
    <3>2. /\ at(m) = at(m - 1) + size[m] /\ at(n) = at(n - 1) + size[n]
          /\ size[m] > 0 /\ size[n] > 0 /\ size[m] \in Nat /\ size[n] \in Nat
      BY <1>2, <1>7, <3>1 DEF SizeofRecord
    <3>3. /\ at(m) \in Nat /\ at(m - 1) \in Nat /\ at(n) \in Nat /\ at(n - 1) \in Nat
      BY <1>7, <2>1, <3>1
    <3>4. CASE m < n
      <4>1. m \in 0 .. n - 1
        BY <3>1, <3>4
      <4>2. at(m) <= at(n - 1)
        BY <1>8, <2>1, <4>1
      <4> QED
        BY <2>4, <3>2, <3>3, <4>2
    <3>5. CASE n < m
      <4>1. n \in 0 .. m - 1
        BY <3>1, <3>5
      <4>2. at(n) <= at(m - 1)
        BY <1>8, <3>1, <4>1
      <4> QED
        BY <2>4, <3>2, <3>3, <4>2
    <3> QED
      BY <1>1, <3>1, <3>4, <3>5
  <2>5. n \in DOMAIN d.recs
    BY <1>1
  <2> QED
    BY <2>3, <2>4, <2>5
<1> QED
  BY <1>0, <1>9 DEF k, at

\* Each payload is found, with its size, and none is met twice.
LEMMA ListedFinds ==
    ASSUME NEW d, NEW want, Listed(d.recs, want)
    PROVE  Finds(d, want)
<1>0. DOMAIN d.recs = 1 .. Len(d.recs) /\ Len(d.recs) \in Nat
  BY DEF Listed
<1>1. \A n \in DOMAIN d.recs : d.recs[n] \in Records
  BY <1>0 DEF Listed
<1>2. \A n \in DOMAIN d.recs : d.recs[n].cbBytes \in Nat
  BY <1>1 DEF Records
<1>3. ASSUME NEW g \in Guids
      PROVE  IF want[g] = -1 THEN Find(d, g) = 0
             ELSE Find(d, g) # 0 /\ FoundSize(d, g) = want[g]
  <2>1. CASE want[g] = -1
    BY <2>1, FindListed
  <2>2. CASE want[g] # -1
    <3>1. PICK n \in DOMAIN d.recs : n = Find(d, g) /\ d.recs[n].guid = g
      BY <2>2, FindListed
    <3>2. n # 0
      BY <1>0
    <3>3. FoundSize(d, g) = d.recs[n].cbBytes - SizeofRecord
      BY <3>1, <3>2 DEF FoundSize
    <3>4. want[g] = d.recs[n].cbBytes - SizeofRecord
      BY <3>1 DEF Listed
    <3> QED
      BY <2>2, <3>1, <3>2, <3>3, <3>4
  <2> QED
    BY <2>1, <2>2
<1>4. IsInjective(Enumerated(d))
  <2>1. Enumerated(d) = [n \in 1 .. Len(d.recs) |-> d.recs[n].guid]
    BY EnumeratedIs DEF Listed
  <2>2. \A m, n \in 1 .. Len(d.recs) : d.recs[m].guid = d.recs[n].guid => m = n
    BY <1>0 DEF Listed
  <2> QED
    BY <2>1, <2>2 DEF IsInjective
<1> QED
  BY <1>3, <1>4 DEF Finds

\* Delete.
LEMMA DeleteListed ==
    ASSUME NEW d \in Payloads, NEW want, Listed(d.recs, want), NEW g \in Guids
    PROVE  /\ Delete(d, g) \in Payloads
           /\ Listed(Delete(d, g).recs, [want EXCEPT ![g] = -1])
           /\ \A n \in DOMAIN Delete(d, g).recs : Delete(d, g).recs[n].guid # g
<1> DEFINE wanted == [want EXCEPT ![g] = -1]
           k == Find(d, g)
<1>0. DOMAIN d.recs = 1 .. Len(d.recs) /\ Len(d.recs) \in Nat /\ d.recs \in Seq(Records)
  BY DEF Listed
<1>1. \A n \in DOMAIN d.recs : d.recs[n] \in Records
  BY <1>0
<1>2. \A n \in DOMAIN d.recs : /\ d.recs[n].cbBytes \in Nat /\ d.recs[n].guid \in Guids
                               /\ d.recs[n].cbBytes >= SizeofRecord
                               /\ want[d.recs[n].guid] = d.recs[n].cbBytes - SizeofRecord
                               /\ want[d.recs[n].guid] # -1
  <2>1. \A n \in DOMAIN d.recs : d.recs[n].cbBytes \in Nat /\ d.recs[n].guid \in Guids
    BY <1>1 DEF Records
  <2>2. \A n \in DOMAIN d.recs : /\ d.recs[n].cbBytes >= SizeofRecord
                                 /\ want[d.recs[n].guid] = d.recs[n].cbBytes - SizeofRecord
    BY DEF Listed
  <2> QED
    BY <2>1, <2>2 DEF SizeofRecord
<1>3. wanted \in Wanted /\ wanted[g] = -1 /\ \A h \in Guids : h # g => wanted[h] = want[h]
  BY DEF Wanted, Listed
<1>4. CASE want[g] = -1
  <2>1. Delete(d, g) = d
    <3>1. Find(d, g) = 0
      BY <1>4, FindListed
    <3> QED
      BY <3>1 DEF Delete
  <2>2. wanted = want
    BY <1>3, <1>4 DEF Wanted, Listed
  <2>3. \A n \in DOMAIN d.recs : d.recs[n].guid # g
    BY <1>2, <1>4
  <2> QED
    BY <2>1, <2>2, <2>3
<1>5. CASE want[g] # -1
  <2>1. k \in DOMAIN d.recs /\ d.recs[k].guid = g
    BY <1>5, FindListed
  <2> DEFINE rest == RemoveAt(d.recs, k)
  <2>2. Delete(d, g) = [d EXCEPT !.recs = rest]
    BY <1>0, <2>1 DEF Delete
  <2> HIDE DEF k
  <2>3. Removes(rest, d.recs, k, Records)
    BY <1>0, <2>1, Removed
  <2> HIDE DEF rest
  <2>4. Delete(d, g).recs = rest /\ Delete(d, g) \in Payloads
    BY <2>2, <2>3 DEF Payloads, Removes
  <2> DEFINE m == Len(d.recs)
             from(j) == IF j < k THEN j ELSE j + 1
  <2>5. /\ DOMAIN rest = 1 .. m - 1
        /\ \A j \in 1 .. m - 1 : /\ from(j) \in DOMAIN d.recs /\ from(j) # k
                                 /\ rest[j] = d.recs[from(j)]
        /\ \A i, j \in 1 .. m - 1 : from(i) = from(j) => i = j
        /\ \A n \in DOMAIN d.recs : n # k => \E j \in 1 .. m - 1 : n = from(j)
    <3>1. k \in 1 .. m /\ m \in Nat
      BY <1>0, <2>1
    <3>2. DOMAIN rest = 1 .. m - 1 /\ \A j \in 1 .. m - 1 : rest[j] = d.recs[from(j)]
      BY <2>3 DEF Removes
    <3>3. ASSUME NEW n \in DOMAIN d.recs, n # k PROVE \E j \in 1 .. m - 1 : n = from(j)
      <4>1. CASE n < k
        <5>1. n \in 1 .. m - 1 /\ n = from(n)
          BY <1>0, <3>1, <4>1
        <5> QED
          BY <5>1
      <4>2. CASE ~(n < k)
        <5>1. n - 1 \in 1 .. m - 1 /\ n = from(n - 1)
          BY <1>0, <3>1, <3>3, <4>2
        <5> QED
          BY <5>1
      <4> QED
        BY <4>1, <4>2
    <3> HIDE DEF m
    <3> QED
      BY <1>0, <3>1, <3>2, <3>3 DEF m
  <2> HIDE DEF from, m
  <2>6. \A i \in DOMAIN d.recs : \A j \in DOMAIN d.recs : d.recs[i].guid = d.recs[j].guid => i = j
    BY DEF Listed
  <2>7. \A j \in 1 .. m - 1 : rest[j].guid # g
    BY <2>1, <2>5, <2>6
  <2>8. \A j \in 1 .. m - 1 : /\ rest[j].cbBytes >= SizeofRecord
                              /\ wanted[rest[j].guid] = rest[j].cbBytes - SizeofRecord
    BY <1>2, <1>3, <2>5, <2>7
  <2>9. \A i \in 1 .. m - 1 : \A j \in 1 .. m - 1 : rest[i].guid = rest[j].guid => i = j
    BY <2>5, <2>6
  <2>10. ASSUME NEW h \in Guids, wanted[h] # -1
         PROVE  \E j \in 1 .. m - 1 : rest[j].guid = h
    <3>1. h # g /\ want[h] # -1
      BY <1>3, <2>10
    <3>2. PICK n \in DOMAIN d.recs : d.recs[n].guid = h
      BY <3>1 DEF Listed
    <3>3. n # k
      BY <2>1, <3>1, <3>2
    <3> QED
      BY <2>5, <3>2, <3>3
  <2>11. rest \in Seq(Records)
    BY <2>3 DEF Removes
  <2>12. Listed(rest, wanted)
    BY <1>3, <2>5, <2>8, <2>9, <2>10, <2>11 DEF Listed
  <2> QED
    BY <2>4, <2>5, <2>7, <2>12
<1> QED
  BY <1>4, <1>5

\* What is rounded up has not become less, and is rounded.
LEMMA AlignedUp ==
    ASSUME NEW n \in Nat
    PROVE  /\ QuadAlign(n) \in Nat /\ n <= QuadAlign(n)
           /\ FileAlign(n) \in Nat /\ n <= FileAlign(n) /\ FileAlign(FileAlign(n)) = FileAlign(n)
           /\ SectionAlign(n) \in Nat /\ n <= SectionAlign(n)
           /\ SectionAlign(SectionAlign(n)) = SectionAlign(n)
BY DEF QuadAlign, FileAlign, SectionAlign, Align

\* Set, which finds nothing left of what it has deleted.
LEMMA SetListed ==
    ASSUME NEW d \in Payloads, NEW want, Listed(d.recs, want),
           NEW g \in Guids, NEW cb \in Nat
    PROVE  /\ Set(d, g, cb) \in Payloads
           /\ Listed(Set(d, g, cb).recs, [want EXCEPT ![g] = QuadAlign(cb)])
<1> DEFINE rest == Delete(d, g)
           wanted == [want EXCEPT ![g] = -1]
           e == [guid |-> g, cbBytes |-> RecordSize(cb)]
           recs == Append(rest.recs, e)
           want2 == [want EXCEPT ![g] = QuadAlign(cb)]
<1>1. /\ rest \in Payloads /\ Listed(rest.recs, wanted)
      /\ \A n \in DOMAIN rest.recs : rest.recs[n].guid # g
  BY DeleteListed
<1>2. QuadAlign(cb) \in Nat
  BY AlignedUp
<1>3. /\ want2 \in Wanted /\ want2[g] = QuadAlign(cb)
      /\ \A h \in Guids : h # g => want2[h] = wanted[h]
  BY <1>2 DEF Wanted, Listed
<1>4. e \in Records /\ e.guid = g /\ e.cbBytes = QuadAlign(cb) + SizeofRecord
      /\ e.cbBytes >= SizeofRecord /\ QuadAlign(cb) = e.cbBytes - SizeofRecord
  BY <1>2 DEF Records, RecordSize, SizeofRecord
<1>5. Set(d, g, cb).recs = recs /\ Set(d, g, cb) \in Payloads
  <2>1. rest.recs \in Seq(Records)
    BY <1>1 DEF Listed
  <2>2. recs \in Seq(Records)
    BY <1>4, <2>1
  <2>3. CbData(rest) + RecordSize(cb) \in Nat
    <3>1. \A n \in DOMAIN rest.recs : rest.recs[n] \in Records
      BY <2>1
    <3> DEFINE size == [n \in DOMAIN rest.recs |-> rest.recs[n].cbBytes]
               m == Len(rest.recs)
    <3>2. m \in Nat /\ DOMAIN rest.recs = 1 .. m
      BY <2>1
    <3>3. IsSize(size, m)
      BY <3>1, <3>2 DEF IsSize, Records
    <3>4. CbData(rest) = SumTo(size, m)
      BY DEF CbData, Offset
    <3> HIDE DEF size, m
    <3>5. CbData(rest) \in Nat
      BY <3>2, <3>3, <3>4, SumIs
    <3> QED
      BY <1>2, <3>5 DEF RecordSize, SizeofRecord
  <2> DEFINE room == SizeTo(rest, CbData(rest) + RecordSize(cb))
  <2>4. room \in Payloads /\ room.recs = rest.recs
    BY <1>1, <2>3 DEF SizeTo, Payloads
  <2>5. Set(d, g, cb) = [room EXCEPT !.recs = Append(@, e)]
    BY DEF Set
  <2> HIDE DEF room, e, rest
  <2> QED
    BY <2>2, <2>4, <2>5 DEF Payloads
<1> DEFINE old == rest.recs
           m == Len(old)
<1>6. /\ old \in Seq(Records) /\ m \in Nat /\ DOMAIN old = 1 .. m
      /\ recs \in Seq(Records) /\ DOMAIN recs = 1 .. m + 1 /\ recs[m + 1] = e
      /\ \A n \in 1 .. m : recs[n] = old[n]
  <2>1. old \in Seq(Records) /\ e \in Records
    BY <1>1, <1>4 DEF Listed
  <2>2. recs = Append(old, e)
    OBVIOUS
  <2> HIDE DEF old, e, recs
  <2> QED
    BY <2>1, <2>2 DEF m
<1>7. /\ \A n \in 1 .. m : /\ old[n].cbBytes >= SizeofRecord
                            /\ wanted[old[n].guid] = old[n].cbBytes - SizeofRecord
                            /\ old[n].guid \in Guids
      /\ \A i, j \in 1 .. m : old[i].guid = old[j].guid => i = j
      /\ \A h \in Guids : wanted[h] # -1 => \E n \in 1 .. m : old[n].guid = h
      /\ \A n \in 1 .. m : old[n].guid # g
  <2>1. \A n \in 1 .. m : old[n] \in Records
    BY <1>6
  <2>2. Listed(old, wanted)
    BY <1>1
  <2>3. \A n \in 1 .. m : old[n].guid \in Guids
    BY <2>1 DEF Records
  <2> HIDE DEF old, wanted
  <2> QED
    BY <1>1, <1>6, <2>2, <2>3 DEF Listed, old
<1> HIDE DEF old, recs, e, wanted, want2, rest, m
<1>8. Listed(recs, want2)
  <2>1. \A n \in 1 .. m + 1 : n = m + 1 \/ n \in 1 .. m
    BY <1>6
  <2>2. \A n \in 1 .. m + 1 : /\ recs[n].cbBytes >= SizeofRecord
                              /\ want2[recs[n].guid] = recs[n].cbBytes - SizeofRecord
    BY <1>3, <1>4, <1>6, <1>7, <2>1
  <2>3. \A i \in 1 .. m + 1 : \A j \in 1 .. m + 1 : recs[i].guid = recs[j].guid => i = j
    BY <1>4, <1>6, <1>7, <2>1
  <2>4. ASSUME NEW h \in Guids, want2[h] # -1
        PROVE  \E n \in 1 .. m + 1 : recs[n].guid = h
    <3>1. CASE h = g
      <4>1. m + 1 \in 1 .. m + 1
        BY <1>6
      <4> QED
        BY <1>4, <1>6, <3>1, <4>1
    <3>2. CASE h # g
      <4>1. PICK n \in 1 .. m : old[n].guid = h
        BY <1>3, <1>7, <2>4, <3>2
      <4>2. n \in 1 .. m + 1
        BY <1>6
      <4> QED
        BY <1>6, <4>1, <4>2
    <3> QED
      BY <3>1, <3>2
  <2> QED
    BY <1>3, <1>6, <2>2, <2>3, <2>4 DEF Listed
<1> QED
  BY <1>5, <1>8 DEF want2

-----------------------------------------------------------------------------
(* The sections.                                                           *)

\* What is not above a multiple is not above it when it is rounded up.
LEMMA AlignedDown ==
    ASSUME NEW m \in Nat, NEW n \in Nat, m <= n
    PROVE  /\ FileAlign(n) = n => FileAlign(m) <= n
           /\ SectionAlign(n) = n => SectionAlign(m) <= n
BY DEF FileAlign, SectionAlign, Align

\* Multiples of the file alignment add up to one.
LEMMA AlignedSum ==
    ASSUME NEW m \in Nat, NEW n \in Nat, FileAlign(m) = m, FileAlign(n) = n
    PROVE  FileAlign(m + n) = m + n
BY DEF FileAlign, Align

\* Where the first n sections end in the file.
RawEnds(end, secs) ==
    /\ end \in [0 .. Len(secs) -> Nat] /\ end[0] = 0
    /\ \A n \in 1 .. Len(secs) : end[n] = MaxOf(secs[n].raw + secs[n].size, end[n - 1])

\* The parts of a section, and that it ends behind what is in memory of it.
LEMMA SectionTyped ==
    ASSUME NEW secs \in Seq(Sections)
    PROVE  /\ Len(secs) \in Nat /\ DOMAIN secs = 1 .. Len(secs)
           /\ \A n \in 1 .. Len(secs) :
                 /\ secs[n] \in Sections
                 /\ secs[n].raw \in Nat /\ secs[n].size \in Nat
                 /\ secs[n].va \in Nat /\ secs[n].vsize \in Nat
                 /\ SectionEnd(secs[n]) \in Nat
                 /\ secs[n].va + secs[n].vsize <= SectionEnd(secs[n])
<1>1. \A n \in 1 .. Len(secs) : secs[n] \in Sections
  OBVIOUS
<1>2. \A n \in 1 .. Len(secs) : /\ secs[n].raw \in Nat /\ secs[n].size \in Nat
                                /\ secs[n].va \in Nat /\ secs[n].vsize \in Nat
  BY <1>1 DEF Sections
<1>3. \A n \in 1 .. Len(secs) : SectionAlign(secs[n].size) \in Nat
  BY <1>2, AlignedUp
<1> QED
  BY <1>1, <1>2, <1>3 DEF SectionEnd

\* ExtraOffset, the fold of CImage::Read over the sections, is where they all end.
LEMMA ExtraIs ==
    ASSUME NEW secs \in Seq(Sections)
    PROVE  \E end : RawEnds(end, secs) /\ ExtraOffset(secs) = end[Len(secs)]
<1> DEFINE k == Len(secs)
           Is(f) == f = [n \in 0 .. k |-> IF n = 0 THEN 0
                                          ELSE MaxOf(secs[n].raw + secs[n].size, f[n - 1])]
           h == [n \in 1 .. k |-> [x \in Nat |-> MaxOf(secs[n].raw + secs[n].size, x)]]
<1>1. \A n \in 1 .. k : secs[n].raw \in Nat /\ secs[n].size \in Nat
  BY SectionTyped
<1>2. \A n \in 1 .. k : \A x \in Nat : /\ h[n][x] = MaxOf(secs[n].raw + secs[n].size, x)
                                       /\ h[n][x] \in Nat
  BY <1>1 DEF MaxOf
<1>3. ExtraOffset(secs) = (CHOOSE f : Is(f))[k]
  BY DEF ExtraOffset
<1>4. Closed(h, k, Nat)
  BY <1>2 DEF Closed
<1>0. k \in Nat
  OBVIOUS
<1> HIDE DEF h, k
<1>5. PICK g : g \in Begun(k, Nat, 0, h)
  BY <1>0, <1>4, Recursion
<1>6. \A n \in 1 .. k : n - 1 \in 0 .. k
  BY <1>0
<1>7. Is(g)
  <2>1. /\ g \in [0 .. k -> Nat] /\ g[0] = 0
        /\ \A n \in 1 .. k : g[n] = MaxOf(secs[n].raw + secs[n].size, g[n - 1])
    BY <1>2, <1>5, <1>6 DEF Begun
  <2>2. \A n \in 0 .. k : n # 0 => n \in 1 .. k
    BY <1>0
  <2> QED
    BY <2>1, <2>2
<1> DEFINE f == CHOOSE f : Is(f)
<1>8. Is(f)
  BY <1>7
<1> HIDE DEF f
<1>9. /\ f = [n \in 0 .. k |-> f[n]] /\ f[0] = 0
      /\ \A n \in 1 .. k : f[n] = MaxOf(secs[n].raw + secs[n].size, f[n - 1])
  <2>1. f = [n \in 0 .. k |-> f[n]]
    BY <1>8
  <2>2. \A n \in 0 .. k : f[n] = IF n = 0 THEN 0
                                 ELSE MaxOf(secs[n].raw + secs[n].size, f[n - 1])
    BY <1>8
  <2>3. 0 \in 0 .. k /\ \A n \in 1 .. k : n \in 0 .. k /\ n # 0
    BY <1>0
  <2> HIDE DEF Is
  <2> QED
    BY <2>1, <2>2, <2>3
<1>10. Follows(k, Nat, 0, h, f)
  BY <1>2, <1>9 DEF Follows
<1>11. f \in Begun(k, Nat, 0, h)
  BY <1>0, <1>4, <1>10, Unfolded
<1>12. RawEnds(f, secs)
  BY <1>9, <1>11 DEF Begun, RawEnds, k
<1> QED
  BY <1>3, <1>12 DEF f, k

\* Where the sections end, each section lies before it.
LEMMA RawEndsGrow ==
    ASSUME NEW secs \in Seq(Sections), NEW end, RawEnds(end, secs)
    PROVE  \A m \in 0 .. Len(secs) : \A n \in 0 .. m : end[n] <= end[m]
<1> DEFINE k == Len(secs)
           S == {m \in 0 .. k : \A n \in 0 .. m : end[n] <= end[m]}
<1>1. k \in Nat /\ \A n \in 0 .. k : end[n] \in Nat
  BY DEF RawEnds
<1>2. \A n \in 1 .. k : n - 1 \in 0 .. k /\ end[n - 1] <= end[n]
  <2> SUFFICES ASSUME NEW n \in 1 .. k PROVE n - 1 \in 0 .. k /\ end[n - 1] <= end[n]
    OBVIOUS
  <2>1. secs[n].raw + secs[n].size \in Nat
    BY SectionTyped
  <2>2. n - 1 \in 0 .. k /\ n \in 0 .. k
    BY <1>1
  <2>3. end[n] = MaxOf(secs[n].raw + secs[n].size, end[n - 1])
    BY DEF RawEnds
  <2> QED
    BY <1>1, <2>1, <2>2, <2>3 DEF MaxOf
<1> HIDE DEF k
<1>3. 0 \in S
  BY <1>1
<1>4. ASSUME NEW m \in 0 .. k - 1, m \in S PROVE m + 1 \in S
  <2>1. m + 1 \in 1 .. k /\ (m + 1) - 1 = m /\ m \in 0 .. k /\ m + 1 \in 0 .. k
    BY <1>1
  <2>2. end[m] <= end[m + 1]
    BY <1>2, <2>1
  <2>3. ASSUME NEW n \in 0 .. m + 1 PROVE end[n] <= end[m + 1]
    <3>1. n = m + 1 \/ n \in 0 .. m
      BY <2>1
    <3>2. n \in 0 .. k
      BY <1>1, <2>1
    <3> QED
      BY <1>1, <1>4, <2>1, <2>2, <3>1, <3>2
  <2> QED
    BY <2>1, <2>3
<1>5. \A m \in 0 .. k : m \in S
  <2> HIDE DEF S
  <2> QED
    BY <1>1, <1>3, <1>4, IntervalInduction
<1> QED
  BY <1>5 DEF k

\* No section reaches behind the data that belongs to none.
LEMMA ExtraBounds ==
    ASSUME NEW secs \in Seq(Sections)
    PROVE  /\ ExtraOffset(secs) \in Nat
           /\ \A n \in 1 .. Len(secs) : secs[n].raw + secs[n].size <= ExtraOffset(secs)
<1>1. PICK end : RawEnds(end, secs) /\ ExtraOffset(secs) = end[Len(secs)]
  BY ExtraIs
<1> DEFINE k == Len(secs)
<1>2. k \in Nat /\ \A n \in 0 .. k : end[n] \in Nat
  BY <1>1 DEF RawEnds
<1>3. \A n \in 1 .. k : n \in 0 .. k /\ k \in 0 .. k
  BY <1>2
<1>4. \A n \in 1 .. k : end[n] <= end[k]
  BY <1>1, <1>3, RawEndsGrow
<1>5. \A n \in 1 .. k : secs[n].raw + secs[n].size <= end[n]
  <2> SUFFICES ASSUME NEW n \in 1 .. k PROVE secs[n].raw + secs[n].size <= end[n]
    OBVIOUS
  <2>1. secs[n].raw + secs[n].size \in Nat
    BY SectionTyped
  <2>2. n - 1 \in 0 .. k
    BY <1>2
  <2>3. end[n] = MaxOf(secs[n].raw + secs[n].size, end[n - 1])
    BY <1>1 DEF RawEnds
  <2> QED
    BY <1>2, <2>1, <2>2, <2>3 DEF MaxOf
<1>6. \A n \in 1 .. k : secs[n].raw + secs[n].size \in Nat
  BY SectionTyped
<1>7. ExtraOffset(secs) = end[k] /\ k \in 0 .. k
  BY <1>1, <1>2
<1> HIDE DEF k
<1>8. ASSUME NEW n \in 1 .. k PROVE secs[n].raw + secs[n].size <= end[k]
  BY <1>2, <1>3, <1>4, <1>5, <1>6
<1> QED
  BY <1>2, <1>7, <1>8 DEF k

\* A section more.
LEMMA ExtraOfMore ==
    ASSUME NEW secs \in Seq(Sections), NEW s \in Sections
    PROVE  ExtraOffset(Append(secs, s)) = MaxOf(s.raw + s.size, ExtraOffset(secs))
<1> DEFINE k == Len(secs)
           more == Append(secs, s)
<1>1. /\ k \in Nat /\ more \in Seq(Sections) /\ Len(more) = k + 1 /\ more[k + 1] = s
      /\ \A n \in 1 .. k : more[n] = secs[n]
  OBVIOUS
<1> HIDE DEF more
<1>2. PICK f : RawEnds(f, secs) /\ ExtraOffset(secs) = f[k]
  BY ExtraIs
<1>3. PICK g : RawEnds(g, more) /\ ExtraOffset(more) = g[Len(more)]
  BY <1>1, ExtraIs
<1> DEFINE S == {n \in 0 .. k : f[n] = g[n]}
<1>4. 0 \in S
  BY <1>1, <1>2, <1>3 DEF RawEnds
<1>5. ASSUME NEW n \in 0 .. k - 1, n \in S PROVE n + 1 \in S
  <2>1. n + 1 \in 1 .. k /\ (n + 1) - 1 = n /\ n + 1 \in 1 .. k + 1 /\ n + 1 \in 0 .. k
    BY <1>1
  <2>2. f[n + 1] = MaxOf(secs[n + 1].raw + secs[n + 1].size, f[n])
    BY <1>2, <2>1 DEF RawEnds
  <2>3. g[n + 1] = MaxOf(more[n + 1].raw + more[n + 1].size, g[n])
    BY <1>1, <1>3, <2>1 DEF RawEnds
  <2> QED
    BY <1>1, <1>5, <2>1, <2>2, <2>3
<1>6. f[k] = g[k]
  <2>1. k \in 0 .. k
    BY <1>1
  <2> HIDE DEF S, k
  <2>2. k \in S
    BY <1>1, <1>4, <1>5, <2>1, IntervalInduction
  <2> QED
    BY <2>2 DEF S
<1>7. g[k + 1] = MaxOf(s.raw + s.size, g[k])
  <2>1. k + 1 \in 1 .. k + 1 /\ (k + 1) - 1 = k
    BY <1>1
  <2> HIDE DEF k
  <2> QED
    BY <1>1, <1>3, <2>1 DEF RawEnds
<1> QED
  BY <1>1, <1>2, <1>3, <1>6, <1>7 DEF more

\* "Copy Sections", a section at a time.
Places == [file : Nat, virt : Nat, extra : Nat]
PlaceAfter(s, at) ==
    AlignFileData([file  |-> MaxOf(s.raw + s.size, at.file),
                   virt  |-> MaxOf(SectionEnd(s), at.virt),
                   extra |-> MaxOf(MaxOf(s.raw + s.size, at.file), at.extra)])
Copied(at, i) ==
    /\ at \in [0 .. Len(i.hdr.secs) -> Places]
    /\ at[0] = [file |-> FileAlign(SizeOfHeaders), virt |-> SectionAlign(0), extra |-> i.extra]
    /\ \A n \in 1 .. Len(i.hdr.secs) : at[n] = PlaceAfter(i.hdr.secs[n], at[n - 1])

\* AlignFileData aligns the file and the image, and not the rest.
LEMMA PlaceAligned ==
    ASSUME NEW x, NEW y, NEW z
    PROVE  AlignFileData([file |-> x, virt |-> y, extra |-> z])
             = [file |-> FileAlign(x), virt |-> SectionAlign(y), extra |-> z]
<1> DEFINE u == FileAlign(x)
           v == SectionAlign(y)
           at == [file |-> x, virt |-> y, extra |-> z]
<1>1. AlignFileData(at) = [at EXCEPT !.file = u, !.virt = v]
  BY DEF AlignFileData
<1> HIDE DEF u, v
<1>2. [at EXCEPT !.file = u] = [file |-> u, virt |-> y, extra |-> z]
  OBVIOUS
<1>3. [[file |-> u, virt |-> y, extra |-> z] EXCEPT !.virt = v] = [file |-> u, virt |-> v, extra |-> z]
  OBVIOUS
<1>4. [at EXCEPT !.file = u, !.virt = v] = [file |-> u, virt |-> v, extra |-> z]
  <2> DEFINE r == [at EXCEPT !.file = u, !.virt = v]
  <2>1. r.file = u /\ r.virt = v /\ r.extra = z /\ DOMAIN r = {"file", "virt", "extra"}
    OBVIOUS
  <2>2. r = [f \in DOMAIN r |-> r[f]]
    OBVIOUS
  <2> HIDE DEF r
  <2>3. r = [file |-> r.file, virt |-> r.virt, extra |-> r.extra]
    BY <2>1, <2>2
  <2> QED
    BY <2>1, <2>3 DEF r
<1> QED
  BY <1>1, <1>4 DEF u, v

\* A section further there is still a place.
LEMMA PlaceTyped ==
    ASSUME NEW s \in Sections, NEW at \in Places
    PROVE  PlaceAfter(s, at) \in Places
<1>1. s.raw \in Nat /\ s.size \in Nat /\ SectionEnd(s) \in Nat
  <2>1. s.raw \in Nat /\ s.size \in Nat /\ s.va \in Nat /\ s.vsize \in Nat
    BY DEF Sections
  <2> QED
    BY <2>1, AlignedUp DEF SectionEnd
<1>2. at.file \in Nat /\ at.virt \in Nat /\ at.extra \in Nat
  BY DEF Places
<1> DEFINE file1 == MaxOf(s.raw + s.size, at.file)
           virt1 == MaxOf(SectionEnd(s), at.virt)
           extra1 == MaxOf(file1, at.extra)
<1>3. file1 \in Nat /\ virt1 \in Nat /\ extra1 \in Nat
  BY <1>1, <1>2 DEF MaxOf
<1>4. PlaceAfter(s, at) = [file |-> FileAlign(file1), virt |-> SectionAlign(virt1),
                           extra |-> extra1]
  BY PlaceAligned DEF PlaceAfter
<1> HIDE DEF file1, virt1, extra1
<1>5. FileAlign(file1) \in Nat /\ SectionAlign(virt1) \in Nat
  BY <1>3, AlignedUp
<1> QED
  BY <1>3, <1>4, <1>5 DEF Places

\* CopySections, the loop of CImage::Write, is what it comes to section by section.
LEMMA CopiedIs ==
    ASSUME NEW i, i.hdr.secs \in Seq(Sections), i.extra \in Nat
    PROVE  \E at : Copied(at, i) /\ CopySections(i) = at[Len(i.hdr.secs)]
<1> DEFINE k == Len(i.hdr.secs)
           start == AlignFileData([file |-> SizeOfHeaders, virt |-> 0, extra |-> i.extra])
           Is(f) == f = [n \in 0 .. k |->
                            IF n = 0 THEN AlignFileData([file |-> SizeOfHeaders, virt |-> 0,
                                                         extra |-> i.extra])
                            ELSE PlaceAfter(i.hdr.secs[n], f[n - 1])]
           h == [n \in 1 .. k |-> [x \in Places |-> PlaceAfter(i.hdr.secs[n], x)]]
<1>1. \A n \in 1 .. k : i.hdr.secs[n] \in Sections
  OBVIOUS
<1>2. \A n \in 1 .. k : \A x \in Places : /\ h[n][x] = PlaceAfter(i.hdr.secs[n], x)
                                          /\ h[n][x] \in Places
  BY <1>1, PlaceTyped
<1>3. CopySections(i) = (CHOOSE f : Is(f))[k]
  BY DEF CopySections, PlaceAfter
<1>4. Closed(h, k, Places)
  BY <1>2 DEF Closed
<1>0. k \in Nat
  OBVIOUS
<1>5. start = [file |-> FileAlign(SizeOfHeaders), virt |-> SectionAlign(0), extra |-> i.extra]
  BY PlaceAligned
<1>6. start \in Places
  <2>1. FileAlign(SizeOfHeaders) \in Nat /\ SectionAlign(0) \in Nat
    <3>1. SizeOfHeaders \in Nat /\ 0 \in Nat
      BY DEF SizeOfHeaders
    <3> QED
      BY <3>1, AlignedUp
  <2> QED
    BY <1>5, <2>1 DEF Places
<1>7. \A f : Is(f) <=> f = [n \in 0 .. k |-> IF n = 0 THEN start
                                           ELSE PlaceAfter(i.hdr.secs[n], f[n - 1])]
  OBVIOUS
<1> HIDE DEF h, k, start, Is
<1>8. PICK g : g \in Begun(k, Places, start, h)
  BY <1>0, <1>4, <1>6, Recursion
<1>9. Is(g)
  <2>0. \A n \in 1 .. k : n - 1 \in 0 .. k
    BY <1>0
  <2>1. /\ g \in [0 .. k -> Places] /\ g[0] = start
        /\ \A n \in 1 .. k : g[n] = PlaceAfter(i.hdr.secs[n], g[n - 1])
    BY <1>2, <1>8, <2>0 DEF Begun
  <2>2. \A n \in 0 .. k : n # 0 => n \in 1 .. k
    BY <1>0
  <2>3. g = [n \in 0 .. k |-> IF n = 0 THEN start ELSE PlaceAfter(i.hdr.secs[n], g[n - 1])]
    BY <2>1, <2>2
  <2> QED
    BY <1>7, <2>3
<1> DEFINE f == CHOOSE f : Is(f)
<1>10. Is(f)
  BY <1>9
<1>11. CopySections(i) = f[k]
  BY <1>3
<1> HIDE DEF f
<1>12. /\ f = [n \in 0 .. k |-> f[n]] /\ f[0] = start
       /\ \A n \in 1 .. k : f[n] = PlaceAfter(i.hdr.secs[n], f[n - 1])
  <2>0. f = [n \in 0 .. k |-> IF n = 0 THEN start ELSE PlaceAfter(i.hdr.secs[n], f[n - 1])]
    BY <1>7, <1>10
  <2>1. f = [n \in 0 .. k |-> f[n]]
    BY <2>0
  <2>2. \A n \in 0 .. k : f[n] = IF n = 0 THEN start
                                 ELSE PlaceAfter(i.hdr.secs[n], f[n - 1])
    BY <2>0
  <2>3. 0 \in 0 .. k /\ \A n \in 1 .. k : n \in 0 .. k /\ n # 0
    BY <1>0
  <2> QED
    BY <2>1, <2>2, <2>3
<1>13. Follows(k, Places, start, h, f)
  BY <1>2, <1>12 DEF Follows
<1>14. f \in Begun(k, Places, start, h)
  BY <1>0, <1>4, <1>6, <1>13, Unfolded
<1>15. Copied(f, i)
  BY <1>5, <1>12, <1>14 DEF Begun, Copied, k
<1> QED
  BY <1>11, <1>15 DEF k

\* What a linked file is: the parts of Pristine.
LEMMA LinkedIs ==
    ASSUME NEW f \in Pristine
    PROVE  /\ f.lfanew \in Nat \ {0} /\ f.peAt = f.lfanew /\ QuadAlign(f.lfanew) = f.lfanew
           /\ f.hdr \in Headers /\ f.hdr.secs \in Seq(Sections) /\ Linked(f.hdr.secs)
           /\ f.imports \in Seq(Imported) /\ f.debug \in Nat /\ f.ilonly \in BOOLEAN
           /\ f.detour = NULL /\ f.tailAt = ExtraOffset(f.hdr.secs)
           /\ f.tailAt \in Nat /\ SizeOfHeaders <= f.tailAt
           /\ f.hdr.size = SectionAlign(SectionEnd(Last(f.hdr.secs)))
           /\ f.hdr.import = "own" /\ f.hdr.bound \in Nat /\ f.hdr.size \in Nat
           /\ f.hdr.symbols \in Nat
<1>1. f \in LinkedFiles
  BY PristineAssumption
<1>2. /\ f.lfanew \in Nat \ {0} /\ f.hdr \in Headers /\ f.imports \in Seq(Imported)
      /\ f.debug \in Nat /\ f.ilonly \in BOOLEAN /\ f.detour = NULL /\ f.tailAt \in Nat
  BY <1>1 DEF LinkedFiles
<1>3. /\ f.hdr.secs \in Seq(Sections) /\ f.hdr.import = "own" /\ f.hdr.bound \in Nat
      /\ f.hdr.size \in Nat /\ f.hdr.symbols \in Nat
  BY <1>2 DEF Headers
<1> QED
  BY <1>2, <1>3, PristineAssumption

\* What Write finds when it has copied the sections of the original: the file
\* and the image go on where the original ends.
LEMMA CopiedSections ==
    ASSUME NEW f \in Pristine, NEW i, i.hdr.secs = f.hdr.secs,
           i.extra \in Nat, f.tailAt <= i.extra
    PROVE  CopySections(i) = [file |-> f.tailAt, virt |-> f.hdr.size, extra |-> i.extra]
<1> DEFINE secs == f.hdr.secs
           k == Len(secs)
           X == i.extra
           E == f.tailAt
<1>1. /\ secs \in Seq(Sections) /\ Linked(secs) /\ E \in Nat /\ 512 <= E /\ E <= X /\ X \in Nat
      /\ E = ExtraOffset(secs) /\ f.hdr.size = SectionAlign(SectionEnd(Last(secs)))
  BY LinkedIs DEF SizeOfHeaders
<1>2. PICK at : Copied(at, i) /\ CopySections(i) = at[k]
  BY <1>1, CopiedIs
<1>3. PICK end : RawEnds(end, secs) /\ E = end[k]
  BY <1>1, ExtraIs
<1>4. i.hdr.secs = secs
  OBVIOUS
<1> HIDE DEF secs, X, E
<1>5. k \in Nat /\ k # 0 /\ DOMAIN secs = 1 .. k
  BY <1>1 DEF Linked
<1>6. ASSUME NEW n \in 1 .. k
      PROVE  /\ secs[n] \in Sections /\ secs[n].raw + secs[n].size \in Nat
             /\ FileAlign(secs[n].raw + secs[n].size) = secs[n].raw + secs[n].size
             /\ secs[n].va \in Nat /\ SectionAlign(secs[n].va) = secs[n].va
             /\ SectionEnd(secs[n]) \in Nat /\ secs[n].va <= SectionEnd(secs[n])
  <2>1. Aligned(secs[n])
    BY <1>1, <1>5 DEF Linked
  <2>2. /\ secs[n] \in Sections /\ secs[n].raw \in Nat /\ secs[n].size \in Nat
        /\ secs[n].va \in Nat /\ secs[n].vsize \in Nat
        /\ SectionEnd(secs[n]) \in Nat
        /\ secs[n].va + secs[n].vsize <= SectionEnd(secs[n])
    BY <1>1, SectionTyped
  <2> DEFINE raw == secs[n].raw
             size == secs[n].size
             va == secs[n].va
             vsize == secs[n].vsize
             send == SectionEnd(secs[n])
  <2>3. FileAlign(raw) = raw /\ FileAlign(size) = size /\ SectionAlign(va) = va
    BY <2>1 DEF Aligned
  <2> HIDE DEF raw, size, va, vsize, send
  <2>4. raw \in Nat /\ size \in Nat /\ va \in Nat /\ vsize \in Nat /\ send \in Nat
        /\ va + vsize <= send
    BY <2>2 DEF raw, size, va, vsize, send
  <2>5. FileAlign(raw + size) = raw + size
    BY <2>3, <2>4, AlignedSum
  <2>6. va <= send /\ raw + size \in Nat
    BY <2>4
  <2> QED
    BY <2>2, <2>3, <2>4, <2>5, <2>6 DEF raw, size, va, vsize, send
<1> DEFINE V(n) == IF n = 0 THEN 0 ELSE SectionAlign(SectionEnd(secs[n]))
           Good(n) == /\ at[n] = [file |-> MaxOf(512, end[n]), virt |-> V(n), extra |-> X]
                      /\ FileAlign(end[n]) = end[n] /\ end[n] \in Nat
           S == {n \in 0 .. k : Good(n)}
<1>7. 0 \in S
  <2>1. FileAlign(512) = 512 /\ SectionAlign(0) = 0 /\ FileAlign(0) = 0
    BY DEF FileAlign, SectionAlign, Align
  <2>2. end[0] = 0
    BY <1>3 DEF RawEnds
  <2>3. at[0] = [file |-> FileAlign(SizeOfHeaders), virt |-> SectionAlign(0), extra |-> X]
    BY <1>2 DEF Copied, X
  <2> QED
    BY <1>5, <2>1, <2>2, <2>3 DEF SizeOfHeaders, MaxOf
<1>8. ASSUME NEW n \in 0 .. k - 1, n \in S PROVE n + 1 \in S
  <2> DEFINE s == secs[n + 1]
             r == s.raw + s.size
             e == end[n]
             next == MaxOf(r, MaxOf(512, e))
  <2>1. n + 1 \in 1 .. k /\ (n + 1) - 1 = n /\ n + 1 \in 0 .. k
    BY <1>5
  <2>2. at[n + 1] = PlaceAfter(s, at[n])
    <3> HIDE DEF k
    <3> QED
      BY <1>2, <1>4, <2>1 DEF Copied, k
  <2>3. at[n] = [file |-> MaxOf(512, e), virt |-> V(n), extra |-> X]
        /\ FileAlign(e) = e /\ e \in Nat
    BY <1>8
  <2>4. end[n + 1] = MaxOf(r, e)
    <3> HIDE DEF k
    <3> QED
      BY <1>3, <2>1 DEF RawEnds, k
  <2>5. end[n + 1] <= E
    <3>1. k \in 0 .. k /\ n + 1 \in 0 .. k
      BY <1>5, <2>1
    <3> QED
      BY <1>1, <1>3, <3>1, RawEndsGrow
  <2>6. PlaceAfter(s, at[n]) = [file |-> FileAlign(next),
                                virt |-> SectionAlign(MaxOf(SectionEnd(s), V(n))),
                                extra |-> MaxOf(next, X)]
    <3>1. PlaceAfter(s, at[n]) = AlignFileData([file |-> next,
                                virt |-> MaxOf(SectionEnd(s), V(n)), extra |-> MaxOf(next, X)])
      <4> HIDE DEF V
      <4> QED
        BY <2>3 DEF PlaceAfter
    <3> HIDE DEF next, s, V
    <3> QED
      BY <3>1, PlaceAligned
  <2>7. V(n) <= SectionEnd(s) /\ V(n) \in Nat
    <3>1. CASE n = 0
      BY <1>6, <2>1, <3>1
    <3>2. CASE n # 0
      <4>1. n \in 1 .. k
        BY <2>1, <3>2
      <4>2. SectionEnd(secs[n]) <= s.va
        BY <1>1, <1>5, <2>1, <4>1 DEF Linked
      <4>3. SectionAlign(SectionEnd(secs[n])) <= s.va
        BY <1>6, <2>1, <4>1, <4>2, AlignedDown
      <4>4. SectionAlign(SectionEnd(secs[n])) \in Nat
        BY <1>6, <4>1, AlignedUp
      <4>5. s.va \in Nat /\ SectionEnd(s) \in Nat /\ s.va <= SectionEnd(s)
        BY <1>6, <2>1
      <4> QED
        BY <3>2, <4>3, <4>4, <4>5
    <3> QED
      BY <3>1, <3>2
  <2>8. r \in Nat /\ FileAlign(r) = r /\ SectionEnd(s) \in Nat
    BY <1>6, <2>1
  <2>9. MaxOf(SectionEnd(s), V(n)) = SectionEnd(s)
    <3> HIDE DEF V, s
    <3> QED
      BY <2>7, <2>8 DEF MaxOf
  <2>10. V(n + 1) = SectionAlign(SectionEnd(s))
    BY <2>1
  <2> HIDE DEF s, V
  <2>11. /\ next = MaxOf(512, end[n + 1]) /\ MaxOf(next, X) = X /\ FileAlign(next) = next
         /\ FileAlign(end[n + 1]) = end[n + 1] /\ end[n + 1] \in Nat
    <3>1. FileAlign(512) = 512
      BY DEF FileAlign, Align
    <3> HIDE DEF r, e
    <3> QED
      BY <1>1, <2>3, <2>4, <2>5, <2>8, <3>1 DEF MaxOf
  <2> HIDE DEF next
  <2> QED
    BY <2>1, <2>2, <2>6, <2>9, <2>10, <2>11
<1>9. Good(k)
  <2>1. k \in 0 .. k
    BY <1>5
  <2> HIDE DEF S, k
  <2>2. k \in S
    BY <1>5, <1>7, <1>8, <2>1, IntervalInduction
  <2> QED
    BY <2>2 DEF S
<1>10. MaxOf(512, end[k]) = E
  BY <1>1, <1>3 DEF MaxOf
<1>11. V(k) = f.hdr.size
  BY <1>1, <1>5 DEF Last
<1> QED
  BY <1>2, <1>9, <1>10, <1>11 DEF X, E

-----------------------------------------------------------------------------
(* The import list: its files that are no byways are those of the          *)
(* original, in their order.                                               *)

\* What an import list is made of, whoever has edited it.
Symbol == [name : Called, orig : Called, nOrdinal : Nat, nOrig : Nat]
ImportFiles == [byway : BOOLEAN, name : Called, orig : Called, names : Seq(Symbol)]

\* pos[k] is where the list has the kth file of the original.
Ordered(list, pos, T) ==
    /\ pos \in [1 .. Len(T) -> 1 .. Len(list)]
    /\ \A j, k \in 1 .. Len(T) : j < k => pos[j] < pos[k]
    /\ \A i \in 1 .. Len(list) : ~list[i].byway <=> \E k \in 1 .. Len(T) : pos[k] = i
    /\ \A k \in 1 .. Len(T) : Len(list[pos[k]].names) = Len(T[k].names)
    /\ \A i \in 1 .. Len(list) : list[i].byway => Len(list[i].names) = 0

\* What a file of the list keeps of a file of the original.
FromOriginal(f, g) ==
    /\ f.orig = g.name
    /\ \A n \in 1 .. Len(g.names) : f.names[n].orig \in {NULL, g.names[n].name}

\* A list that comes from the original by any edits.
Edited(list, T) ==
    /\ list \in Seq(ImportFiles)
    /\ \E pos : /\ Ordered(list, pos, T)
                /\ \A k \in 1 .. Len(T) : FromOriginal(list[pos[k]], T[k])

\* The kth file of the original is the kth of the list that is no byway.
LEMMA Indexed ==
    ASSUME NEW S, NEW list \in Seq(S), NEW S2, NEW T \in Seq(S2), NEW pos, Ordered(list, pos, T)
    PROVE  /\ \A k \in 1 .. Len(T) : OriginalIndex(list, pos[k]) = k
           /\ OriginalIndex(list, Len(list)) = Len(T)
<1> DEFINE l == Len(T)
           m == Len(list)
           upto(i) == {j \in 1 .. i : ~list[j].byway}
<1>0. l \in Nat /\ m \in Nat
  OBVIOUS
<1>1. /\ pos \in [1 .. l -> 1 .. m]
      /\ \A j, k \in 1 .. l : j < k => pos[j] < pos[k]
      /\ \A i \in 1 .. m : ~list[i].byway <=> \E k \in 1 .. l : pos[k] = i
  BY DEF Ordered
<1> HIDE DEF l, m
<1>2. ASSUME NEW k \in 0 .. l, NEW i \in 0 .. m, k # 0 => pos[k] <= i,
             \A j \in 1 .. l : pos[j] <= i => j <= k
      PROVE  Cardinality(upto(i)) = k
  <2> DEFINE f == [j \in 1 .. k |-> pos[j]]
  <2>1. \A j \in 1 .. k : j \in 1 .. l /\ pos[j] \in 1 .. i /\ ~list[pos[j]].byway
    <3> SUFFICES ASSUME NEW j \in 1 .. k
                 PROVE  j \in 1 .. l /\ pos[j] \in 1 .. i /\ ~list[pos[j]].byway
      OBVIOUS
    <3>1. j \in 1 .. l /\ k \in 1 .. l /\ (j = k \/ j < k)
      BY <1>0
    <3>2. pos[j] \in 1 .. m /\ pos[k] \in 1 .. m
      BY <1>1, <3>1
    <3>3. pos[j] <= i
      BY <1>0, <1>1, <1>2, <3>1, <3>2
    <3> QED
      BY <1>0, <1>1, <3>1, <3>2, <3>3
  <2>2. f \in [1 .. k -> upto(i)]
    BY <2>1
  <2>3. \A j \in 1 .. k : \A n \in 1 .. k : f[j] = f[n] => j = n
    <3> SUFFICES ASSUME NEW j \in 1 .. k, NEW n \in 1 .. k, pos[j] = pos[n] PROVE j = n
      OBVIOUS
    <3>1. j \in 1 .. l /\ n \in 1 .. l /\ (j < n \/ n < j \/ j = n)
      BY <1>0
    <3>2. pos[j] \in Nat /\ pos[n] \in Nat
      BY <1>0, <1>1, <3>1
    <3> QED
      BY <1>1, <3>1, <3>2
  <2>4. \A x \in upto(i) : \E j \in 1 .. k : f[j] = x
    <3> SUFFICES ASSUME NEW x \in 1 .. i, ~list[x].byway PROVE \E j \in 1 .. k : pos[j] = x
      OBVIOUS
    <3>1. x \in 1 .. m
      BY <1>0
    <3>2. PICK j \in 1 .. l : pos[j] = x
      BY <1>1, <3>1
    <3>3. j <= k
      BY <1>2, <3>2
    <3>4. j \in 1 .. k
      BY <1>0, <3>3
    <3> QED
      BY <3>2, <3>4
  <2> HIDE DEF f, upto
  <2>5. f \in Bijection(1 .. k, upto(i))
    <3>1. DOMAIN f = 1 .. k
      BY <2>2
    <3>2. IsInjective(f)
      BY <2>3, <3>1 DEF IsInjective
    <3>3. f \in Surjection(1 .. k, upto(i))
      BY <2>2, <2>4 DEF Surjection
    <3> QED
      BY <2>2, <3>2, <3>3 DEF Bijection, Injection
  <2>6. IsFiniteSet(1 .. k) /\ Cardinality(1 .. k) = k
    <3>1. k \in Int /\ 1 \in Int /\ 0 <= k
      BY <1>0
    <3>2. IsFiniteSet(1 .. k) /\ Cardinality(1 .. k) = IF 1 > k THEN 0 ELSE k - 1 + 1
      BY <3>1, FS_Interval
    <3> QED
      BY <3>1, <3>2
  <2> QED
    BY <2>5, <2>6, FS_Bijection DEF ExistsBijection
<1>3. ASSUME NEW k \in 1 .. l PROVE OriginalIndex(list, pos[k]) = k
  <2>1. k \in 0 .. l /\ k # 0 /\ pos[k] \in 0 .. m /\ pos[k] \in Nat
    BY <1>0, <1>1
  <2>2. ASSUME NEW j \in 1 .. l, pos[j] <= pos[k] PROVE j <= k
    <3>1. pos[j] \in Nat
      BY <1>0, <1>1
    <3>2. j <= k \/ k < j
      BY <1>0
    <3> QED
      BY <1>1, <2>1, <2>2, <3>1, <3>2
  <2>3. Cardinality(upto(pos[k])) = k
    <3> HIDE DEF upto
    <3> QED
      BY <1>2, <2>1, <2>2
  <2> QED
    BY <2>3 DEF OriginalIndex
<1>4. OriginalIndex(list, m) = l
  <2>1. l \in 0 .. l /\ m \in 0 .. m
    BY <1>0
  <2>2. \A j \in 1 .. l : pos[j] \in 1 .. m /\ j <= l
    BY <1>0, <1>1
  <2>3. l # 0 => l \in 1 .. l
    BY <1>0
  <2>4. l # 0 => pos[l] <= m
    BY <1>0, <2>2, <2>3
  <2>5. Cardinality(upto(m)) = l
    <3> HIDE DEF upto
    <3> QED
      BY <1>2, <2>1, <2>2, <2>4
  <2> QED
    BY <2>5 DEF OriginalIndex
<1> QED
  BY <1>3, <1>4 DEF l, m

\* FilesOf, the files that are no byways, is in the order of the original.
LEMMA FilesAre ==
    ASSUME NEW S, NEW list \in Seq(S), NEW S2, NEW T \in Seq(S2), NEW pos, Ordered(list, pos, T)
    PROVE  FilesOf(list) = [k \in 1 .. Len(T) |-> list[pos[k]]]
<1>1. /\ \A k \in 1 .. Len(T) : OriginalIndex(list, pos[k]) = k
      /\ OriginalIndex(list, Len(list)) = Len(T)
  BY Indexed
<1> DEFINE at(k) == CHOOSE i \in DOMAIN list : ~list[i].byway /\ OriginalIndex(list, i) = k
<1>2. ASSUME NEW k \in 1 .. Len(T) PROVE at(k) = pos[k]
  <2>1. pos[k] \in DOMAIN list /\ ~list[pos[k]].byway
    BY DEF Ordered
  <2>2. ASSUME NEW i \in DOMAIN list, ~list[i].byway, OriginalIndex(list, i) = k PROVE i = pos[k]
    <3>1. PICK j \in 1 .. Len(T) : pos[j] = i
      BY <2>2 DEF Ordered
    <3> QED
      BY <1>1, <2>2, <3>1
  <2> QED
    BY <1>1, <2>1, <2>2
<1>3. FilesOf(list) = [k \in 1 .. OriginalIndex(list, Len(list)) |-> list[at(k)]]
  BY DEF FilesOf
<1> HIDE DEF at
<1> QED
  BY <1>1, <1>2, <1>3

\* A list of which one file has been edited.
Kin(f, g) == /\ g \in ImportFiles /\ g.byway = f.byway /\ g.orig = f.orig
             /\ Len(g.names) = Len(f.names)
             /\ \A n \in 1 .. Len(f.names) : g.names[n].orig = f.names[n].orig

\* It comes from the same original.
LEMMA EditedOne ==
    ASSUME NEW list, NEW S2, NEW T \in Seq(S2), Edited(list, T),
           NEW c \in 1 .. Len(list), NEW g, Kin(list[c], g)
    PROVE  Edited([list EXCEPT ![c] = g], T)
<1> DEFINE new == [list EXCEPT ![c] = g]
<1>1. list \in Seq(ImportFiles)
  BY DEF Edited
<1>2. PICK pos : /\ Ordered(list, pos, T)
                 /\ \A k \in 1 .. Len(T) : FromOriginal(list[pos[k]], T[k])
  BY DEF Edited
<1>3. /\ new \in Seq(ImportFiles) /\ Len(new) = Len(list)
      /\ \A i \in 1 .. Len(list) : new[i] = IF i = c THEN g ELSE list[i]
  BY <1>1 DEF Kin
<1> HIDE DEF new
<1>4. \A i \in 1 .. Len(list) : new[i].byway = list[i].byway /\ Len(new[i].names) = Len(list[i].names)
  BY <1>3 DEF Kin
<1>5. Ordered(new, pos, T)
  <2>1. \A k \in 1 .. Len(T) : pos[k] \in 1 .. Len(list)
    BY <1>2 DEF Ordered
  <2> QED
    BY <1>2, <1>3, <1>4, <2>1 DEF Ordered
<1>6. ASSUME NEW k \in 1 .. Len(T) PROVE FromOriginal(new[pos[k]], T[k])
  <2>1. pos[k] \in 1 .. Len(list) /\ Len(list[pos[k]].names) = Len(T[k].names)
    BY <1>2 DEF Ordered
  <2>2. FromOriginal(list[pos[k]], T[k])
    BY <1>2
  <2>3. CASE pos[k] = c
    BY <1>3, <2>1, <2>2, <2>3 DEF FromOriginal, Kin
  <2>4. CASE pos[k] # c
    BY <1>3, <2>1, <2>2, <2>4
  <2> QED
    BY <2>3, <2>4
<1>7. Edited(new, T)
  BY <1>3, <1>5, <1>6 DEF Edited
<1> QED
  BY <1>7 DEF new

\* A byway put in.
LEMMA EditedByway ==
    ASSUME NEW list, NEW S2, NEW T \in Seq(S2), Edited(list, T),
           NEW c \in 1 .. Len(list) + 1, NEW e \in ImportFiles, e.byway, Len(e.names) = 0
    PROVE  Edited(InsertAt(list, c, e), T) /\ Len(InsertAt(list, c, e)) = Len(list) + 1
<1> DEFINE new == InsertAt(list, c, e)
           l == Len(T)
           m == Len(list)
<1>1. list \in Seq(ImportFiles)
  BY DEF Edited
<1>2. PICK pos : /\ Ordered(list, pos, T)
                 /\ \A k \in 1 .. Len(T) : FromOriginal(list[pos[k]], T[k])
  BY DEF Edited
<1>3. Inserts(new, list, c, e, ImportFiles)
  BY <1>1, Inserted
<1>0. l \in Nat /\ m \in Nat /\ c \in 1 .. m + 1
  BY <1>1
<1> HIDE DEF new
<1>4. /\ new \in Seq(ImportFiles) /\ Len(new) = m + 1
      /\ \A j \in 1 .. m + 1 : new[j] = IF j < c THEN list[j] ELSE IF j = c THEN e ELSE list[j - 1]
  BY <1>3 DEF Inserts
<1>5. /\ pos \in [1 .. l -> 1 .. m]
      /\ \A j, k \in 1 .. l : j < k => pos[j] < pos[k]
      /\ \A i \in 1 .. m : ~list[i].byway <=> \E k \in 1 .. l : pos[k] = i
      /\ \A k \in 1 .. l : Len(list[pos[k]].names) = Len(T[k].names)
      /\ \A i \in 1 .. m : list[i].byway => Len(list[i].names) = 0
  BY <1>2 DEF Ordered
<1> DEFINE shift(i) == IF i < c THEN i ELSE i + 1
           new_pos == [k \in 1 .. l |-> shift(pos[k])]
<1> HIDE DEF l, m
<1>6. \A i \in 1 .. m : shift(i) \in 1 .. m + 1 /\ new[shift(i)] = list[i] /\ shift(i) # c
  <2> SUFFICES ASSUME NEW i \in 1 .. m
               PROVE  shift(i) \in 1 .. m + 1 /\ new[shift(i)] = list[i] /\ shift(i) # c
    OBVIOUS
  <2>1. i \in 1 .. m + 1 /\ i + 1 \in 1 .. m + 1 /\ (i + 1) - 1 = i
    BY <1>0
  <2>2. CASE i < c
    BY <1>0, <1>4, <2>1, <2>2
  <2>3. CASE ~(i < c)
    <3>1. ~(i + 1 < c) /\ i + 1 # c
      BY <1>0, <2>3
    <3> QED
      BY <1>4, <2>1, <2>3, <3>1
  <2> QED
    BY <2>2, <2>3
<1>7. \A j \in 1 .. m + 1 : j = c \/ \E i \in 1 .. m : j = shift(i)
  <2> SUFFICES ASSUME NEW j \in 1 .. m + 1, j # c PROVE \E i \in 1 .. m : j = shift(i)
    OBVIOUS
  <2>1. CASE j < c
    <3>1. j \in 1 .. m /\ j = shift(j)
      BY <1>0, <2>1
    <3> QED
      BY <3>1
  <2>2. CASE ~(j < c)
    <3>1. j - 1 \in 1 .. m /\ j = shift(j - 1)
      BY <1>0, <2>2
    <3> QED
      BY <3>1
  <2> QED
    BY <2>1, <2>2
<1>8. \A i \in 1 .. m : \A j \in 1 .. m : /\ i < j => shift(i) < shift(j)
                                         /\ shift(i) = shift(j) => i = j
  BY <1>0
<1>9. new[c] = e
  BY <1>0, <1>4
<1> HIDE DEF shift
<1>10. \A k \in 1 .. l : new_pos[k] = shift(pos[k]) /\ pos[k] \in 1 .. m
  BY <1>5
<1>11. Ordered(new, new_pos, T)
  <2>1. new_pos \in [1 .. l -> 1 .. m + 1]
    BY <1>5, <1>6
  <2>2. ASSUME NEW j \in 1 .. l, NEW k \in 1 .. l, j < k PROVE new_pos[j] < new_pos[k]
    <3>1. pos[j] < pos[k] /\ pos[j] \in 1 .. m /\ pos[k] \in 1 .. m
      BY <1>5, <1>10, <2>2
    <3>2. shift(pos[j]) < shift(pos[k])
      <4> DEFINE p == pos[j]
                 q == pos[k]
      <4>1. p < q /\ p \in 1 .. m /\ q \in 1 .. m
        BY <3>1
      <4> HIDE DEF p, q, new_pos
      <4>2. shift(p) < shift(q)
        BY <1>0, <4>1 DEF shift
      <4> QED
        BY <4>2 DEF p, q
    <3>3. new_pos[j] = shift(pos[j]) /\ new_pos[k] = shift(pos[k])
      OBVIOUS
    <3> HIDE DEF new_pos
    <3> QED
      BY <3>2, <3>3
  <2>3. \A k \in 1 .. l : Len(new[new_pos[k]].names) = Len(T[k].names)
    BY <1>5, <1>6, <1>10
  <2>4. ASSUME NEW j \in 1 .. m + 1
        PROVE  ~new[j].byway <=> \E k \in 1 .. l : new_pos[k] = j
    <3>1. CASE j = c
      <4>1. \A k \in 1 .. l : new_pos[k] # c
        BY <1>6, <1>10
      <4> QED
        BY <1>9, <3>1, <4>1
    <3>2. CASE j # c
      <4>1. PICK i \in 1 .. m : j = shift(i)
        BY <1>7, <3>2
      <4>2. new[j] = list[i]
        BY <1>6, <4>1
      <4>3. \A k \in 1 .. l : new_pos[k] = j <=> pos[k] = i
        BY <1>8, <1>10, <4>1
      <4> QED
        BY <1>5, <4>2, <4>3
    <3> QED
      BY <3>1, <3>2
  <2>5. ASSUME NEW j \in 1 .. m + 1, new[j].byway PROVE Len(new[j].names) = 0
    <3>1. CASE j = c
      BY <1>9, <3>1
    <3>2. CASE j # c
      <4>1. PICK i \in 1 .. m : j = shift(i)
        BY <1>7, <3>2
      <4> QED
        BY <1>5, <1>6, <2>5, <4>1
    <3> QED
      BY <3>1, <3>2
  <2> HIDE DEF new_pos
  <2> QED
    BY <1>4, <2>1, <2>2, <2>3, <2>4, <2>5 DEF Ordered, l
<1>12. \A k \in 1 .. l : FromOriginal(new[new_pos[k]], T[k])
  <2>1. \A k \in 1 .. l : new[new_pos[k]] = list[pos[k]]
    BY <1>6, <1>10
  <2> HIDE DEF new_pos
  <2> QED
    BY <1>2, <2>1 DEF l
<1>13. Edited(new, T)
  <2> HIDE DEF new_pos
  <2> QED
    BY <1>4, <1>11, <1>12 DEF Edited, l
<1> QED
  BY <1>4, <1>13 DEF new, m

\* A byway taken out.
LEMMA EditedWithout ==
    ASSUME NEW list, NEW S2, NEW T \in Seq(S2), Edited(list, T),
           NEW c \in 1 .. Len(list), list[c].byway
    PROVE  Edited(RemoveAt(list, c), T) /\ Len(RemoveAt(list, c)) = Len(list) - 1
<1> DEFINE new == RemoveAt(list, c)
           l == Len(T)
           m == Len(list)
<1>1. list \in Seq(ImportFiles)
  BY DEF Edited
<1>2. PICK pos : /\ Ordered(list, pos, T)
                 /\ \A k \in 1 .. Len(T) : FromOriginal(list[pos[k]], T[k])
  BY DEF Edited
<1>3. Removes(new, list, c, ImportFiles)
  BY <1>1, Removed
<1>0. l \in Nat /\ m \in Nat /\ c \in 1 .. m
  BY <1>1
<1> HIDE DEF new
<1>4. /\ new \in Seq(ImportFiles) /\ Len(new) = m - 1
      /\ \A j \in 1 .. m - 1 : new[j] = IF j < c THEN list[j] ELSE list[j + 1]
  BY <1>3 DEF Removes
<1>5. /\ pos \in [1 .. l -> 1 .. m]
      /\ \A j, k \in 1 .. l : j < k => pos[j] < pos[k]
      /\ \A i \in 1 .. m : ~list[i].byway <=> \E k \in 1 .. l : pos[k] = i
      /\ \A k \in 1 .. l : Len(list[pos[k]].names) = Len(T[k].names)
      /\ \A i \in 1 .. m : list[i].byway => Len(list[i].names) = 0
  BY <1>2 DEF Ordered
<1> DEFINE shift(i) == IF i < c THEN i ELSE i - 1
           back(j) == IF j < c THEN j ELSE j + 1
           new_pos == [k \in 1 .. l |-> shift(pos[k])]
<1> HIDE DEF l, m
<1>6. \A k \in 1 .. l : pos[k] \in 1 .. m /\ pos[k] # c
  <2>1. \A k \in 1 .. l : pos[k] \in 1 .. m /\ ~list[pos[k]].byway
    BY <1>5
  <2> QED
    BY <2>1
<1>7. \A i \in 1 .. m : i # c => shift(i) \in 1 .. m - 1 /\ new[shift(i)] = list[i]
  <2> SUFFICES ASSUME NEW i \in 1 .. m, i # c
               PROVE  shift(i) \in 1 .. m - 1 /\ new[shift(i)] = list[i]
    OBVIOUS
  <2>1. CASE i < c
    <3>1. i \in 1 .. m - 1
      BY <1>0, <2>1
    <3> QED
      BY <1>4, <2>1, <3>1
  <2>2. CASE ~(i < c)
    <3>1. i - 1 \in 1 .. m - 1 /\ (i - 1) + 1 = i /\ ~(i - 1 < c)
      BY <1>0, <2>2
    <3> QED
      BY <1>4, <2>2, <3>1
  <2> QED
    BY <2>1, <2>2
<1>8. \A j \in 1 .. m - 1 : back(j) \in 1 .. m /\ back(j) # c /\ j = shift(back(j))
  <2> SUFFICES ASSUME NEW j \in 1 .. m - 1
               PROVE  back(j) \in 1 .. m /\ back(j) # c /\ j = shift(back(j))
    OBVIOUS
  <2>1. CASE j < c
    BY <1>0, <2>1
  <2>2. CASE ~(j < c)
    <3>1. ~(j + 1 < c) /\ (j + 1) - 1 = j
      BY <1>0, <2>2
    <3> QED
      BY <1>0, <2>2, <3>1
  <2> QED
    BY <2>1, <2>2
<1>9. \A i \in 1 .. m : \A j \in 1 .. m : i # c /\ j # c =>
          /\ i < j => shift(i) < shift(j)
          /\ shift(i) = shift(j) => i = j
  BY <1>0
<1> HIDE DEF shift, back
<1>10. \A k \in 1 .. l : new_pos[k] = shift(pos[k])
  OBVIOUS
<1>11. Ordered(new, new_pos, T)
  <2>1. new_pos \in [1 .. l -> 1 .. m - 1]
    BY <1>6, <1>7
  <2>2. \A j, k \in 1 .. l : j < k => new_pos[j] < new_pos[k]
    BY <1>5, <1>6, <1>9, <1>10
  <2>3. \A k \in 1 .. l : Len(new[new_pos[k]].names) = Len(T[k].names)
    BY <1>5, <1>6, <1>7, <1>10
  <2>4. ASSUME NEW j \in 1 .. m - 1
        PROVE  ~new[j].byway <=> \E k \in 1 .. l : new_pos[k] = j
    <3> DEFINE i == back(j)
    <3>1. i \in 1 .. m /\ i # c /\ j = shift(i)
      BY <1>8
    <3> HIDE DEF i
    <3>2. new[j] = list[i]
      BY <1>7, <3>1
    <3>3. \A k \in 1 .. l : new_pos[k] = j <=> pos[k] = i
      BY <1>6, <1>9, <1>10, <3>1
    <3> QED
      BY <1>5, <3>1, <3>2, <3>3
  <2>5. ASSUME NEW j \in 1 .. m - 1, new[j].byway PROVE Len(new[j].names) = 0
    <3> DEFINE i == back(j)
    <3>1. i \in 1 .. m /\ i # c /\ j = shift(i)
      BY <1>8
    <3> HIDE DEF i
    <3> QED
      BY <1>5, <1>7, <2>5, <3>1
  <2> HIDE DEF new_pos
  <2> QED
    BY <1>4, <2>1, <2>2, <2>3, <2>4, <2>5 DEF Ordered, l
<1>12. \A k \in 1 .. l : FromOriginal(new[new_pos[k]], T[k])
  <2>1. \A k \in 1 .. l : new[new_pos[k]] = list[pos[k]]
    BY <1>6, <1>7, <1>10
  <2> HIDE DEF new_pos
  <2> QED
    BY <1>2, <2>1 DEF l
<1>13. Edited(new, T)
  <2> HIDE DEF new_pos
  <2> QED
    BY <1>4, <1>11, <1>12 DEF Edited, l
<1> QED
  BY <1>4, <1>13 DEF new, m

\* DetourBinaryResetImports: only the files of the original are left.
LEMMA ResetKin ==
    ASSUME NEW f \in ImportFiles
    PROVE  Kin(f, ResetFile(f))
<1> DEFINE names == [k \in DOMAIN f.names |-> ResetName(f.names[k])]
<1>1. /\ f.byway \in BOOLEAN /\ f.name \in Called /\ f.orig \in Called /\ f.names \in Seq(Symbol)
  BY DEF ImportFiles
<1>2. ASSUME NEW n \in Symbol PROVE ResetName(n) \in Symbol /\ ResetName(n).orig = n.orig
  BY DEF ResetName, Renamed, ByOrdinal, Symbol
<1>3. \A k \in 1 .. Len(f.names) : f.names[k] \in Symbol
  BY <1>1
<1>4. /\ names \in Seq(Symbol) /\ Len(names) = Len(f.names)
      /\ \A k \in 1 .. Len(f.names) : names[k].orig = f.names[k].orig
  BY <1>1, <1>2, <1>3
<1>5. ResetFile(f) = [f EXCEPT !.name = IF f.orig # NULL THEN f.orig ELSE f.name, !.names = names]
  BY DEF ResetFile
<1> HIDE DEF names
<1>6. ResetFile(f) \in ImportFiles /\ ResetFile(f).byway = f.byway /\ ResetFile(f).orig = f.orig
      /\ ResetFile(f).names = names
  BY <1>1, <1>4, <1>5 DEF ImportFiles
<1> QED
  BY <1>4, <1>6 DEF Kin

\* The list so reset comes from the same original.
LEMMA EditedReset ==
    ASSUME NEW list, NEW S2, NEW T \in Seq(S2), Edited(list, T)
    PROVE  Edited([i \in DOMAIN FilesOf(list) |-> ResetFile(FilesOf(list)[i])], T)
<1> DEFINE files == FilesOf(list)
           new == [i \in DOMAIN files |-> ResetFile(files[i])]
           l == Len(T)
           same == [k \in 1 .. l |-> k]
<1>1. list \in Seq(ImportFiles) /\ l \in Nat
  BY DEF Edited
<1>2. PICK pos : /\ Ordered(list, pos, T)
                 /\ \A k \in 1 .. Len(T) : FromOriginal(list[pos[k]], T[k])
  BY DEF Edited
<1>3. files = [k \in 1 .. l |-> list[pos[k]]]
  BY <1>1, <1>2, FilesAre
<1>4. ASSUME NEW k \in 1 .. l
      PROVE  /\ list[pos[k]] \in ImportFiles /\ ~list[pos[k]].byway
             /\ Len(list[pos[k]].names) = Len(T[k].names)
             /\ FromOriginal(list[pos[k]], T[k])
  BY <1>1, <1>2 DEF Ordered
<1>5. \A k \in 1 .. l : Kin(list[pos[k]], ResetFile(list[pos[k]]))
  BY <1>4, ResetKin
<1>6. new = [k \in 1 .. l |-> ResetFile(list[pos[k]])]
  BY <1>3
<1> HIDE DEF files, new
<1>7. new \in Seq(ImportFiles) /\ Len(new) = l
  BY <1>1, <1>5, <1>6 DEF Kin
<1>8. ASSUME NEW k \in 1 .. l
      PROVE  /\ ~new[k].byway /\ Len(new[k].names) = Len(T[k].names)
             /\ FromOriginal(new[k], T[k])
  <2>1. Kin(list[pos[k]], new[k])
    BY <1>5, <1>6
  <2>2. FromOriginal(list[pos[k]], T[k]) /\ Len(list[pos[k]].names) = Len(T[k].names)
    BY <1>4
  <2>3. \A n \in 1 .. Len(T[k].names) : new[k].names[n].orig = list[pos[k]].names[n].orig
    BY <2>1, <2>2 DEF Kin
  <2>4. FromOriginal(new[k], T[k])
    BY <2>1, <2>2, <2>3 DEF Kin, FromOriginal
  <2> QED
    BY <1>4, <2>1, <2>4 DEF Kin
<1> HIDE DEF l
<1>9. Ordered(new, same, T)
  <2>1. same \in [1 .. l -> 1 .. l] /\ \A k \in 1 .. l : same[k] = k
    OBVIOUS
  <2>2. \A j, k \in 1 .. l : j < k => same[j] < same[k]
    BY <2>1
  <2>3. \A i \in 1 .. l : \E k \in 1 .. l : same[k] = i
    BY <2>1
  <2> HIDE DEF same
  <2> QED
    BY <1>7, <1>8, <2>1, <2>2, <2>3 DEF Ordered, l
<1>10. \A k \in 1 .. l : FromOriginal(new[same[k]], T[k])
  BY <1>8
<1>11. Edited(new, T)
  <2> HIDE DEF same
  <2> QED
    BY <1>7, <1>9, <1>10 DEF Edited, l
<1> QED
  BY <1>11 DEF new, files

\* EditImports: a file, and the symbols of it up to the kth.
LEMMA ChangedKin ==
    ASSUME NEW f \in ImportFiles, NEW k \in 0 .. Len(f.names), NEW g \in Changed(f, k)
    PROVE  Kin(f, g)
<1>1. /\ f.byway \in BOOLEAN /\ f.name \in Called /\ f.orig \in Called /\ f.names \in Seq(Symbol)
  BY DEF ImportFiles
<1>2. PICK name \in Names \cup {f.name}, all \in NewSymbols(f.names, k) :
          g = Replaced(f, name, all)
  BY DEF Changed
<1>3. /\ all \in [DOMAIN f.names -> UNION {Symbols(f.names[n]) : n \in DOMAIN f.names}]
      /\ \A n \in DOMAIN f.names :
             all[n] \in IF n <= k THEN Symbols(f.names[n]) ELSE {f.names[n]}
  BY DEF NewSymbols
<1>4. ASSUME NEW s \in Symbol, NEW t \in Symbols(s) PROVE t \in Symbol /\ t.orig = s.orig
  <2>1. Names \subseteq Called /\ Ordinals \subseteq Nat
    BY NameAssumption DEF Called
  <2>2. ASSUME NEW name2 \in Names, t = Renamed(s, name2) PROVE t \in Symbol /\ t.orig = s.orig
    <3>1. name2 \in Called
      BY <2>1
    <3> QED
      BY <2>2, <3>1 DEF Renamed, Symbol
  <2>3. ASSUME NEW ord \in Ordinals, t = ByOrdinal(s, ord) PROVE t \in Symbol /\ t.orig = s.orig
    <3>1. NULL \in Called /\ ord \in Nat
      BY <2>1 DEF Called
    <3> QED
      BY <2>3, <3>1 DEF ByOrdinal, Symbol
  <2> QED
    BY <2>2, <2>3 DEF Symbols
<1>5. \A n \in 1 .. Len(f.names) : f.names[n] \in Symbol
  BY <1>1
<1>6. \A n \in 1 .. Len(f.names) : all[n] \in Symbol /\ all[n].orig = f.names[n].orig
  <2> SUFFICES ASSUME NEW n \in 1 .. Len(f.names)
               PROVE  all[n] \in Symbol /\ all[n].orig = f.names[n].orig
    OBVIOUS
  <2>1. n \in DOMAIN f.names
    BY <1>1
  <2>2. CASE n <= k
    BY <1>3, <1>4, <1>5, <2>1, <2>2
  <2>3. CASE ~(n <= k)
    BY <1>3, <1>5, <2>1, <2>3
  <2> QED
    BY <2>2, <2>3
<1>7. all \in Seq(Symbol) /\ Len(all) = Len(f.names)
  <2>1. DOMAIN f.names = 1 .. Len(f.names) /\ Len(f.names) \in Nat
    BY <1>1
  <2>2. all = [n \in 1 .. Len(f.names) |-> all[n]]
    BY <1>3, <2>1
  <2> QED
    BY <1>6, <2>1, <2>2
<1>8. name \in Called
  BY <1>1, NameAssumption DEF Called
<1>10. /\ g \in ImportFiles /\ g.byway = f.byway /\ g.orig = f.orig /\ g.names = all
  BY <1>1, <1>2, <1>7, <1>8 DEF ImportFiles, Replaced
<1> QED
  BY <1>6, <1>7, <1>10 DEF Kin

-----------------------------------------------------------------------------
(* What Read makes of the tables of a file.                                *)

\* What Read makes of the tables of a file.
Shows(e, f) ==
    /\ f.byway = e.byway /\ f.name = e.name /\ Len(f.names) = Len(e.names)
    /\ \A n \in 1 .. Len(e.names) :
           Thunk(f.names[n]) = Thunk([name |-> e.names[n].name, nOrdinal |-> e.names[n].ord])
Shown(table, list) ==
    /\ Len(list) = Len(table)
    /\ \A i \in 1 .. Len(table) : Shows(table[i], list[i])
Recalls(e, f, g) ==
    \A n \in 1 .. Len(g.names) : e.names[n].name # NULL =>
        f.names[n].orig = g.names[n].name /\ f.names[n].nOrig = g.names[n].ord

\* A function from 1 .. c into S is a sequence.
LEMMA SeqIs ==
    ASSUME NEW S, NEW c \in Nat, NEW u, u = [n \in 1 .. c |-> u[n]], \A n \in 1 .. c : u[n] \in S
    PROVE  u \in Seq(S) /\ Len(u) = c
  OBVIOUS

\* A symbol as Read makes it of its thunk and of the original's.
ShowsName(thunk, look, s) ==
    /\ s \in Symbol
    /\ Thunk(s) = Thunk([name |-> thunk.name, nOrdinal |-> thunk.ord])
    /\ s.orig \in {NULL, look.name}
    /\ thunk.name # NULL => s.orig = look.name /\ s.nOrig = look.ord

\* ReadName shows the thunk.
LEMMA ReadNameIs ==
    ASSUME NEW thunk \in Thunks, NEW look \in Thunks
    PROVE  ShowsName(thunk, look, ReadName(thunk, look))
<1>1. thunk.name \in Called /\ thunk.ord \in Nat /\ look.name \in Called /\ look.ord \in Nat
  BY DEF Thunks
<1>2. NULL \in Called
  BY DEF Called
<1> DEFINE s == ReadName(thunk, look)
<1>3. s \in Symbol /\ s.name = thunk.name
  BY <1>1, <1>2 DEF ReadName, Symbol
<1>4. s.orig \in {NULL, look.name}
  BY DEF ReadName
<1>5. thunk.name # NULL => s.orig = look.name /\ s.nOrig = look.ord
  BY DEF ReadName
<1>6. thunk.name = NULL => s.nOrdinal = thunk.ord
  BY DEF ReadName
<1> HIDE DEF s
<1>7. Thunk(s) = Thunk([name |-> thunk.name, nOrdinal |-> thunk.ord])
  BY <1>3, <1>6 DEF Thunk
<1> QED
  BY <1>3, <1>4, <1>5, <1>7 DEF ShowsName, s

\* All the symbols of a file are read.
LEMMA NamesRead ==
    ASSUME NEW from \in Seq(Thunks), NEW look \in Seq(Thunks), Len(look) = Len(from)
    PROVE  /\ [n \in DOMAIN from |-> ReadName(from[n], look[n])] \in Seq(Symbol)
           /\ Len([n \in DOMAIN from |-> ReadName(from[n], look[n])]) = Len(from)
           /\ \A k \in 1 .. Len(from) :
                 ShowsName(from[k], look[k], [n \in DOMAIN from |-> ReadName(from[n], look[n])][k])
<1> DEFINE c == Len(from)
           names == [n \in DOMAIN from |-> ReadName(from[n], look[n])]
<1>1. /\ c \in Nat /\ names = [n \in 1 .. c |-> names[n]]
      /\ \A n \in 1 .. c : names[n] = ReadName(from[n], look[n])
  OBVIOUS
<1>2. \A n \in 1 .. c : from[n] \in Thunks /\ look[n] \in Thunks
  OBVIOUS
<1> HIDE DEF names, c
<1>3. \A n \in 1 .. c : ShowsName(from[n], look[n], names[n])
  BY <1>1, <1>2, ReadNameIs
<1>4. \A n \in 1 .. c : names[n] \in Symbol
  BY <1>3 DEF ShowsName
<1>5. names \in Seq(Symbol) /\ Len(names) = c
  BY <1>1, <1>4, SeqIs
<1> QED
  BY <1>3, <1>5 DEF names, c

\* A byway is read from the table alone.
LEMMA ReadByway ==
    ASSUME NEW table, NEW T, NEW i, table[i] \in Tables, table[i].byway, Len(table[i].names) = 0
    PROVE  ReadImport(table, T, i) \in ImportFiles /\ Shows(table[i], ReadImport(table, T, i))
<1> DEFINE f == ReadImport(table, T, i)
           e == table[i]
<1>1. f = [byway |-> TRUE, name |-> e.name, orig |-> NULL, names |-> <<>>]
  BY DEF ReadImport
<1>2. e.name \in Called /\ NULL \in Called /\ e.byway = TRUE
  BY DEF Tables, Called
<1> DEFINE name == e.name
           none == <<>>
<1>21. none \in Seq(Symbol)
  OBVIOUS
<1> HIDE DEF f, name, none, e
<1>22. f = [byway |-> TRUE, name |-> name, orig |-> NULL, names |-> none] /\ name \in Called
  BY <1>1, <1>2 DEF name, none
<1>23. f \in ImportFiles /\ f.byway = TRUE /\ f.name = name /\ f.names = none
  BY <1>2, <1>21, <1>22 DEF ImportFiles
<1>3. f \in ImportFiles /\ f.byway = TRUE /\ f.name = e.name /\ f.names = <<>>
  BY <1>23 DEF name, none
<1>4. Len(f.names) = 0
  BY <1>3
<1>5. Shows(e, f)
  <2>1. Len(e.names) = 0
    BY DEF e
  <2>2. e.byway = TRUE /\ \A n \in 1 .. 0 : FALSE
    BY <1>2
  <2> QED
    BY <1>3, <1>4, <2>1, <2>2 DEF Shows
<1> QED
  BY <1>3, <1>5 DEF e, f

\* A file is read from the table and from the original's, with the index that
\* CImage::Read has counted to.
LEMMA ReadFile ==
    ASSUME NEW table, NEW T, NEW i, NEW g \in Imported, table[i] \in Tables, ~table[i].byway,
           T[OriginalIndex(table, i)] = g, Len(table[i].names) = Len(g.names)
    PROVE  /\ ReadImport(table, T, i) \in ImportFiles /\ Shows(table[i], ReadImport(table, T, i))
           /\ FromOriginal(ReadImport(table, T, i), g)
           /\ Recalls(table[i], ReadImport(table, T, i), g)
<1> DEFINE f == ReadImport(table, T, i)
           e == table[i]
           names == [n \in DOMAIN e.names |-> ReadName(e.names[n], g.names[n])]
<1>1. f = [byway |-> FALSE, name |-> e.name, orig |-> g.name, names |-> names]
  BY DEF ReadImport
<1>2. /\ e.name \in Called /\ g.name \in Called /\ e.names \in Seq(Thunks)
      /\ g.names \in Seq(Thunks) /\ Len(e.names) = Len(g.names) /\ e.byway = FALSE
  BY DEF Tables, Imported, Thunks, Called
<1> HIDE DEF f, e
<1>3. /\ names \in Seq(Symbol) /\ Len(names) = Len(e.names)
      /\ \A n \in 1 .. Len(e.names) : ShowsName(e.names[n], g.names[n], names[n])
  BY <1>2, NamesRead
<1> DEFINE x == e.name
           y == g.name
<1> HIDE DEF names, x, y
<1>31. f = [byway |-> FALSE, name |-> x, orig |-> y, names |-> names]
  BY <1>1 DEF x, y
<1>32. x \in Called /\ y \in Called
  BY <1>2 DEF x, y
<1>33. f \in ImportFiles /\ f.byway = FALSE /\ f.name = x /\ f.orig = y /\ f.names = names
  BY <1>3, <1>31, <1>32 DEF ImportFiles
<1>4. /\ f \in ImportFiles /\ f.byway = FALSE /\ f.name = e.name /\ f.orig = g.name
      /\ f.names = names
  BY <1>33 DEF x, y
<1>40. f.byway = e.byway
  BY <1>2, <1>4
<1>5. Shows(e, f)
  BY <1>40, <1>3, <1>4 DEF Shows, ShowsName
<1>6. FromOriginal(f, g) /\ Recalls(e, f, g)
  <2>1. Len(g.names) = Len(e.names)
    BY <1>2
  <2> QED
    BY <1>3, <1>4, <2>1 DEF FromOriginal, Recalls, ShowsName
<1> QED
  BY <1>4, <1>5, <1>6 DEF e, f

\* So is every file of the table: the list is in the order of the table, and the
\* files of the original in theirs.
LEMMA ReadTable ==
    ASSUME NEW table \in Seq(Tables), NEW T \in Seq(Imported), NEW pos, Ordered(table, pos, T),
           NEW list, list = [i \in DOMAIN table |-> ReadImport(table, T, i)]
    PROVE  /\ list \in Seq(ImportFiles) /\ Shown(table, list) /\ Ordered(list, pos, T)
           /\ \A k \in 1 .. Len(T) : /\ FromOriginal(list[pos[k]], T[k])
                                     /\ Recalls(table[pos[k]], list[pos[k]], T[k])
<1> DEFINE l == Len(T)
           m == Len(table)
<1>1. /\ l \in Nat /\ m \in Nat /\ list = [i \in 1 .. m |-> ReadImport(table, T, i)]
      /\ \A i \in 1 .. m : table[i] \in Tables
      /\ \A k \in 1 .. l : T[k] \in Imported
  OBVIOUS
<1>2. /\ pos \in [1 .. l -> 1 .. m]
      /\ \A j, k \in 1 .. l : j < k => pos[j] < pos[k]
      /\ \A i \in 1 .. m : ~table[i].byway <=> \E k \in 1 .. l : pos[k] = i
      /\ \A k \in 1 .. l : Len(table[pos[k]].names) = Len(T[k].names)
      /\ \A i \in 1 .. m : table[i].byway => Len(table[i].names) = 0
  BY DEF Ordered
<1>3. \A k \in 1 .. l : OriginalIndex(table, pos[k]) = k
  BY Indexed
<1> HIDE DEF l, m
<1>6. \A i \in 1 .. m : list[i] = ReadImport(table, T, i)
  BY <1>1
<1>8. ASSUME NEW k \in 1 .. l
      PROVE  /\ list[pos[k]] \in ImportFiles /\ Shows(table[pos[k]], list[pos[k]])
             /\ FromOriginal(list[pos[k]], T[k])
             /\ Recalls(table[pos[k]], list[pos[k]], T[k])
  <2>1. pos[k] \in 1 .. m /\ ~table[pos[k]].byway
    BY <1>2
  <2>2. list[pos[k]] = ReadImport(table, T, pos[k]) /\ table[pos[k]] \in Tables
    BY <1>1, <1>6, <2>1
  <2>3. T[k] \in Imported /\ T[OriginalIndex(table, pos[k])] = T[k]
    BY <1>1, <1>3
  <2>4. Len(table[pos[k]].names) = Len(T[k].names)
    BY <1>2
  <2> QED
    BY <2>1, <2>2, <2>3, <2>4, ReadFile
<1>9. ASSUME NEW i \in 1 .. m PROVE list[i] \in ImportFiles /\ Shows(table[i], list[i])
  <2>1. CASE table[i].byway
    <3>1. list[i] = ReadImport(table, T, i) /\ table[i] \in Tables /\ Len(table[i].names) = 0
      BY <1>1, <1>2, <1>6, <2>1
    <3> QED
      BY <2>1, <3>1, ReadByway
  <2>2. CASE ~table[i].byway
    <3>1. PICK k \in 1 .. l : pos[k] = i
      BY <1>2, <2>2
    <3> QED
      BY <1>8, <3>1
  <2> QED
    BY <2>1, <2>2
<1>10. list \in Seq(ImportFiles) /\ Len(list) = m
  <2>1. \A i \in 1 .. m : list[i] \in ImportFiles
    BY <1>9
  <2>2. list = [i \in 1 .. m |-> list[i]]
    BY <1>1
  <2> QED
    BY <1>1, <2>1, <2>2
<1>11. Shown(table, list)
  BY <1>9, <1>10 DEF Shown, m
<1>12. Ordered(list, pos, T)
  <2>1. \A i \in 1 .. m : /\ list[i].byway = table[i].byway
                          /\ Len(list[i].names) = Len(table[i].names)
    BY <1>9 DEF Shows
  <2>2. \A k \in 1 .. l : Len(list[pos[k]].names) = Len(T[k].names)
    BY <1>2, <2>1
  <2>3. /\ \A i \in 1 .. m : ~list[i].byway <=> \E k \in 1 .. l : pos[k] = i
        /\ \A i \in 1 .. m : list[i].byway => Len(list[i].names) = 0
    BY <1>2, <2>1
  <2> QED
    BY <1>2, <1>10, <2>2, <2>3 DEF Ordered, l
<1> QED
  BY <1>8, <1>10, <1>11, <1>12 DEF l

\* The original tables are in their own order.
LEMMA OriginalOrder ==
    ASSUME NEW T \in Seq(Imported)
    PROVE  T \in Seq(Tables) /\ Ordered(T, [k \in 1 .. Len(T) |-> k], T)
<1> DEFINE l == Len(T)
           pos == [k \in 1 .. l |-> k]
<1>1. l \in Nat /\ \A k \in 1 .. l : T[k] \in Imported
  OBVIOUS
<1>2. \A k \in 1 .. l : T[k] \in Tables /\ ~T[k].byway
  BY <1>1 DEF Imported, Tables, Thunks, Called
<1>3. T \in Seq(Tables)
  BY <1>1, <1>2
<1>4. pos \in [1 .. l -> 1 .. l] /\ \A k \in 1 .. l : pos[k] = k
  OBVIOUS
<1> HIDE DEF pos
<1>5. Ordered(T, pos, T)
  BY <1>2, <1>4 DEF Ordered
<1> QED
  BY <1>3, <1>5 DEF pos

-----------------------------------------------------------------------------
(* The room that Write counts for the tables is the room it takes.         *)

\* Even sizes in front do not change what a size is rounded to.
LEMMA EvenIs ==
    ASSUME NEW m \in Nat, Even(m) = m, NEW n \in Nat
    PROVE  Even(m + n) = m + Even(n)
  BY DEF Even

\* A size is rounded to an even one.
LEMMA EvenOne ==
    ASSUME NEW n \in Nat
    PROVE  Even(n) \in Nat /\ Even(Even(n)) = Even(n)
  BY DEF Even

\* A function that is given a step at a time is the one that takes these steps.
LEMMA Stepwise ==
    ASSUME NEW k \in Nat, NEW f, NEW g, f[0] = g[0],
           \A n \in 1 .. k : f[n - 1] = g[n - 1] => f[n] = g[n]
    PROVE  f[k] = g[k]
<1> DEFINE S == {n \in 0 .. k : f[n] = g[n]}
<1>1. 0 \in S
  OBVIOUS
<1>2. ASSUME NEW n \in 0 .. k - 1, n \in S PROVE n + 1 \in S
  <2>1. n + 1 \in 1 .. k /\ (n + 1) - 1 = n /\ n + 1 \in 0 .. k
    OBVIOUS
  <2> QED
    BY <1>2, <2>1
<1>3. \A n \in 0 .. k : n \in S
  <2> HIDE DEF S
  <2> QED
    BY <1>1, <1>2, IntervalInduction
<1> QED
  BY <1>3

\* A sum of even sizes is even.
LEMMA SumEven ==
    ASSUME NEW k \in Nat, NEW size, IsSize(size, k), \A n \in 1 .. k : Even(size[n]) = size[n]
    PROVE  \A n \in 0 .. k : Even(SumTo(size, n)) = SumTo(size, n)
<1> DEFINE S == {n \in 0 .. k : Even(SumTo(size, n)) = SumTo(size, n)}
<1>1. 0 \in S
  BY SumSteps DEF Even
<1>2. ASSUME NEW n \in 0 .. k - 1, n \in S PROVE n + 1 \in S
  <2>1. n + 1 \in 1 .. k /\ (n + 1) - 1 = n /\ n + 1 \in 0 .. k
    OBVIOUS
  <2>2. SumTo(size, n + 1) = SumTo(size, n) + size[n + 1] /\ SumTo(size, n) \in Nat
    BY <2>1, SumSteps
  <2>3. size[n + 1] \in Nat /\ Even(size[n + 1]) = size[n + 1]
    BY <2>1 DEF IsSize
  <2>4. Even(SumTo(size, n)) = SumTo(size, n)
    BY <1>2
  <2>5. Even(SumTo(size, n) + size[n + 1]) = SumTo(size, n) + size[n + 1]
    BY <2>2, <2>3, <2>4, EvenIs
  <2> QED
    BY <2>1, <2>2, <2>5
<1>3. \A n \in 0 .. k : n \in S
  <2> HIDE DEF S
  <2> QED
    BY <1>1, <1>2, IntervalInduction
<1> QED
  BY <1>3

\* The room of a symbol's name, with its hint.
NameSize(n) == IF n.name = NULL THEN 0 ELSE Even(StrLen[n.name] + 1 + SizeofHint)

\* CharsAfter, the loop over the names of a file, adds up the rooms of its names.
LEMMA CharsAfterIs ==
    ASSUME NEW f \in ImportFiles, f.name # NULL, NEW c \in Nat, Even(c) = c
    PROVE  /\ FileChars(f) \in Nat /\ Even(FileChars(f)) = FileChars(f)
           /\ CharsAfter(f, c, SizeofHint) = c + FileChars(f)
<1> DEFINE k == Len(f.names)
           size == [n \in DOMAIN f.names |-> NameSize(f.names[n])]
           base == Even(StrLen[f.name] + 1)
           g == [n \in 0 .. k |-> c + (base + SumTo(size, n))]
           Is(at) == at = [n \in 0 .. k |->
                        IF n = 0 THEN Even(c + StrLen[f.name] + 1)
                        ELSE IF f.names[n].name = NULL THEN at[n - 1]
                        ELSE Even(at[n - 1] + SizeofHint + StrLen[f.names[n].name] + 1)]
<1> HIDE DEF size, base, g, Is
<1>0. k \in Nat /\ DOMAIN f.names = 1 .. k /\ \A n \in 1 .. k : f.names[n].name \in Called
  <2>1. f.names \in Seq(Symbol)
    BY DEF ImportFiles
  <2>2. \A n \in 1 .. k : f.names[n] \in Symbol
    BY <2>1
  <2> QED
    BY <2>1, <2>2 DEF Symbol
<1>1. StrLen[f.name] \in Nat
  BY NameAssumption DEF ImportFiles, Called
<1>2. base \in Nat /\ Even(base) = base /\ Even(c + StrLen[f.name] + 1) = c + base
  <2>1. StrLen[f.name] + 1 \in Nat /\ c + StrLen[f.name] + 1 = c + (StrLen[f.name] + 1)
    BY <1>1
  <2> QED
    BY <2>1, EvenIs, EvenOne DEF base
<1>3. ASSUME NEW n \in 1 .. k
      PROVE  /\ size[n] \in Nat /\ Even(size[n]) = size[n]
             /\ f.names[n].name = NULL => size[n] = 0
             /\ f.names[n].name # NULL =>
                    \A b \in Nat : Even(b) = b =>
                        Even(b + SizeofHint + StrLen[f.names[n].name] + 1) = b + size[n]
  <2>1. size[n] = NameSize(f.names[n])
    BY <1>0 DEF size
  <2>2. CASE f.names[n].name = NULL
    BY <2>1, <2>2 DEF NameSize, Even
  <2>3. CASE f.names[n].name # NULL
    <3>1. StrLen[f.names[n].name] \in Nat
      BY <1>0, <2>3, NameAssumption DEF Called
    <3> DEFINE s == StrLen[f.names[n].name] + 1 + SizeofHint
    <3>2. s \in Nat
      BY <3>1 DEF SizeofHint
    <3>3. size[n] = Even(s)
      BY <2>1, <2>3 DEF NameSize
    <3>4. \A b \in Nat : b + SizeofHint + StrLen[f.names[n].name] + 1 = b + s
      BY <3>1 DEF SizeofHint
    <3> HIDE DEF s
    <3>5. size[n] \in Nat /\ Even(size[n]) = size[n]
      BY <3>2, <3>3, EvenOne
    <3>6. ASSUME NEW b \in Nat, Even(b) = b
          PROVE  Even(b + SizeofHint + StrLen[f.names[n].name] + 1) = b + size[n]
      <4>1. Even(b + s) = b + Even(s)
        BY <3>2, <3>6, EvenIs
      <4> QED
        BY <3>3, <3>4, <4>1
    <3> QED
      BY <2>3, <3>5, <3>6
  <2> QED
    BY <2>2, <2>3
<1>4. IsSize(size, k)
  BY <1>3 DEF IsSize
<1>5. \A n \in 0 .. k : Even(SumTo(size, n)) = SumTo(size, n) /\ SumTo(size, n) \in Nat
  BY <1>0, <1>3, <1>4, SumEven, SumSteps
<1>6. FileChars(f) = base + SumTo(size, k)
  BY DEF FileChars, size, base, NameSize
<1>7. CharsAfter(f, c, SizeofHint) = (CHOOSE at : Is(at))[k]
  BY DEF CharsAfter, Is
<1>10. k \in 0 .. k /\ 0 \in 0 .. k
  BY <1>0
<1> HIDE DEF k
<1>8. ASSUME NEW n \in 0 .. k
      PROVE  base + SumTo(size, n) \in Nat /\ Even(base + SumTo(size, n)) = base + SumTo(size, n)
  <2>1. SumTo(size, n) \in Nat /\ Even(SumTo(size, n)) = SumTo(size, n)
    BY <1>5
  <2>2. Even(base + SumTo(size, n)) = base + Even(SumTo(size, n))
    BY <1>2, <2>1, EvenIs
  <2> QED
    BY <1>2, <2>1, <2>2
<1>9. /\ g[0] = Even(c + StrLen[f.name] + 1)
      /\ \A n \in 0 .. k : g[n] \in Nat /\ Even(g[n]) = g[n]
  <2>1. SumTo(size, 0) = 0
    BY <1>0, <1>4, SumSteps
  <2>2. g[0] = c + (base + 0)
    BY <1>10, <2>1 DEF g
  <2>3. ASSUME NEW n \in 0 .. k PROVE g[n] \in Nat /\ Even(g[n]) = g[n]
    <3> DEFINE b == base + SumTo(size, n)
    <3>1. g[n] = c + b
      BY DEF g
    <3>2. b \in Nat /\ Even(b) = b
      BY <1>8
    <3> HIDE DEF b
    <3>3. Even(c + b) = c + Even(b)
      BY <3>2, EvenIs
    <3> QED
      BY <3>1, <3>2, <3>3
  <2> QED
    BY <1>2, <2>2, <2>3
<1>11. ASSUME NEW n \in 1 .. k
       PROVE  g[n] = IF f.names[n].name = NULL THEN g[n - 1]
                     ELSE Even(g[n - 1] + SizeofHint + StrLen[f.names[n].name] + 1)
  <2>1. n - 1 \in 0 .. k /\ n \in 0 .. k
    BY <1>0
  <2>2. g[n] = c + (base + SumTo(size, n)) /\ g[n - 1] = c + (base + SumTo(size, n - 1))
    BY <2>1 DEF g
  <2>3. SumTo(size, n) = SumTo(size, n - 1) + size[n] /\ SumTo(size, n - 1) \in Nat
    BY <1>0, <1>4, <2>1, SumSteps
  <2>4. g[n] = g[n - 1] + size[n]
    BY <1>2, <1>3, <2>2, <2>3
  <2>5. g[n - 1] \in Nat /\ Even(g[n - 1]) = g[n - 1]
    BY <1>9, <2>1
  <2> QED
    BY <1>3, <2>4, <2>5
<1>12. Is(g)
  <2>1. g = [n \in 0 .. k |-> g[n]]
    BY DEF g
  <2>2. \A n \in 0 .. k : n # 0 => n \in 1 .. k
    BY <1>0
  <2> QED
    BY <1>9, <1>11, <2>1, <2>2 DEF Is
<1> DEFINE at == CHOOSE at : Is(at)
<1>13. Is(at)
  BY <1>12
<1>16. CharsAfter(f, c, SizeofHint) = at[k]
  BY <1>7
<1> HIDE DEF at
<1>14. \A n \in 0 .. k :
           at[n] = IF n = 0 THEN Even(c + StrLen[f.name] + 1)
                   ELSE IF f.names[n].name = NULL THEN at[n - 1]
                   ELSE Even(at[n - 1] + SizeofHint + StrLen[f.names[n].name] + 1)
  BY <1>13 DEF Is
<1>15. at[0] = g[0] /\ \A n \in 1 .. k : at[n - 1] = g[n - 1] => at[n] = g[n]
  <2>1. \A n \in 1 .. k : n \in 0 .. k /\ n # 0
    BY <1>0
  <2> QED
    BY <1>9, <1>10, <1>11, <1>14, <2>1
<1>17. at[k] = g[k]
  BY <1>0, <1>15, Stepwise
<1>18. g[k] = c + FileChars(f)
  BY <1>6, <1>10 DEF g
<1> QED
  BY <1>6, <1>8, <1>10, <1>16, <1>17, <1>18

\* No file has lost its name.
HasNames(imports) == \A i \in 1 .. Len(imports) : imports[i].name # NULL

\* CountChars counts at least the room that the names of the first n files take.
LEMMA CharsAre ==
    ASSUME NEW imports \in Seq(ImportFiles), HasNames(imports)
    PROVE  /\ CountChars(imports) \in Nat
           /\ \A n \in 1 .. Len(imports) : TakenChars(imports, n) <= CountChars(imports)
<1> DEFINE k == Len(imports)
           size == [i \in DOMAIN imports |-> FileChars(imports[i])]
           Is(at) == at = [n \in 0 .. k |-> IF n = 0 THEN 0
                                            ELSE CharsAfter(imports[n], at[n - 1], SizeofHint)]
           at == CHOOSE at : Is(at)
           g == [n \in 0 .. k |-> SumTo(size, n)]
<1> HIDE DEF size, Is, at, g
<1>1. k \in Nat /\ \A n \in 1 .. k : imports[n] \in ImportFiles /\ imports[n].name # NULL
  BY DEF HasNames
<1>2. \A n \in 1 .. k : size[n] = FileChars(imports[n])
  BY DEF size
<1> HIDE DEF k
<1>3. ASSUME NEW n \in 1 .. k, NEW c \in Nat, Even(c) = c
      PROVE  /\ size[n] \in Nat /\ Even(size[n]) = size[n]
             /\ CharsAfter(imports[n], c, SizeofHint) = c + size[n]
  BY <1>1, <1>2, <1>3, CharsAfterIs
<1>4. IsSize(size, k) /\ \A n \in 1 .. k : Even(size[n]) = size[n]
  <2>1. Even(0) = 0 /\ 0 \in Nat
    BY DEF Even
  <2> QED
    BY <1>3, <2>1 DEF IsSize
<1>5. \A n \in 0 .. k : Even(SumTo(size, n)) = SumTo(size, n) /\ SumTo(size, n) \in Nat
  BY <1>1, <1>4, SumEven, SumSteps
<1>6. /\ g[0] = 0
      /\ \A n \in 0 .. k : g[n] = SumTo(size, n)
  BY <1>1, <1>4, SumSteps DEF g
<1>7. ASSUME NEW n \in 1 .. k
      PROVE  g[n] = CharsAfter(imports[n], g[n - 1], SizeofHint)
  <2>1. n - 1 \in 0 .. k /\ n \in 0 .. k
    BY <1>1
  <2>2. SumTo(size, n) = SumTo(size, n - 1) + size[n]
    BY <1>1, <1>4, SumSteps
  <2> QED
    BY <1>3, <1>5, <1>6, <2>1, <2>2
<1>8. Is(g)
  <2>1. g = [n \in 0 .. k |-> g[n]]
    BY DEF g
  <2>2. \A n \in 0 .. k : n # 0 => n \in 1 .. k
    BY <1>1
  <2> QED
    BY <1>6, <1>7, <2>1, <2>2 DEF Is
<1>9. CountChars(imports) = at[k]
  BY DEF CountChars, Chars, Is, at, k
<1>10. Is(at)
  BY <1>8 DEF at
<1>11. \A n \in 0 .. k : at[n] = IF n = 0 THEN 0
                                 ELSE CharsAfter(imports[n], at[n - 1], SizeofHint)
  BY <1>10 DEF Is
<1>12. at[0] = g[0] /\ \A n \in 1 .. k : at[n - 1] = g[n - 1] => at[n] = g[n]
  <2>1. \A n \in 1 .. k : n \in 0 .. k /\ n # 0
    BY <1>1
  <2>2. 0 \in 0 .. k
    BY <1>1
  <2> QED
    BY <1>6, <1>7, <1>11, <2>1, <2>2
<1>13. at[k] = g[k]
  BY <1>1, <1>12, Stepwise
<1>14. CountChars(imports) = SumTo(size, k)
  BY <1>1, <1>6, <1>9, <1>13
<1>15. \A n \in 1 .. k : TakenChars(imports, n) = SumTo(size, n)
  BY DEF TakenChars, size
<1>16. \A n \in 1 .. k : n \in 0 .. k /\ k \in 0 .. k
  BY <1>1
<1>17. \A n \in 0 .. k : SumTo(size, n) <= SumTo(size, k)
  BY <1>1, <1>4, SumGrows
<1>18. SumTo(size, k) \in Nat
  BY <1>1, <1>5
<1> QED
  BY <1>14, <1>15, <1>16, <1>17, <1>18 DEF k

\* CountThunks does the same for the thunks.
LEMMA ThunksAre ==
    ASSUME NEW imports \in Seq(ImportFiles)
    PROVE  /\ CountThunks(imports) \in Nat
           /\ \A n \in 1 .. Len(imports) : TakenThunks(imports, n) <= CountThunks(imports)
<1> DEFINE k == Len(imports)
           size == [i \in DOMAIN imports |->
                       1 + IF imports[i].byway THEN 1 ELSE Len(imports[i].names)]
           other == [i \in DOMAIN imports |->
                       IF imports[i].byway THEN 2 ELSE Len(imports[i].names) + 1]
<1>1. k \in Nat /\ \A n \in 1 .. k : Len(imports[n].names) \in Nat /\ imports[n].byway \in BOOLEAN
  <2>1. k \in Nat /\ \A n \in 1 .. k : imports[n] \in ImportFiles
    OBVIOUS
  <2>2. \A n \in 1 .. k : imports[n].names \in Seq(Symbol) /\ imports[n].byway \in BOOLEAN
    BY <2>1 DEF ImportFiles
  <2> HIDE DEF k
  <2> QED
    BY <2>1, <2>2
<1>2. \A n \in 1 .. k : size[n] = 1 + IF imports[n].byway THEN 1 ELSE Len(imports[n].names)
  OBVIOUS
<1>3. \A n \in 1 .. k : other[n] = IF imports[n].byway THEN 2 ELSE Len(imports[n].names) + 1
  OBVIOUS
<1>9. CountThunks(imports) = SumTo(size, k)
  BY DEF CountThunks
<1>10. \A n \in 1 .. k : TakenThunks(imports, n) = SumTo(other, n)
  BY DEF TakenThunks
<1> HIDE DEF k, size, other
<1>4. IsSize(size, k) /\ \A n \in 1 .. k : other[n] = size[n]
  BY <1>1, <1>2, <1>3 DEF IsSize
<1>5. IsSize(other, k)
  BY <1>4 DEF IsSize
<1>6. SumTo(other, k) = SumTo(size, k)
  BY <1>1, <1>4, SumSame
<1>7. \A n \in 0 .. k : SumTo(other, n) <= SumTo(other, k)
  BY <1>1, <1>5, SumGrows
<1>8. SumTo(size, k) \in Nat
  BY <1>1, <1>4, SumIs
<1>11. \A n \in 1 .. k : n \in 0 .. k
  BY <1>1
<1> QED
  BY <1>6, <1>7, <1>8, <1>9, <1>10, <1>11 DEF k

\* So the tables are complete, and say what the list says.
LEMMA TableIs ==
    ASSUME NEW imports \in Seq(ImportFiles), HasNames(imports)
    PROVE  /\ Len(Table(imports)) = Len(imports) /\ Table(imports) \in Seq(Tables)
           /\ \A i \in 1 .. Len(imports) :
                 /\ Table(imports)[i] \in Tables
                 /\ Table(imports)[i].byway = imports[i].byway
                 /\ Table(imports)[i].name = imports[i].name
                 /\ Len(Table(imports)[i].names) = Len(imports[i].names)
                 /\ \A n \in 1 .. Len(imports[i].names) :
                        Table(imports)[i].names[n] = Thunk(imports[i].names[n])
<1> DEFINE t == Table(imports)
           m == Len(imports)
<1>1. ASSUME NEW i \in 1 .. m
      PROVE  /\ t[i] \in Tables /\ t[i].byway = imports[i].byway /\ t[i].name = imports[i].name
             /\ Len(t[i].names) = Len(imports[i].names)
             /\ \A n \in 1 .. Len(imports[i].names) : t[i].names[n] = Thunk(imports[i].names[n])
  <2>1. /\ TakenChars(imports, i) <= CountChars(imports)
        /\ TakenThunks(imports, i) <= CountThunks(imports)
    BY CharsAre, ThunksAre
  <2> DEFINE b == imports[i].byway
             x == imports[i].name
             names == imports[i].names
             z == [n \in DOMAIN names |-> Thunk(names[n])]
             c == Len(names)
  <2>2. t[i] = [byway |-> b, name |-> x, names |-> z]
    BY <2>1 DEF Table
  <2>3. b \in BOOLEAN /\ x \in Called /\ names \in Seq(Symbol)
    <3>1. imports[i] \in ImportFiles
      OBVIOUS
    <3> QED
      BY <3>1 DEF ImportFiles
  <2> HIDE DEF t, b, x, names
  <2>4. c \in Nat /\ z = [n \in 1 .. c |-> z[n]] /\ \A n \in 1 .. c : z[n] = Thunk(names[n])
    BY <2>3
  <2>5. \A n \in 1 .. c : z[n] \in Thunks
    <3> SUFFICES ASSUME NEW n \in 1 .. c PROVE z[n] \in Thunks
      OBVIOUS
    <3>1. names[n] \in Symbol
      BY <2>3
    <3> HIDE DEF z, c
    <3>2. names[n].name \in Called /\ names[n].nOrdinal \in Nat
      BY <3>1 DEF Symbol
    <3>3. Thunk(names[n]) \in Thunks
      BY <3>2 DEF Thunk, Thunks
    <3> QED
      BY <2>4, <3>3
  <2> HIDE DEF z, c
  <2>6. z \in Seq(Thunks) /\ Len(z) = c
    BY <2>4, <2>5, SeqIs
  <2>7. t[i] \in Tables /\ t[i].byway = b /\ t[i].name = x /\ t[i].names = z
    BY <2>2, <2>3, <2>6 DEF Tables
  <2> QED
    BY <2>4, <2>6, <2>7 DEF b, x, names, c
<1>2. m \in Nat /\ t = [i \in 1 .. m |-> t[i]]
  BY DEF Table
<1> HIDE DEF t, m
<1>3. t \in Seq(Tables) /\ Len(t) = m
  <2>1. \A i \in 1 .. m : t[i] \in Tables
    BY <1>1
  <2> QED
    BY <1>2, <2>1, SeqIs
<1> QED
  BY <1>1, <1>3 DEF t, m

-----------------------------------------------------------------------------
(* What the files and the open binary are, of the original file o.         *)

\* The headers of a file on disk, the files, and the open binaries.
EditedHeaders == [import : {"own", "detour"}, bound : Nat, size : Nat, symbols : Nat,
                  secs : Seq(Sections)]
FileStates == [lfanew : Nat, peAt : Nat, imports : Seq(Imported), debug : Nat, tailAt : Nat,
               hdr : EditedHeaders, ilonly : BOOLEAN, detour : Contents \cup {NULL}]
Images == [hdr : Headers, lfanew : Nat, extra : Nat, prePE : BOOLEAN, cbPrePE : Nat,
           imports : Seq(ImportFiles), data : Payloads \cup {NULL}]

\* No payload; and where data is when the place it is measured from has moved.
NoPayloads == [g \in Guids |-> -1]
Moved(p, from, to) == IF p > from THEN p - from + to ELSE p

\* No .detour section; or one, behind the sections of the original and before
\* the data that belongs to none, with what the original said of itself.
Untouched(o, f, want) ==
    /\ f.lfanew = o.lfanew /\ f.peAt = o.peAt /\ f.hdr = o.hdr /\ f.tailAt = o.tailAt
    /\ f.detour = NULL
    /\ want = NoPayloads

\* The file has the section s more than its original.
Appended(o, f, s) ==
    /\ s \in Sections /\ f.hdr.secs = Append(o.hdr.secs, s)
    /\ s.raw = o.tailAt /\ f.tailAt = s.raw + s.size /\ 0 < s.size
    /\ s.va = o.hdr.size /\ s.va + s.vsize <= f.hdr.size
    /\ f.detour.at = s.raw

\* It has a .detour section.
Detoured(o, f, want) ==
    /\ f.lfanew = DetoursPe /\ f.peAt = DetoursPe /\ f.hdr.import = "detour"
    /\ \E s : Appended(o, f, s)
    /\ f.detour \in Contents /\ f.detour.cbPrePE = o.lfanew /\ f.detour.lfanew = o.lfanew
    /\ f.detour.orig = [import |-> "own", bound |-> o.hdr.bound, size |-> o.hdr.size]
    /\ Listed(f.detour.payloads, want)
    /\ \E pos : Ordered(f.detour.table, pos, o.imports)

\* What a file on disk is, of its original o and the payloads it should hold.
FileInv(o, f, want) ==
    /\ f \in FileStates /\ f.imports = o.imports
    /\ f.hdr.symbols = Moved(o.hdr.symbols, o.tailAt, f.tailAt)
    /\ f.debug = Moved(o.debug, o.tailAt, f.tailAt)
    /\ Untouched(o, f, want) \/ Detoured(o, f, want)

\* What an open binary is, of the file f on disk that it has been read from.
ImgInv(o, f, i, want) ==
    /\ i \in Images /\ i.hdr = [o.hdr EXCEPT !.symbols = f.hdr.symbols]
    /\ i.lfanew = o.lfanew /\ i.cbPrePE = o.lfanew /\ i.extra = f.tailAt
    /\ i.prePE <=> HasSection(f)
    /\ Edited(i.imports, o.imports)
    /\ i.data # NULL => Listed(i.data.recs, want)

\* What a file has been written from.
OutInv(i, f) ==
    /\ HasNames(i.imports)
    /\ IF HasSection(f) THEN f.detour.table = Table(i.imports) ELSE ~NeedsSection(i.imports)

\* Of the original: everything lies before the end of its data and its image.
LEMMA OriginalEnds ==
    ASSUME NEW o \in Pristine
    PROVE  /\ FileAlign(o.tailAt) = o.tailAt /\ SectionAlign(o.hdr.size) = o.hdr.size
           /\ Len(o.hdr.secs) \in Nat \ {0}
           /\ \A n \in 1 .. Len(o.hdr.secs) :
                 /\ o.hdr.secs[n] \in Sections
                 /\ o.hdr.secs[n].raw \in Nat /\ o.hdr.secs[n].size \in Nat
                 /\ o.hdr.secs[n].va \in Nat /\ o.hdr.secs[n].vsize \in Nat
                 /\ o.hdr.secs[n].raw + o.hdr.secs[n].size <= o.tailAt
                 /\ o.hdr.secs[n].va + o.hdr.secs[n].vsize <= o.hdr.size
<1> DEFINE secs == o.hdr.secs
           k == Len(secs)
           E == o.tailAt
           V == o.hdr.size
<1>1. /\ secs \in Seq(Sections) /\ Linked(secs) /\ E \in Nat /\ V \in Nat
      /\ E = ExtraOffset(secs) /\ V = SectionAlign(SectionEnd(Last(secs)))
  BY LinkedIs
<1> HIDE DEF secs, E, V
<1>2. k \in Nat /\ k # 0 /\ DOMAIN secs = 1 .. k /\ Last(secs) = secs[k]
  BY <1>1 DEF Linked, Last
<1> HIDE DEF k
<1>3. \A n \in 1 .. k : /\ secs[n] \in Sections
                        /\ secs[n].raw \in Nat /\ secs[n].size \in Nat
                        /\ secs[n].va \in Nat /\ secs[n].vsize \in Nat
                        /\ SectionEnd(secs[n]) \in Nat
                        /\ secs[n].va + secs[n].vsize <= SectionEnd(secs[n])
  BY <1>1, SectionTyped DEF k
<1>4. \A n \in 1 .. k : secs[n].raw + secs[n].size <= E
  BY <1>1, ExtraBounds DEF k
<1>5. SectionAlign(V) = V /\ SectionEnd(secs[k]) <= V
  <2>1. SectionEnd(secs[k]) \in Nat
    BY <1>2, <1>3
  <2> QED
    BY <1>1, <1>2, <2>1, AlignedUp
<1>6. ASSUME NEW n \in 1 .. k PROVE SectionEnd(secs[n]) <= V
  <2>1. CASE n = k
    BY <1>5, <2>1
  <2>2. CASE n # k
    <3>1. k \in 1 .. k /\ n < k
      BY <1>2, <2>2
    <3>2. SectionEnd(secs[n]) <= secs[k].va
      BY <1>1, <1>2, <3>1 DEF Linked
    <3>3. secs[k].va <= SectionEnd(secs[k])
      BY <1>3, <3>1
    <3> QED
      BY <1>1, <1>3, <1>5, <3>1, <3>2, <3>3
  <2> QED
    BY <2>1, <2>2
<1>7. FileAlign(E) = E
  <2> DEFINE i == [hdr |-> o.hdr, extra |-> E]
  <2>1. i.hdr.secs = secs /\ i.extra = E /\ i.hdr.secs \in Seq(Sections) /\ i.hdr.secs = o.hdr.secs
    BY <1>1 DEF secs
  <2> HIDE DEF i
  <2>2. CopySections(i).file = E
    <3>1. CopySections(i) = [file |-> o.tailAt, virt |-> o.hdr.size, extra |-> i.extra]
      BY <1>1, <2>1, CopiedSections DEF E
    <3> QED
      BY <3>1 DEF E
  <2>3. PICK at : Copied(at, i) /\ CopySections(i) = at[k]
    BY <1>1, <2>1, CopiedIs DEF k
  <2>4. at[k] = PlaceAfter(secs[k], at[k - 1]) /\ at[k - 1] \in Places
    <3>1. k \in 1 .. Len(i.hdr.secs) /\ k - 1 \in 0 .. Len(i.hdr.secs)
      BY <1>2, <2>1 DEF k
    <3> QED
      BY <2>1, <2>3, <3>1 DEF Copied
  <2> DEFINE x == MaxOf(secs[k].raw + secs[k].size, at[k - 1].file)
  <2>5. E = FileAlign(x)
    <3> DEFINE y == MaxOf(SectionEnd(secs[k]), at[k - 1].virt)
               z == MaxOf(x, at[k - 1].extra)
    <3>1. PlaceAfter(secs[k], at[k - 1]) = AlignFileData([file |-> x, virt |-> y, extra |-> z])
      BY DEF PlaceAfter
    <3> HIDE DEF x, y, z
    <3>2. PlaceAfter(secs[k], at[k - 1])
            = [file |-> FileAlign(x), virt |-> SectionAlign(y), extra |-> z]
      BY <3>1, PlaceAligned
    <3> QED
      BY <2>2, <2>3, <2>4, <3>2
  <2>6. x \in Nat
    <3>1. secs[k].raw \in Nat /\ secs[k].size \in Nat
      BY <1>2, <1>3
    <3>2. at[k - 1].file \in Nat
      BY <2>4 DEF Places
    <3> QED
      BY <3>1, <3>2 DEF MaxOf
  <2> HIDE DEF x
  <2> QED
    BY <2>5, <2>6, AlignedUp
<1>8. ASSUME NEW n \in 1 .. k PROVE secs[n].va + secs[n].vsize <= V
  BY <1>1, <1>3, <1>6
<1> QED
  BY <1>2, <1>3, <1>4, <1>5, <1>7, <1>8 DEF secs, k, E, V

\* A section more, and without it again.
LEMMA OneMore ==
    ASSUME NEW S, NEW secs \in Seq(S), NEW s \in S
    PROVE  /\ Append(secs, s) \in Seq(S) /\ Len(Append(secs, s)) = Len(secs) + 1
           /\ \A n \in 1 .. Len(secs) : Append(secs, s)[n] = secs[n]
           /\ Append(secs, s)[Len(secs) + 1] = s
           /\ Last(Append(secs, s)) = s /\ Front(Append(secs, s)) = secs
<1>1. /\ Append(secs, s) \in Seq(S) /\ Len(Append(secs, s)) = Len(secs) + 1
      /\ \A n \in 1 .. Len(secs) : Append(secs, s)[n] = secs[n]
      /\ Append(secs, s)[Len(secs) + 1] = s
  OBVIOUS
<1>2. Last(Append(secs, s)) = s
  BY <1>1 DEF Last
<1>3. Front(Append(secs, s)) = secs
  BY DEF Front
<1> QED
  BY <1>1, <1>2, <1>3

-----------------------------------------------------------------------------
(* CImage::Read.                                                           *)

\* The header that Read restores is the original's, but for what points into the
\* data behind the sections; and Read refuses no such file.
LEMMA HeaderRead ==
    ASSUME NEW o \in Pristine, NEW want, NEW f, FileInv(o, f, want)
    PROVE  /\ OriginalHeader(f) = [o.hdr EXCEPT !.symbols = f.hdr.symbols]
           /\ OriginalHeader(f) \in Headers
           /\ ExtraOffset(f.hdr.secs) = f.tailAt /\ f.tailAt \in Nat /\ o.tailAt <= f.tailAt
           /\ Readable(f)
           /\ HasSection(f) <=> Detoured(o, f, want)
<1>1. /\ o.hdr \in Headers /\ o.hdr.secs \in Seq(Sections) /\ o.tailAt = ExtraOffset(o.hdr.secs)
      /\ o.tailAt \in Nat /\ o.peAt = o.lfanew /\ o.hdr.import = "own"
  BY LinkedIs
<1>2. f.tailAt \in Nat /\ f.hdr \in EditedHeaders
  BY DEF FileInv, FileStates
<1>3. CASE Untouched(o, f, want)
  <2>1. f.hdr = o.hdr /\ f.tailAt = o.tailAt /\ ~HasSection(f) /\ f.lfanew = f.peAt
    BY <1>1, <1>3 DEF Untouched, HasSection
  <2>2. OriginalHeader(f) = o.hdr
    BY <2>1 DEF OriginalHeader
  <2>3. o.hdr = [o.hdr EXCEPT !.symbols = f.hdr.symbols]
    BY <1>1, <2>1 DEF Headers
  <2>4. ~Detoured(o, f, want)
    BY <1>3, NullAssumption DEF Untouched, Detoured
  <2> QED
    BY <1>1, <2>1, <2>2, <2>3, <2>4 DEF Readable
<1>4. CASE Detoured(o, f, want)
  <2>1. PICK s : Appended(o, f, s)
    BY <1>4 DEF Detoured
  <2>2. HasSection(f) /\ f.lfanew = f.peAt
    BY <1>4, NullAssumption DEF Detoured, HasSection
  <2>3. /\ s \in Sections /\ f.hdr.secs = Append(o.hdr.secs, s)
        /\ s.raw = o.tailAt /\ f.tailAt = s.raw + s.size /\ f.detour.at = s.raw
        /\ s.size \in Nat
    BY <2>1 DEF Appended, Sections
  <2>4. Last(f.hdr.secs) = s /\ Front(f.hdr.secs) = o.hdr.secs
    BY <1>1, <2>3, OneMore
  <2>5. ExtraOffset(f.hdr.secs) = f.tailAt /\ o.tailAt <= f.tailAt
    <3>1. ExtraOffset(f.hdr.secs) = MaxOf(s.raw + s.size, o.tailAt)
      BY <1>1, <2>3, ExtraOfMore
    <3> QED
      BY <1>1, <2>3, <3>1 DEF MaxOf
  <2>6. Readable(f)
    BY <2>2, <2>3, <2>4 DEF Readable
  <2> DEFINE h == OriginalHeader(f)
             g == [o.hdr EXCEPT !.symbols = f.hdr.symbols]
  <2>7. h = [f.hdr EXCEPT !.secs = Front(@), !.import = f.detour.orig.import,
                          !.bound = f.detour.orig.bound, !.size = f.detour.orig.size]
    BY <2>2 DEF OriginalHeader
  <2>8. f.detour.orig = [import |-> "own", bound |-> o.hdr.bound, size |-> o.hdr.size]
    BY <1>4 DEF Detoured
  <2>9. f.detour.orig.import = "own" /\ f.detour.orig.bound = o.hdr.bound /\ f.detour.orig.size = o.hdr.size
    BY <2>8
  <2>10. DOMAIN f.hdr = {"import", "bound", "size", "symbols", "secs"}
         /\ DOMAIN o.hdr = {"import", "bound", "size", "symbols", "secs"}
    BY <1>1, <1>2 DEF EditedHeaders, Headers
  <2>11. h.import = "own" /\ h.bound = o.hdr.bound /\ h.size = o.hdr.size /\ h.secs = o.hdr.secs
         /\ h.symbols = f.hdr.symbols
    BY <2>4, <2>7, <2>9, <2>10
  <2>12. DOMAIN h = {"import", "bound", "size", "symbols", "secs"} /\ h = [c \in DOMAIN h |-> h[c]]
    BY <2>7, <2>10
  <2>13. g.import = "own" /\ g.bound = o.hdr.bound /\ g.size = o.hdr.size /\ g.secs = o.hdr.secs
         /\ g.symbols = f.hdr.symbols
    BY <1>1, <2>10
  <2>14. DOMAIN g = {"import", "bound", "size", "symbols", "secs"} /\ g = [c \in DOMAIN g |-> g[c]]
    BY <2>10
  <2>15. g \in Headers
    <3>1. f.hdr.symbols \in Nat
      BY <1>2 DEF EditedHeaders
    <3> QED
      BY <1>1, <3>1 DEF Headers
  <2> HIDE DEF h, g
  <2>16. h = g
    <3>1. \A c \in DOMAIN h : h[c] = g[c]
      BY <2>11, <2>12, <2>13
    <3> QED
      BY <2>12, <2>14, <3>1
  <2> QED
    BY <1>2, <1>4, <2>2, <2>5, <2>6, <2>15, <2>16 DEF h, g
<1> QED
  BY <1>3, <1>4 DEF FileInv

\* What the list that has been read says: what the tables of the file say, and
\* of the original what is in the original's tables.
Reads(table, list, pos, T) ==
    /\ list \in Seq(ImportFiles) /\ Shown(table, list) /\ Ordered(list, pos, T)
    /\ \A k \in 1 .. Len(T) : /\ FromOriginal(list[pos[k]], T[k])
                              /\ Recalls(table[pos[k]], list[pos[k]], T[k])

\* The list that is read, of the .detour section's table or the original's.
LEMMA ImportsRead ==
    ASSUME NEW o \in Pristine, NEW want, NEW f, FileInv(o, f, want)
    PROVE  /\ \E pos : Reads(IF HasSection(f) THEN f.detour.table ELSE o.imports,
                            ReadImports(f), pos, o.imports)
           /\ Edited(ReadImports(f), o.imports)
<1>1. o.imports \in Seq(Imported) /\ o.hdr.import = "own" /\ f.imports = o.imports
  BY LinkedIs DEF FileInv
<1>2. CASE Untouched(o, f, want)
  <2>1. ~HasSection(f) /\ f.hdr.import = "own"
    BY <1>1, <1>2 DEF Untouched, HasSection
  <2>2. ReadImports(f) = [i \in DOMAIN o.imports |-> ReadImport(o.imports, o.imports, i)]
    BY <1>1, <2>1 DEF ReadImports, Descriptors, OriginalDirectory
  <2> DEFINE T == o.imports
             pos == [k \in 1 .. Len(T) |-> k]
             list == ReadImports(f)
  <2>3. T \in Seq(Tables) /\ T \in Seq(Imported) /\ Ordered(T, pos, T)
    BY <1>1, OriginalOrder
  <2>4. list = [i \in DOMAIN T |-> ReadImport(T, T, i)]
    BY <2>2
  <2> HIDE DEF T, pos, list
  <2>5. Reads(T, list, pos, T)
    BY <2>3, <2>4, ReadTable DEF Reads
  <2>6. Edited(list, T)
    BY <2>5 DEF Edited, Reads
  <2> QED
    BY <2>1, <2>5, <2>6 DEF T, list
<1>3. CASE Detoured(o, f, want)
  <2>1. HasSection(f) /\ f.hdr.import = "detour" /\ f.detour \in Contents
        /\ f.detour.orig = [import |-> "own", bound |-> o.hdr.bound, size |-> o.hdr.size]
    BY <1>3, HeaderRead DEF Detoured
  <2>2. OriginalDirectory(f) = "own"
    BY <2>1 DEF OriginalDirectory
  <2>3. Descriptors(f, f.hdr.import) = f.detour.table /\ Descriptors(f, OriginalDirectory(f)) = o.imports
    BY <1>1, <2>1, <2>2 DEF Descriptors
  <2>4. ReadImports(f) = [i \in DOMAIN f.detour.table |-> ReadImport(f.detour.table, o.imports, i)]
    BY <2>3 DEF ReadImports
  <2>5. PICK pos : Ordered(f.detour.table, pos, o.imports)
    BY <1>3 DEF Detoured
  <2> DEFINE T == o.imports
             table == f.detour.table
             list == ReadImports(f)
  <2>6. table \in Seq(Tables) /\ T \in Seq(Imported) /\ Ordered(table, pos, T)
    BY <1>1, <2>1, <2>5 DEF Contents
  <2>7. list = [i \in DOMAIN table |-> ReadImport(table, T, i)]
    BY <2>4
  <2> HIDE DEF T, list, table
  <2>8. Reads(table, list, pos, T)
    BY <2>6, <2>7, ReadTable DEF Reads
  <2>9. Edited(list, T)
    BY <2>8 DEF Edited, Reads
  <2> QED
    BY <2>1, <2>8, <2>9 DEF T, list, table
<1> QED
  BY <1>2, <1>3 DEF FileInv

\* The payloads that are read are those that the file should hold.
LEMMA DataRead ==
    ASSUME NEW o \in Pristine, NEW want \in Wanted, NEW f, FileInv(o, f, want)
    PROVE  /\ ReadImage(f).data \in Payloads
           /\ Listed(ReadImage(f).data.recs, want)
<1> DEFINE d == ReadImage(f).data
<1>1. CASE HasSection(f)
  <2>1. Detoured(o, f, want)
    BY <1>1, HeaderRead
  <2>2. d = [recs |-> f.detour.payloads, alloc |-> 0, mapped |-> TRUE]
    BY <1>1 DEF ReadImage, ReadData
  <2>3. f.detour.payloads \in Seq(Records) /\ Listed(f.detour.payloads, want)
    BY <2>1 DEF Detoured, Contents
  <2> HIDE DEF d
  <2> QED
    BY <2>2, <2>3 DEF Payloads, d
<1>2. CASE ~HasSection(f)
  <2>1. want = NoPayloads
    BY <1>2, HeaderRead DEF FileInv, Untouched
  <2>2. d = [recs |-> <<>>, alloc |-> 0, mapped |-> FALSE]
    BY <1>2 DEF ReadImage, ReadData
  <2> DEFINE none == <<>>
  <2>3. none \in Seq(Records) /\ DOMAIN none = {}
    OBVIOUS
  <2>4. Listed(none, want)
    <3> HIDE DEF none
    <3> QED
      BY <2>1, <2>3 DEF Listed, NoPayloads
  <2> HIDE DEF d, none
  <2>5. d = [recs |-> none, alloc |-> 0, mapped |-> FALSE]
    BY <2>2 DEF none
  <2> QED
    BY <2>3, <2>4, <2>5 DEF Payloads, d
<1> QED
  BY <1>1, <1>2

\* So what Read returns is an open binary of that file.
LEMMA ReadIs ==
    ASSUME NEW o \in Pristine, NEW want \in Wanted, NEW f, FileInv(o, f, want)
    PROVE  ImgInv(o, f, ReadImage(f), want)
<1> DEFINE i == ReadImage(f)
           hdr == OriginalHeader(f)
           imports == ReadImports(f)
           lfanew == IF HasSection(f) THEN f.detour.lfanew ELSE f.lfanew
           extra == ExtraOffset(f.hdr.secs)
           prePE == HasSection(f) /\ f.detour.cbPrePE # 0
           cbPrePE == IF HasSection(f) THEN f.detour.cbPrePE ELSE QuadAlign(f.lfanew)
           data == IF HasSection(f) THEN ReadData(f.detour.payloads, TRUE)
                                    ELSE ReadData(<<>>, FALSE)
<1>1. i = [hdr |-> hdr, lfanew |-> lfanew, extra |-> extra, prePE |-> prePE,
           cbPrePE |-> cbPrePE, imports |-> imports, data |-> data]
  BY DEF ReadImage
<1>2. data = i.data
  BY DEF ReadImage
<1>3. data \in Payloads /\ Listed(data.recs, want)
  BY <1>2, DataRead
<1>4. Edited(imports, o.imports) /\ imports \in Seq(ImportFiles)
  BY ImportsRead DEF Edited
<1>5. /\ hdr \in Headers /\ hdr = [o.hdr EXCEPT !.symbols = f.hdr.symbols]
      /\ extra = f.tailAt /\ extra \in Nat
  BY HeaderRead
<1>6. o.lfanew \in Nat /\ o.lfanew # 0 /\ QuadAlign(o.lfanew) = o.lfanew
  BY LinkedIs
<1>7. lfanew = o.lfanew /\ cbPrePE = o.lfanew /\ (prePE <=> HasSection(f)) /\ prePE \in BOOLEAN
  <2>1. CASE HasSection(f)
    <3>0. Detoured(o, f, want)
      BY <2>1, HeaderRead
    <3>1. f.detour.cbPrePE = o.lfanew /\ f.detour.lfanew = o.lfanew
      BY <3>0 DEF Detoured
    <3> QED
      BY <1>6, <2>1, <3>1
  <2>2. CASE ~HasSection(f)
    <3>1. f.lfanew = o.lfanew
      BY <2>2, HeaderRead DEF FileInv, Untouched
    <3> QED
      BY <1>6, <2>2, <3>1
  <2> QED
    BY <2>1, <2>2
<1> HIDE DEF i, hdr, imports, lfanew, extra, prePE, cbPrePE, data
<1>8. /\ i \in Images /\ i.hdr = hdr /\ i.lfanew = lfanew /\ i.extra = extra /\ i.prePE = prePE
      /\ i.cbPrePE = cbPrePE /\ i.imports = imports /\ i.data = data
  BY <1>1, <1>3, <1>4, <1>5, <1>6, <1>7 DEF Images
<1>9. ImgInv(o, f, i, want)
  BY <1>3, <1>4, <1>5, <1>7, <1>8 DEF ImgInv
<1> QED
  BY <1>9 DEF i

-----------------------------------------------------------------------------
(* CImage::Write.                                                          *)

\* A .detour section has a size.
LEMMA OutputSizeIs ==
    ASSUME NEW i \in Images, i.data # NULL, HasNames(i.imports)
    PROVE  OutputSize(i) \in Nat /\ 0 < OutputSize(i)
<1> DEFINE p1 == SizeofDh
           p2 == i.cbPrePE
           p3 == SizeofThunk * CountThunks(i.imports)
           p4 == CountChars(i.imports)
           p5 == CbData(i.data)
           p6 == SizeofImport * CountTables(i.imports)
           parts == <<p1, p2, p3, p3, p4, p5, p6>>
           size == [n \in DOMAIN parts |-> AllocateOutput(parts[n])]
<1>1. i.imports \in Seq(ImportFiles) /\ i.cbPrePE \in Nat /\ i.data \in Payloads
  BY DEF Images
<1>2. p1 \in Nat /\ p1 = 64 /\ p2 \in Nat /\ p4 \in Nat
  BY <1>1, CharsAre DEF SizeofDh
<1>3. p3 \in Nat
  BY <1>1, ThunksAre DEF SizeofThunk
<1>4. p6 \in Nat
  <2>1. Len(i.imports) \in Nat
    BY <1>1
  <2> QED
    BY <2>1 DEF CountTables, SizeofImport
<1>5. p5 \in Nat
  <2> DEFINE recs == i.data.recs
             m == Len(recs)
             s == [k \in DOMAIN recs |-> recs[k].cbBytes]
  <2>1. recs \in Seq(Records)
    BY <1>1 DEF Payloads
  <2>2. p5 = SumTo(s, m)
    BY DEF CbData, Offset
  <2> HIDE DEF recs
  <2>3. m \in Nat /\ \A k \in 1 .. m : recs[k] \in Records /\ s[k] = recs[k].cbBytes
    BY <2>1
  <2> HIDE DEF s, m
  <2>4. IsSize(s, m)
    BY <2>3 DEF IsSize, Records
  <2> HIDE DEF p5
  <2> QED
    BY <2>2, <2>3, <2>4, SumIs
<1>6. OutputSize(i) = SumTo(size, 7)
  BY DEF OutputSize
<1> HIDE DEF p1, p2, p3, p4, p5, p6
<1>7. DOMAIN parts = 1 .. 7 /\ \A n \in 1 .. 7 : parts[n] \in Nat
  BY <1>2, <1>3, <1>4, <1>5
<1>8. parts[1] = 64
  BY <1>2
<1> HIDE DEF parts
<1>9. \A n \in 1 .. 7 : size[n] = QuadAlign(parts[n])
  BY <1>7 DEF AllocateOutput
<1> HIDE DEF size
<1>10. IsSize(size, 7)
  BY <1>7, <1>9, AlignedUp DEF IsSize
<1>11. SumTo(size, 7) \in Nat /\ SumTo(size, 1) <= SumTo(size, 7)
  <2>1. 7 \in Nat /\ 7 \in 0 .. 7 /\ 1 \in 0 .. 7
    OBVIOUS
  <2> QED
    BY <1>10, <2>1, SumIs, SumGrows
<1>12. SumTo(size, 1) = 64
  <2>1. 7 \in Nat /\ 1 \in 1 .. 7 /\ 1 - 1 = 0
    OBVIOUS
  <2>2. SumTo(size, 1) = SumTo(size, 0) + size[1] /\ SumTo(size, 0) = 0
    BY <1>10, <2>1, SumSteps
  <2>3. QuadAlign(64) = 64
    BY DEF QuadAlign, Align
  <2> QED
    BY <1>8, <1>9, <2>1, <2>2, <2>3
<1> QED
  BY <1>6, <1>11, <1>12

\* The section that Write adds, and where the file and the image go on.
NewSection(o, i, s) ==
    /\ s \in Sections /\ s.raw = o.tailAt /\ 0 < s.size /\ FileAlign(o.tailAt + s.size) = o.tailAt + s.size
    /\ s.va = o.hdr.size /\ s.va + s.vsize <= SectionAlign(o.hdr.size + s.vsize)

\* The new section begins where the file and the image of the original end.
LEMMA SectionIs ==
    ASSUME NEW o \in Pristine, NEW want, NEW f, FileInv(o, f, want),
           NEW keep, NEW i, ImgInv(o, f, i, keep), i.data # NULL, HasNames(i.imports)
    PROVE  /\ CopySections(i) = [file |-> o.tailAt, virt |-> o.hdr.size, extra |-> f.tailAt]
           /\ NewSection(o, i, DetourSection(i))
<1>1. i \in Images /\ i.hdr = [o.hdr EXCEPT !.symbols = f.hdr.symbols] /\ i.extra = f.tailAt
  BY DEF ImgInv
<1>2. o.hdr \in Headers /\ o.tailAt \in Nat /\ o.hdr.size \in Nat
  BY LinkedIs
<1>3. i.hdr.secs = o.hdr.secs
  BY <1>1, <1>2 DEF Headers
<1>4. f.tailAt \in Nat /\ o.tailAt <= f.tailAt
  BY HeaderRead
<1>5. CopySections(i) = [file |-> o.tailAt, virt |-> o.hdr.size, extra |-> f.tailAt]
  BY <1>1, <1>3, <1>4, CopiedSections
<1> DEFINE n == OutputSize(i)
           s == DetourSection(i)
<1>6. n \in Nat /\ 0 < n
  BY <1>1, OutputSizeIs
<1>7. s = [raw |-> o.tailAt, size |-> FileAlign(n), va |-> o.hdr.size, vsize |-> n]
  BY <1>5 DEF DetourSection
<1> HIDE DEF n, s
<1>8. FileAlign(n) \in Nat /\ n <= FileAlign(n) /\ FileAlign(FileAlign(n)) = FileAlign(n)
  BY <1>6, AlignedUp
<1>9. FileAlign(o.tailAt + FileAlign(n)) = o.tailAt + FileAlign(n)
  BY <1>2, <1>8, OriginalEnds, AlignedSum
<1>10. o.hdr.size + n <= SectionAlign(o.hdr.size + n)
  <2>1. o.hdr.size + n \in Nat
    BY <1>2, <1>6
  <2> QED
    BY <2>1, AlignedUp
<1>11. s \in Sections
  BY <1>2, <1>6, <1>7, <1>8 DEF Sections
<1>12. 0 < FileAlign(n)
  BY <1>6, <1>8
<1>13. NewSection(o, i, s)
  BY <1>7, <1>9, <1>10, <1>11, <1>12 DEF NewSection
<1> QED
  BY <1>5, <1>13 DEF s

\* The sections after CImage::Write has moved what lies behind the extra data.
FollowAll(secs, extra, adjust) ==
    [n \in DOMAIN secs |-> [secs[n] EXCEPT !.raw = Follow(@, extra, adjust)]]

\* No section is moved that begins before the data that belongs to none.
LEMMA StayPut ==
    ASSUME NEW secs \in Seq(Sections), NEW extra \in Nat, NEW adjust,
           \A n \in 1 .. Len(secs) : secs[n].raw <= extra
    PROVE  FollowAll(secs, extra, adjust) = secs
<1>1. ASSUME NEW n \in DOMAIN secs PROVE [secs[n] EXCEPT !.raw = Follow(@, extra, adjust)] = secs[n]
  <2> DEFINE s == secs[n]
  <2>1. s \in Sections /\ s.raw <= extra
    OBVIOUS
  <2> HIDE DEF s
  <2>2. s.raw \in Nat
    BY <2>1 DEF Sections
  <2>3. Follow(s.raw, extra, adjust) = s.raw
    BY <2>1, <2>2 DEF Follow
  <2>4. [s EXCEPT !.raw = Follow(@, extra, adjust)] = s
    BY <2>1, <2>3 DEF Sections
  <2> QED
    BY <2>4 DEF s
<1>2. FollowAll(secs, extra, adjust) = [n \in DOMAIN secs |-> secs[n]]
  BY <1>1 DEF FollowAll
<1> QED
  BY <1>2

\* The parts of what Write writes.
WritesTo(w, i, detours, secs, end, extra) ==
    /\ w \in FileStates /\ w.imports = file.imports
    /\ w.lfanew = IF detours THEN DetoursPe ELSE IF i.prePE THEN i.lfanew ELSE file.lfanew
    /\ w.peAt = IF detours THEN DetoursPe ELSE IF i.prePE THEN i.cbPrePE ELSE file.peAt
    /\ w.hdr.import = IF detours THEN "detour" ELSE i.hdr.import
    /\ w.hdr.bound = IF detours THEN 0 ELSE i.hdr.bound
    /\ w.hdr.size = end.virt
    /\ w.hdr.symbols = Follow(i.hdr.symbols, extra, end.file - extra)
    /\ w.hdr.secs = secs
    /\ w.debug = Follow(file.debug, extra, end.file - extra)
    /\ w.detour = IF detours THEN DetourContents(i) ELSE NULL
    /\ w.tailAt = file.tailAt + (end.file - extra)

\* Written, part by part.
LEMMA WritesIs ==
    ASSUME NEW i \in Images, file \in FileStates, NEW next \in Places, next = CopySections(i),
           NEW end \in Places, NEW secs \in Seq(Sections),
           end = IF Detouring(i)
                 THEN AlignFileData([next EXCEPT !.file = @ + DetourSection(i).size,
                                                 !.virt = @ + DetourSection(i).vsize])
                 ELSE next,
           secs = IF Detouring(i) THEN Append(i.hdr.secs, DetourSection(i)) ELSE i.hdr.secs,
           \A n \in 1 .. Len(secs) : secs[n].raw <= next.extra,
           next.extra <= file.tailAt + end.file,
           next.extra < i.hdr.symbols => next.extra <= i.hdr.symbols + end.file,
           next.extra < file.debug => next.extra <= file.debug + end.file,
           Detouring(i) => DetourContents(i) \in Contents
    PROVE  WritesTo(Written(i), i, Detouring(i), secs, end, next.extra)
<1> DEFINE detours == Detouring(i)
           extra == next.extra
           adjust == end.file - next.extra
           moved == FollowAll(secs, extra, adjust)
           lf == IF detours THEN DetoursPe ELSE IF i.prePE THEN i.lfanew ELSE file.lfanew
           pe == IF detours THEN DetoursPe ELSE IF i.prePE THEN i.cbPrePE ELSE file.peAt
           imp == IF detours THEN "detour" ELSE i.hdr.import
           bnd == IF detours THEN 0 ELSE i.hdr.bound
           sym == Follow(i.hdr.symbols, extra, adjust)
           hdr == [i.hdr EXCEPT !.import = imp, !.bound = bnd, !.size = end.virt,
                                !.symbols = sym, !.secs = moved]
           dbg == Follow(file.debug, extra, adjust)
           il == file.ilonly /\ ~NeedsSection(i.imports)
           det == IF detours THEN DetourContents(i) ELSE NULL
           tl == file.tailAt + adjust
           w == Written(i)
<1>1. w = [file EXCEPT !.lfanew = lf, !.peAt = pe, !.hdr = hdr, !.debug = dbg, !.ilonly = il,
                       !.detour = det, !.tailAt = tl]
  BY DEF Written, FollowAll
<1>2. extra \in Nat /\ end.file \in Nat /\ end.virt \in Nat
  BY DEF Places
<1>3. moved = secs
  <2>1. secs \in Seq(Sections) /\ extra \in Nat /\ \A n \in 1 .. Len(secs) : secs[n].raw <= extra
    BY <1>2
  <2> HIDE DEF extra, adjust
  <2> QED
    BY <2>1, StayPut
<1>4. /\ file.lfanew \in Nat /\ file.peAt \in Nat /\ file.imports \in Seq(Imported)
      /\ file.debug \in Nat /\ file.tailAt \in Nat /\ file.hdr \in EditedHeaders
      /\ file.ilonly \in BOOLEAN
      /\ DOMAIN file = {"lfanew", "peAt", "imports", "debug", "tailAt", "hdr", "ilonly", "detour"}
  BY DEF FileStates
<1>5. /\ i.hdr.import = "own" /\ i.hdr.bound \in Nat /\ i.hdr.symbols \in Nat
      /\ DOMAIN i.hdr = {"import", "bound", "size", "symbols", "secs"}
      /\ i.lfanew \in Nat /\ i.cbPrePE \in Nat /\ i.prePE \in BOOLEAN
  <2>1. i.hdr \in Headers /\ i.lfanew \in Nat /\ i.cbPrePE \in Nat /\ i.prePE \in BOOLEAN
    BY DEF Images
  <2> QED
    BY <2>1 DEF Headers
<1>6. /\ lf \in Nat /\ pe \in Nat /\ imp \in {"own", "detour"} /\ bnd \in Nat
      /\ det \in Contents \cup {NULL} /\ il \in BOOLEAN
  BY <1>4, <1>5 DEF DetoursPe
<1>7. sym \in Nat /\ dbg \in Nat /\ tl \in Nat
  <2> DEFINE x == i.hdr.symbols
             y == file.debug
             z == file.tailAt
             e == end.file
  <2>1. /\ x \in Nat /\ y \in Nat /\ z \in Nat /\ e \in Nat /\ extra \in Nat
        /\ adjust = e - extra /\ extra <= z + e
        /\ (extra < x => extra <= x + e) /\ (extra < y => extra <= y + e)
        /\ sym = Follow(x, extra, adjust) /\ dbg = Follow(y, extra, adjust) /\ tl = z + adjust
    BY <1>2, <1>4, <1>5
  <2> HIDE DEF x, y, z, e, extra, adjust, sym, dbg, tl
  <2> QED
    BY <2>1 DEF Follow
<1> HIDE DEF detours, extra, adjust, moved, lf, pe, imp, bnd, sym, hdr, dbg, il, det, tl, w
<1>8. /\ hdr.import = imp /\ hdr.bound = bnd /\ hdr.size = end.virt /\ hdr.symbols = sym
      /\ hdr.secs = secs
      /\ DOMAIN hdr = {"import", "bound", "size", "symbols", "secs"}
      /\ hdr = [c \in DOMAIN hdr |-> hdr[c]]
  BY <1>3, <1>5 DEF hdr
<1>9. hdr \in EditedHeaders
  BY <1>2, <1>6, <1>7, <1>8 DEF EditedHeaders
<1>10. /\ w.lfanew = lf /\ w.peAt = pe /\ w.hdr = hdr /\ w.debug = dbg /\ w.ilonly = il
       /\ w.detour = det /\ w.tailAt = tl /\ w.imports = file.imports
       /\ DOMAIN w = DOMAIN file /\ w = [c \in DOMAIN w |-> w[c]]
  BY <1>1, <1>4
<1>11. w \in FileStates
  BY <1>4, <1>6, <1>7, <1>9, <1>10 DEF FileStates
<1> QED
  BY <1>8, <1>10, <1>11 DEF WritesTo, w, lf, pe, imp, bnd, sym, dbg, det, tl, detours, extra, adjust

\* What has been moved by one file's section is moved to where the next one's
\* needs it, and back when there is none.
LEMMA MovedAgain ==
    ASSUME NEW p \in Nat, NEW o \in Nat, NEW t \in Nat, NEW e \in Nat, o <= t, o <= e
    PROVE  /\ Follow(Moved(p, o, t), t, e - t) = Moved(p, o, e)
           /\ t < Moved(p, o, t) => t <= Moved(p, o, t) + e
           /\ Moved(p, o, t) \in Nat /\ Moved(p, o, o) = p
  BY DEF Follow, Moved

\* No payload has no size.
LEMMA NothingWanted ==
    ASSUME NEW d \in Payloads, NEW want, Listed(d.recs, want), IsEmpty(d)
    PROVE  want = NoPayloads
<1> DEFINE recs == d.recs
           m == Len(recs)
           size == [k \in DOMAIN recs |-> recs[k].cbBytes]
<1>1. recs \in Seq(Records) /\ want \in Wanted
  BY DEF Payloads, Listed
<1>2. SumTo(size, m) = 0
  BY DEF IsEmpty, CbData, Offset
<1> HIDE DEF recs
<1>3. m \in Nat /\ DOMAIN recs = 1 .. m /\ \A k \in 1 .. m : recs[k] \in Records /\ size[k] = recs[k].cbBytes
  BY <1>1
<1> HIDE DEF size, m
<1>4. IsSize(size, m)
  BY <1>3 DEF IsSize, Records
<1>5. \A k \in 1 .. m : recs[k].cbBytes >= SizeofRecord
  BY <1>3 DEF Listed, recs
<1>6. m = 0
  <2> SUFFICES ASSUME m # 0 PROVE FALSE
    OBVIOUS
  <2>1. 1 \in 1 .. m /\ 1 - 1 = 0 /\ 1 \in 0 .. m /\ m \in 0 .. m
    BY <1>3
  <2>2. SumTo(size, 1) = SumTo(size, 0) + size[1] /\ SumTo(size, 0) = 0
    BY <1>3, <1>4, <2>1, SumSteps
  <2>3. SumTo(size, 1) <= SumTo(size, m)
    BY <1>3, <1>4, <2>1, SumGrows
  <2>4. size[1] >= 24
    BY <1>3, <1>5, <2>1 DEF SizeofRecord
  <2>5. size[1] \in Nat
    BY <1>4, <2>1 DEF IsSize
  <2> QED
    BY <1>2, <2>2, <2>3, <2>4, <2>5
<1>7. \A g \in Guids : want[g] = -1
  BY <1>3, <1>6 DEF Listed, recs
<1> QED
  BY <1>1, <1>7 DEF Wanted, NoPayloads

\* What a new .detour section says.
Describes(o, c, i, keep) ==
    /\ c \in Contents /\ c.at = o.tailAt /\ c.cbPrePE = o.lfanew /\ c.lfanew = o.lfanew
    /\ c.orig = [import |-> "own", bound |-> o.hdr.bound, size |-> o.hdr.size]
    /\ Listed(c.payloads, keep)
    /\ c.table = Table(i.imports)
    /\ \E pos : Ordered(c.table, pos, o.imports)

\* DetourContents says it.
LEMMA ContentsIs ==
    ASSUME NEW o \in Pristine, NEW want, NEW f, FileInv(o, f, want),
           NEW keep, NEW i, ImgInv(o, f, i, keep), i.data # NULL, HasNames(i.imports)
    PROVE  Describes(o, DetourContents(i), i, keep)
<1> DEFINE c == DetourContents(i)
           recs == i.data.recs
           t == Table(i.imports)
           orig == [import |-> i.hdr.import, bound |-> i.hdr.bound, size |-> i.hdr.size]
<1>1. /\ i \in Images /\ i.hdr = [o.hdr EXCEPT !.symbols = f.hdr.symbols]
      /\ i.lfanew = o.lfanew /\ i.cbPrePE = o.lfanew /\ Edited(i.imports, o.imports)
      /\ Listed(recs, keep) /\ i.data \in Payloads /\ i.imports \in Seq(ImportFiles)
  BY DEF ImgInv, Images
<1>2. o.hdr \in Headers /\ o.hdr.import = "own" /\ o.hdr.bound \in Nat /\ o.hdr.size \in Nat
      /\ o.lfanew \in Nat /\ o.tailAt \in Nat
  BY LinkedIs
<1>3. i.hdr.import = "own" /\ i.hdr.bound = o.hdr.bound /\ i.hdr.size = o.hdr.size
  BY <1>1, <1>2 DEF Headers
<1>4. orig = [import |-> "own", bound |-> o.hdr.bound, size |-> o.hdr.size]
      /\ orig \in [import : {"own"}, bound : Nat, size : Nat]
  BY <1>2, <1>3
<1>5. DetourSection(i).raw = o.tailAt
  BY SectionIs DEF NewSection
<1>6. c = [at |-> o.tailAt, cbPrePE |-> i.cbPrePE, lfanew |-> i.lfanew, payloads |-> recs,
           table |-> t, orig |-> orig]
  BY <1>5 DEF DetourContents
<1>7. recs \in Seq(Records)
  BY <1>1 DEF Payloads
<1>8. t \in Seq(Tables)
  BY <1>1, TableIs
<1>9. \E pos : Ordered(t, pos, o.imports)
  <2> DEFINE T == o.imports
             list == i.imports
  <2>1. PICK pos : Ordered(list, pos, T)
    BY <1>1 DEF Edited
  <2>2. /\ Len(t) = Len(list)
        /\ \A n \in 1 .. Len(list) : /\ t[n].byway = list[n].byway
                                     /\ Len(t[n].names) = Len(list[n].names)
    BY <1>1, TableIs
  <2> HIDE DEF T, list, t
  <2>3. \A k \in 1 .. Len(T) : pos[k] \in 1 .. Len(list)
    BY <2>1 DEF Ordered
  <2>4. Ordered(t, pos, T)
    BY <2>1, <2>2, <2>3 DEF Ordered
  <2> QED
    BY <2>4 DEF T
<1> HIDE DEF c, recs, t, orig
<1>10. /\ c \in Contents /\ c.at = o.tailAt /\ c.cbPrePE = o.lfanew /\ c.lfanew = o.lfanew
       /\ c.orig = orig /\ c.payloads = recs /\ c.table = t
  BY <1>1, <1>2, <1>4, <1>6, <1>7, <1>8 DEF Contents
<1> QED
  BY <1>1, <1>4, <1>9, <1>10 DEF Describes, c, recs, t

\* So what Write writes is again a file of that original: with or without a
\* .detour section before, and with or without one now.
LEMMA WrittenIs ==
    ASSUME NEW o \in Pristine, NEW want, FileInv(o, file, want),
           NEW keep, NEW i, ImgInv(o, file, i, keep), i.data # NULL, HasNames(i.imports)
    PROVE  FileInv(o, Written(i), keep) /\ OutInv(i, Written(i))
<1> DEFINE E == o.tailAt
           V == o.hdr.size
           X == file.tailAt
           next == CopySections(i)
           s == DetourSection(i)
           d == Detouring(i)
           end == IF d THEN AlignFileData([next EXCEPT !.file = @ + s.size, !.virt = @ + s.vsize])
                  ELSE next
           secs == IF d THEN Append(i.hdr.secs, s) ELSE i.hdr.secs
           w == Written(i)
<1>1. /\ i \in Images /\ i.hdr = [o.hdr EXCEPT !.symbols = file.hdr.symbols]
      /\ i.lfanew = o.lfanew /\ i.cbPrePE = o.lfanew /\ (i.prePE <=> HasSection(file))
      /\ i.data \in Payloads /\ Listed(i.data.recs, keep) /\ file \in FileStates
      /\ file.imports = o.imports
      /\ file.hdr.symbols = Moved(o.hdr.symbols, E, X) /\ file.debug = Moved(o.debug, E, X)
  BY DEF ImgInv, Images, FileInv
<1>2. /\ o.hdr \in Headers /\ o.hdr.secs \in Seq(Sections) /\ E \in Nat /\ V \in Nat
      /\ o.hdr.symbols \in Nat /\ o.debug \in Nat /\ o.hdr.import = "own" /\ o.peAt = o.lfanew
  BY LinkedIs
<1>3. /\ i.hdr.secs = o.hdr.secs /\ i.hdr.import = "own" /\ i.hdr.bound = o.hdr.bound
      /\ i.hdr.symbols = Moved(o.hdr.symbols, E, X)
  BY <1>1, <1>2 DEF Headers
<1>4. X \in Nat /\ E <= X
  BY HeaderRead
<1>5. next = [file |-> E, virt |-> V, extra |-> X] /\ NewSection(o, i, s)
  BY SectionIs
<1>6. /\ s \in Sections /\ s.raw = E /\ 0 < s.size /\ FileAlign(E + s.size) = E + s.size
      /\ s.va = V /\ s.va + s.vsize <= SectionAlign(V + s.vsize)
      /\ s.size \in Nat /\ s.vsize \in Nat
  BY <1>5 DEF NewSection, Sections
<1>7. /\ FileAlign(E) = E /\ SectionAlign(V) = V
      /\ \A n \in 1 .. Len(o.hdr.secs) : o.hdr.secs[n].raw \in Nat /\ o.hdr.secs[n].raw <= E
  <2>1. \A n \in 1 .. Len(o.hdr.secs) : /\ o.hdr.secs[n].raw \in Nat /\ o.hdr.secs[n].size \in Nat
                                        /\ o.hdr.secs[n].raw + o.hdr.secs[n].size <= E
    BY OriginalEnds
  <2>2. FileAlign(E) = E /\ SectionAlign(V) = V
    BY OriginalEnds
  <2> HIDE DEF E
  <2> QED
    BY <1>2, <2>1, <2>2
<1> DEFINE e == IF d THEN E + s.size ELSE E
           v == IF d THEN SectionAlign(V + s.vsize) ELSE V
<1> HIDE DEF E, V, X, next, s, d, w
<1>8. end = [file |-> e, virt |-> v, extra |-> X]
  <2>1. CASE d
    <3>1. [next EXCEPT !.file = @ + s.size, !.virt = @ + s.vsize]
            = [file |-> E + s.size, virt |-> V + s.vsize, extra |-> X]
      <4> DEFINE a == E + s.size
                 b == V + s.vsize
                 n == [next EXCEPT !.file = a, !.virt = b]
      <4>1. next.file = E /\ next.virt = V /\ next.extra = X /\ DOMAIN next = {"file", "virt", "extra"}
        BY <1>5
      <4> HIDE DEF a, b, end, secs, e, v
      <4>2. n.file = a /\ n.virt = b /\ n.extra = X /\ DOMAIN n = {"file", "virt", "extra"}
            /\ n = [c \in DOMAIN n |-> n[c]]
        BY <4>1
      <4> HIDE DEF n
      <4>3. n = [file |-> a, virt |-> b, extra |-> X]
        BY <4>2
      <4> QED
        BY <4>1, <4>3 DEF n, a, b
    <3>2. AlignFileData([file |-> E + s.size, virt |-> V + s.vsize, extra |-> X])
            = [file |-> FileAlign(E + s.size), virt |-> SectionAlign(V + s.vsize), extra |-> X]
      BY PlaceAligned
    <3> QED
      BY <1>6, <2>1, <3>1, <3>2
  <2>2. CASE ~d
    BY <1>5, <2>2
  <2> QED
    BY <2>1, <2>2
<1>9. e \in Nat /\ E <= e /\ v \in Nat
  <2>1. V + s.vsize \in Nat
    BY <1>2, <1>6
  <2>2. SectionAlign(V + s.vsize) \in Nat
    BY <2>1, AlignedUp
  <2> QED
    BY <1>2, <1>6, <2>2
<1> HIDE DEF e, v
<1>10. /\ secs \in Seq(Sections) /\ \A n \in 1 .. Len(secs) : secs[n].raw <= X
  <2>1. CASE d
    <3>1. secs = Append(o.hdr.secs, s)
      BY <1>3, <2>1
    <3> HIDE DEF secs
    <3>2. /\ secs \in Seq(Sections) /\ Len(secs) = Len(o.hdr.secs) + 1
          /\ \A n \in 1 .. Len(o.hdr.secs) : secs[n] = o.hdr.secs[n]
          /\ secs[Len(o.hdr.secs) + 1] = s
      BY <1>2, <1>6, <3>1, OneMore
    <3> DEFINE k == Len(o.hdr.secs)
    <3>3. k \in Nat
      BY <1>2
    <3> HIDE DEF k
    <3>4. \A n \in 1 .. k + 1 : n \in 1 .. k \/ n = k + 1
      BY <3>3
    <3>5. \A n \in 1 .. k : secs[n].raw <= X
      BY <1>2, <1>4, <1>7, <3>2 DEF k
    <3>6. secs[k + 1].raw <= X
      BY <1>4, <1>6, <3>2 DEF k
    <3> QED
      BY <3>2, <3>4, <3>5, <3>6 DEF k
  <2>2. CASE ~d
    <3>1. secs = o.hdr.secs
      BY <1>3, <2>2
    <3> HIDE DEF secs
    <3> QED
      BY <1>2, <1>4, <1>7, <3>1
  <2> QED
    BY <2>1, <2>2
<1>11. /\ Follow(Moved(o.hdr.symbols, E, X), X, e - X) = Moved(o.hdr.symbols, E, e)
       /\ Follow(Moved(o.debug, E, X), X, e - X) = Moved(o.debug, E, e)
       /\ X < Moved(o.hdr.symbols, E, X) => X <= Moved(o.hdr.symbols, E, X) + e
       /\ X < Moved(o.debug, E, X) => X <= Moved(o.debug, E, X) + e
  <2> DEFINE p == o.hdr.symbols
             q == o.debug
  <2>1. p \in Nat /\ q \in Nat /\ E \in Nat /\ X \in Nat /\ e \in Nat /\ E <= X /\ E <= e
    BY <1>2, <1>4, <1>9
  <2> HIDE DEF p, q, end, secs
  <2>2. /\ Follow(Moved(p, E, X), X, e - X) = Moved(p, E, e)
        /\ X < Moved(p, E, X) => X <= Moved(p, E, X) + e
    BY <2>1, MovedAgain
  <2>3. /\ Follow(Moved(q, E, X), X, e - X) = Moved(q, E, e)
        /\ X < Moved(q, E, X) => X <= Moved(q, E, X) + e
    BY <2>1, MovedAgain
  <2> QED
    BY <2>2, <2>3 DEF p, q
<1>12. next \in Places /\ end \in Places /\ next.extra = X /\ end.file = e /\ end.virt = v
  <2> HIDE DEF end
  <2> QED
    BY <1>2, <1>4, <1>5, <1>8, <1>9 DEF Places
<1>30. Describes(o, DetourContents(i), i, keep)
  BY ContentsIs
<1>13. DetourContents(i) \in Contents
  BY <1>30 DEF Describes
<1>14. WritesTo(w, i, d, secs, end, X)
  <2>1. /\ end = IF Detouring(i)
                 THEN AlignFileData([next EXCEPT !.file = @ + DetourSection(i).size,
                                                 !.virt = @ + DetourSection(i).vsize])
                 ELSE next
        /\ secs = IF Detouring(i) THEN Append(i.hdr.secs, DetourSection(i)) ELSE i.hdr.secs
        /\ next = CopySections(i)
    BY DEF next, d, s
  <2>2. /\ next.extra <= file.tailAt + end.file
        /\ next.extra < i.hdr.symbols => next.extra <= i.hdr.symbols + end.file
        /\ next.extra < file.debug => next.extra <= file.debug + end.file
    <3>1. X <= X + e
      BY <1>4, <1>9
    <3> QED
      BY <1>1, <1>3, <1>11, <1>12, <3>1 DEF X
  <2> HIDE DEF secs, end
  <2>3. WritesTo(Written(i), i, Detouring(i), secs, end, next.extra)
    BY <1>1, <1>10, <1>12, <1>13, <2>1, <2>2, WritesIs
  <2> QED
    BY <1>12, <2>3 DEF w, d
<1> HIDE DEF end, secs
<1>15. /\ w \in FileStates /\ w.imports = o.imports
       /\ w.hdr.symbols = Moved(o.hdr.symbols, E, w.tailAt) /\ w.debug = Moved(o.debug, E, w.tailAt)
       /\ w.tailAt = e /\ w.hdr.size = v /\ w.hdr.secs = secs
  <2>1. /\ w \in FileStates /\ w.imports = o.imports /\ w.hdr.size = v /\ w.hdr.secs = secs
        /\ w.hdr.symbols = Follow(Moved(o.hdr.symbols, E, X), X, e - X)
        /\ w.debug = Follow(Moved(o.debug, E, X), X, e - X)
        /\ w.tailAt = X + (e - X)
    BY <1>1, <1>3, <1>12, <1>14 DEF WritesTo, X
  <2>2. X + (e - X) = e
    BY <1>4, <1>9
  <2> QED
    BY <1>11, <2>1, <2>2
<1>16. CASE d
  <2>1. /\ w.lfanew = DetoursPe /\ w.peAt = DetoursPe /\ w.hdr.import = "detour"
        /\ w.detour = DetourContents(i)
    BY <1>14, <1>16 DEF WritesTo
  <2>2. Appended(o, w, s)
    <3>1. w.hdr.secs = Append(o.hdr.secs, s) /\ w.tailAt = s.raw + s.size
      BY <1>3, <1>6, <1>15, <1>16 DEF secs, e
    <3>2. s.va + s.vsize <= w.hdr.size
      BY <1>6, <1>15, <1>16 DEF v
    <3>3. w.detour.at = s.raw
      <4>1. DetourContents(i).at = o.tailAt
        BY <1>30 DEF Describes
      <4> QED
        BY <1>6, <2>1, <4>1 DEF E
    <3> QED
      BY <1>6, <3>1, <3>2, <3>3 DEF Appended, E, V
  <2>3. Detoured(o, w, keep)
    <3> DEFINE c == w.detour
    <3>1. /\ c \in Contents /\ c.cbPrePE = o.lfanew /\ c.lfanew = o.lfanew
          /\ c.orig = [import |-> "own", bound |-> o.hdr.bound, size |-> o.hdr.size]
          /\ Listed(c.payloads, keep) /\ \E pos : Ordered(c.table, pos, o.imports)
      BY <1>30, <2>1 DEF Describes
    <3> QED
      BY <2>1, <2>2, <3>1 DEF Detoured
  <2>4. FileInv(o, w, keep)
    BY <1>15, <2>3 DEF FileInv, E
  <2>5. HasSection(w) /\ w.detour.table = Table(i.imports)
    <3>1. DetourContents(i).table = Table(i.imports)
      BY <1>30 DEF Describes
    <3> QED
      BY <1>13, <2>1, <3>1, NullAssumption DEF HasSection
  <2> QED
    BY <2>4, <2>5 DEF OutInv, w
<1>17. CASE ~d
  <2>1. ~NeedsSection(i.imports) /\ IsEmpty(i.data)
    BY <1>17 DEF d, Detouring
  <2>2. keep = NoPayloads
    BY <1>1, <2>1, NothingWanted
  <2>3. w.lfanew = o.lfanew /\ w.peAt = o.peAt /\ w.detour = NULL
    <3>1. /\ w.lfanew = IF i.prePE THEN i.lfanew ELSE file.lfanew
          /\ w.peAt = IF i.prePE THEN i.cbPrePE ELSE file.peAt
          /\ w.detour = NULL
      BY <1>14, <1>17 DEF WritesTo
    <3>2. CASE i.prePE
      BY <1>1, <1>2, <3>1, <3>2
    <3>3. CASE ~i.prePE
      <4>1. ~HasSection(file)
        BY <1>1, <3>3
      <4>2. Untouched(o, file, want)
        BY <4>1, HeaderRead DEF FileInv
      <4> QED
        BY <3>1, <3>3, <4>2 DEF Untouched
    <3> QED
      BY <3>2, <3>3
  <2>4. w.tailAt = E /\ w.hdr.size = V /\ w.hdr.secs = o.hdr.secs
    BY <1>3, <1>15, <1>17 DEF e, v, secs
  <2>5. w.hdr.import = "own" /\ w.hdr.bound = o.hdr.bound
    BY <1>3, <1>14, <1>17 DEF WritesTo
  <2>6. w.hdr.symbols = o.hdr.symbols
    <3>1. Moved(o.hdr.symbols, E, E) = o.hdr.symbols
      BY <1>2 DEF Moved
    <3> QED
      BY <1>15, <2>4, <3>1
  <2>7. w.hdr = o.hdr
    <3> DEFINE g == w.hdr
               h == o.hdr
    <3>1. g \in EditedHeaders
      BY <1>15 DEF FileStates
    <3>2. /\ g.import = h.import /\ g.bound = h.bound /\ g.size = h.size /\ g.symbols = h.symbols
          /\ g.secs = h.secs /\ h \in Headers
      BY <1>2, <2>4, <2>5, <2>6 DEF V
    <3> HIDE DEF g, h
    <3>3. g = h
      BY <3>1, <3>2 DEF EditedHeaders, Headers
    <3> QED
      BY <3>3 DEF g, h
  <2>8. Untouched(o, w, keep)
    BY <2>2, <2>3, <2>4, <2>7 DEF Untouched, E
  <2>9. FileInv(o, w, keep)
    BY <1>15, <2>8 DEF FileInv, E
  <2> QED
    BY <2>1, <2>3, <2>9 DEF OutInv, HasSection, w
<1> QED
  BY <1>16, <1>17

-----------------------------------------------------------------------------
(* The steps keep what the files and the open binary are.                  *)

\* The inductive invariant: the file on disk, the open binary and the file just
\* written all come from the file that was linked.
Inv ==
    /\ first \in Pristine /\ kept \in Wanted /\ stored \in Wanted
    /\ FileInv(first, file, stored)
    /\ pc = "closed" => img = NULL
    /\ pc # "closed" => ImgInv(first, file, img, kept)
    /\ pc = "editing" => cursor \in 1 .. Len(img.imports) + 1
    /\ pc = "written" => FileInv(first, out, kept) /\ OutInv(img, out)

\* A linked file.
LEMMA InitInv ==
    ASSUME Init PROVE Inv
<1>1. first \in Pristine /\ file = first /\ pc = "closed" /\ img = NULL
      /\ kept = NoPayloads /\ stored = NoPayloads
  BY DEF Init, NoPayloads
<1>2. NoPayloads \in Wanted
  BY DEF NoPayloads, Wanted
<1>3. FileInv(first, first, NoPayloads)
  <2>1. first \in LinkedFiles
    BY <1>1, PristineAssumption
  <2>2. first.hdr \in EditedHeaders /\ first.detour = NULL
    BY <2>1 DEF LinkedFiles, Headers, EditedHeaders
  <2>3. first \in FileStates
    BY <2>1, <2>2 DEF LinkedFiles, FileStates
  <2>4. Moved(first.hdr.symbols, first.tailAt, first.tailAt) = first.hdr.symbols
        /\ Moved(first.debug, first.tailAt, first.tailAt) = first.debug
    BY <1>1, LinkedIs DEF Moved
  <2>5. Untouched(first, first, NoPayloads)
    BY <2>2 DEF Untouched
  <2> QED
    BY <2>3, <2>4, <2>5 DEF FileInv
<1> QED
  BY <1>1, <1>2, <1>3 DEF Inv

\* An open binary with another import list.
WithList(i, list) == [i EXCEPT !.imports = list]

\* Another list of the same original does not disturb it,
LEMMA ListChanged ==
    ASSUME NEW o, NEW f, NEW i, NEW want, ImgInv(o, f, i, want), NEW list, Edited(list, o.imports)
    PROVE  ImgInv(o, f, WithList(i, list), want) /\ WithList(i, list).imports = list
<1>1. i \in Images /\ list \in Seq(ImportFiles)
  BY DEF ImgInv, Edited
<1> DEFINE n == WithList(i, list)
<1>2. /\ n \in Images /\ n.imports = list /\ n.hdr = i.hdr /\ n.lfanew = i.lfanew
      /\ n.cbPrePE = i.cbPrePE /\ n.extra = i.extra /\ n.prePE = i.prePE /\ n.data = i.data
  BY <1>1 DEF Images, WithList
<1> HIDE DEF n
<1>3. ImgInv(o, f, n, want)
  BY <1>2 DEF ImgInv
<1> QED
  BY <1>2, <1>3 DEF n

\* nor do other payloads.
LEMMA DataChanged ==
    ASSUME NEW o, NEW f, NEW i, NEW want, ImgInv(o, f, i, want),
           NEW d \in Payloads, NEW keep, Listed(d.recs, keep)
    PROVE  ImgInv(o, f, [i EXCEPT !.data = d], keep)
<1>1. i \in Images
  BY DEF ImgInv
<1> DEFINE n == [i EXCEPT !.data = d]
<1>2. /\ n \in Images /\ n.imports = i.imports /\ n.hdr = i.hdr /\ n.lfanew = i.lfanew
      /\ n.cbPrePE = i.cbPrePE /\ n.extra = i.extra /\ n.prePE = i.prePE /\ n.data = d
  BY <1>1 DEF Images
<1> HIDE DEF n
<1>3. ImgInv(o, f, n, keep)
  BY <1>2 DEF ImgInv
<1> QED
  BY <1>3 DEF n

\* DetourBinaryOpen.
LEMMA OpenInv ==
    ASSUME Inv, Open PROVE Inv'
<1>1. /\ pc = "closed" /\ pc' = "open" /\ kept' = stored
      /\ first' = first /\ file' = file /\ stored' = stored
      /\ img' = ReadImage(file) \/ img' = [ReadImage(file) EXCEPT !.data = NULL]
  BY DEF Open
<1>2. first \in Pristine /\ stored \in Wanted /\ FileInv(first, file, stored)
  BY DEF Inv
<1> DEFINE i == ReadImage(file)
           n == [i EXCEPT !.data = NULL]
<1>3. ImgInv(first, file, i, stored)
  BY <1>2, ReadIs
<1> HIDE DEF i
<1>4. ImgInv(first, file, n, stored)
  <2>1. i \in Images
    BY <1>3 DEF ImgInv
  <2>2. /\ n \in Images /\ n.imports = i.imports /\ n.hdr = i.hdr /\ n.lfanew = i.lfanew
        /\ n.cbPrePE = i.cbPrePE /\ n.extra = i.extra /\ n.prePE = i.prePE /\ n.data = NULL
    BY <2>1 DEF Images
  <2> HIDE DEF n
  <2> QED
    BY <1>3, <2>2 DEF ImgInv
<1>5. ImgInv(first, file, img', stored)
  BY <1>1, <1>3, <1>4 DEF i
<1> QED
  BY <1>1, <1>2, <1>5 DEF Inv

\* DetourBinaryClose, with the file on disk or the one written in its place.
LEMMA CloseInv ==
    ASSUME Inv, Close PROVE Inv'
  BY DEF Inv, Close

\* Two kinds of steps leave the files alone.
Editing == /\ first' = first /\ file' = file /\ stored' = stored /\ kept' = kept
           /\ pc \in {"open", "editing"} /\ pc' \in {"open", "editing"}
           /\ Edited(img'.imports, first.imports) /\ ImgInv(first, file, img', kept)
           /\ pc' = "editing" => cursor' \in 1 .. Len(img'.imports) + 1

\* They keep the invariant.
LEMMA EditingInv ==
    ASSUME Inv, Editing PROVE Inv'
  BY DEF Inv, Editing

\* An open binary has a list of imports that comes from the original.
LEMMA OpenIs ==
    ASSUME Inv, pc # "closed"
    PROVE  /\ first \in Pristine /\ ImgInv(first, file, img, kept) /\ img \in Images
           /\ Edited(img.imports, first.imports) /\ first.imports \in Seq(Imported)
           /\ img.imports \in Seq(ImportFiles)
  BY LinkedIs DEF Inv, ImgInv, Edited

\* DetourBinaryEditImports, before its first file and behind its last.
LEMMA BeginInv ==
    ASSUME Inv, BeginEdit \/ EndEdit PROVE Inv'
<1>1. /\ pc \in {"open", "editing"} /\ pc' \in {"open", "editing"} /\ img' = img
      /\ first' = first /\ file' = file /\ stored' = stored /\ kept' = kept
      /\ pc' = "editing" => cursor' = 1
  BY DEF BeginEdit, EndEdit
<1>2. Edited(img.imports, first.imports) /\ ImgInv(first, file, img, kept)
      /\ img.imports \in Seq(ImportFiles)
  BY <1>1, OpenIs
<1>3. 1 \in 1 .. Len(img.imports) + 1
  BY <1>2
<1>4. Editing
  BY <1>1, <1>2, <1>3 DEF Editing
<1> QED
  BY <1>4, EditingInv

\* One file of the list has been changed.
WithFile(i, c, g) == [i EXCEPT !.imports = [i.imports EXCEPT ![c] = g]]

\* It keeps the invariant, whether the edit goes on or fails there.
LEMMA OneInv ==
    ASSUME Inv, pc = "editing", cursor \in 1 .. Len(img.imports),
           NEW g, Kin(img.imports[cursor], g),
           img' = WithFile(img, cursor, g),
           \/ pc' = "editing" /\ cursor' = cursor + 1
           \/ pc' = "open",
           first' = first /\ file' = file /\ stored' = stored /\ kept' = kept
    PROVE  Inv'
<1> DEFINE list == [img.imports EXCEPT ![cursor] = g]
<1>1. /\ first \in Pristine /\ ImgInv(first, file, img, kept) /\ img \in Images
      /\ Edited(img.imports, first.imports) /\ first.imports \in Seq(Imported)
      /\ img.imports \in Seq(ImportFiles)
  BY OpenIs
<1>2. Edited(list, first.imports)
  BY <1>1, EditedOne
<1>3. Len(list) = Len(img.imports) /\ Len(img.imports) \in Nat
  BY <1>1
<1> HIDE DEF list
<1>4. ImgInv(first, file, img', kept) /\ img'.imports = list
  <2>1. img' = WithList(img, list)
    BY DEF list, WithList, WithFile
  <2> QED
    BY <1>1, <1>2, <2>1, ListChanged
<1>5. pc' = "editing" => cursor' \in 1 .. Len(img'.imports) + 1
  BY <1>3, <1>4
<1>6. Editing
  BY <1>2, <1>4, <1>5 DEF Editing
<1> QED
  BY <1>6, EditingInv

\* A file with another name comes from the same original.
LEMMA Named ==
    ASSUME NEW f \in ImportFiles, NEW name \in Called
    PROVE  Kin(f, [f EXCEPT !.name = name])
  BY DEF ImportFiles, Kin

\* A byway is put in.
LEMMA InsertInv ==
    ASSUME Inv, InsertByway PROVE Inv'
<1>1. PICK name \in Names : img' = [img EXCEPT !.imports = InsertAt(@, cursor, NewByway(name))]
  BY DEF InsertByway
<1>2. /\ pc = "editing" /\ pc' = pc /\ cursor' = cursor + 1
      /\ first' = first /\ file' = file /\ stored' = stored /\ kept' = kept
  BY DEF InsertByway
<1> DEFINE e == NewByway(name)
           list == InsertAt(img.imports, cursor, e)
<1>3. /\ first \in Pristine /\ ImgInv(first, file, img, kept) /\ img \in Images
      /\ Edited(img.imports, first.imports) /\ first.imports \in Seq(Imported)
      /\ img.imports \in Seq(ImportFiles)
  BY <1>2, OpenIs
<1>4. cursor \in 1 .. Len(img.imports) + 1 /\ Len(img.imports) \in Nat
  BY <1>2, <1>3 DEF Inv
<1>5. e \in ImportFiles /\ e.byway /\ Len(e.names) = 0
  <2> DEFINE none == <<>>
  <2>1. none \in Seq(Symbol) /\ Len(none) = 0
    OBVIOUS
  <2>2. e = [byway |-> TRUE, name |-> name, orig |-> NULL, names |-> none]
    BY DEF NewByway
  <2>3. name \in Called /\ NULL \in Called
    BY NameAssumption DEF Called
  <2> HIDE DEF e, none
  <2> QED
    BY <2>1, <2>2, <2>3 DEF ImportFiles
<1> HIDE DEF e
<1>6. Edited(list, first.imports) /\ Len(list) = Len(img.imports) + 1
  BY <1>3, <1>4, <1>5, EditedByway
<1> HIDE DEF list
<1>7. ImgInv(first, file, img', kept) /\ img'.imports = list
  <2>1. img' = WithList(img, list)
    BY <1>1 DEF list, e, WithList
  <2> QED
    BY <1>3, <1>6, <2>1, ListChanged
<1>8. cursor' \in 1 .. Len(img'.imports) + 1
  BY <1>2, <1>4, <1>6, <1>7
<1>9. Editing
  BY <1>2, <1>6, <1>7, <1>8 DEF Editing
<1> QED
  BY <1>9, EditingInv

\* A byway is kept, renamed or taken out.
LEMMA VisitBywayInv ==
    ASSUME Inv, VisitByway PROVE Inv'
<1>1. /\ pc = "editing" /\ cursor \in DOMAIN img.imports /\ img.imports[cursor].byway
      /\ first' = first /\ file' = file /\ stored' = stored /\ kept' = kept
  BY DEF VisitByway
<1>2. /\ first \in Pristine /\ ImgInv(first, file, img, kept) /\ img \in Images
      /\ Edited(img.imports, first.imports) /\ first.imports \in Seq(Imported)
      /\ img.imports \in Seq(ImportFiles)
  BY <1>1, OpenIs
<1>3. cursor \in 1 .. Len(img.imports) /\ Len(img.imports) \in Nat /\ img.imports[cursor] \in ImportFiles
  BY <1>1, <1>2
<1>4. Names \subseteq Called /\ NULL \in Called
  BY NameAssumption DEF Called
<1>5. ASSUME NEW name \in Called, img' = [img EXCEPT !.imports[cursor].name = name],
             \/ pc' = "editing" /\ cursor' = cursor + 1
             \/ pc' = "open"
      PROVE  Inv'
  <2> DEFINE g == [img.imports[cursor] EXCEPT !.name = name]
  <2>1. Kin(img.imports[cursor], g)
    BY <1>3, Named
  <2>2. img' = WithFile(img, cursor, g)
    BY <1>5 DEF WithFile
  <2> HIDE DEF g
  <2> QED
    BY <1>1, <1>3, <1>5, <2>1, <2>2, OneInv
<1>6. ASSUME img' = [img EXCEPT !.imports = RemoveAt(@, cursor)], cursor' = cursor, pc' = pc
      PROVE  Inv'
  <2> DEFINE list == RemoveAt(img.imports, cursor)
  <2>1. Edited(list, first.imports) /\ Len(list) = Len(img.imports) - 1
    BY <1>1, <1>2, <1>3, EditedWithout
  <2> HIDE DEF list
  <2>2. img' = WithList(img, list)
    BY <1>6 DEF list, WithList
  <2>3. ImgInv(first, file, img', kept) /\ img'.imports = list
    BY <1>2, <2>1, <2>2, ListChanged
  <2>4. cursor' \in 1 .. Len(img'.imports) + 1
    BY <1>3, <1>6, <2>1, <2>3
  <2>5. Editing
    BY <1>1, <1>6, <2>1, <2>3, <2>4 DEF Editing
  <2> QED
    BY <2>5, EditingInv
<1>7. \/ \E name \in Names : /\ img' = [img EXCEPT !.imports[cursor].name = name]
                             /\ cursor' = cursor + 1 /\ pc' = pc
      \/ img' = [img EXCEPT !.imports = RemoveAt(@, cursor)] /\ cursor' = cursor /\ pc' = pc
      \/ img' = [img EXCEPT !.imports[cursor].name = NULL] /\ pc' = "open"
  BY DEF VisitByway
<1> QED
  BY <1>1, <1>4, <1>5, <1>6, <1>7

\* A file and its symbols are visited.
LEMMA VisitFileInv ==
    ASSUME Inv, VisitFile PROVE Inv'
<1>1. /\ pc = "editing" /\ cursor \in DOMAIN img.imports /\ cursor' = cursor + 1 /\ pc' = pc
      /\ first' = first /\ file' = file /\ stored' = stored /\ kept' = kept
  BY DEF VisitFile, AtFile
<1>2. img.imports \in Seq(ImportFiles)
  BY <1>1, OpenIs
<1>3. cursor \in 1 .. Len(img.imports) /\ img.imports[cursor] \in ImportFiles
  BY <1>1, <1>2
<1>4. PICK g \in Changed(img.imports[cursor], Len(img.imports[cursor].names)) :
          img' = [img EXCEPT !.imports[cursor] = g]
  BY DEF VisitFile
<1>5. Len(img.imports[cursor].names) \in 0 .. Len(img.imports[cursor].names)
  BY <1>3 DEF ImportFiles
<1>6. Kin(img.imports[cursor], g)
  BY <1>3, <1>5, ChangedKin
<1>7. img' = WithFile(img, cursor, g)
  BY <1>4 DEF WithFile
<1> QED
  BY <1>1, <1>3, <1>6, <1>7, OneInv

\* A symbol that loses its name keeps its original's.
LEMMA Unnamed ==
    ASSUME NEW f \in ImportFiles, NEW k \in 1 .. Len(f.names)
    PROVE  Kin(f, [f EXCEPT !.names[k] = [@ EXCEPT !.name = NULL, !.nOrdinal = 0]])
<1> DEFINE s == f.names[k]
           t == [s EXCEPT !.name = NULL, !.nOrdinal = 0]
           names == [f.names EXCEPT ![k] = t]
           g == [f EXCEPT !.names = names]
<1>1. f.names \in Seq(Symbol) /\ s \in Symbol /\ NULL \in Called
  BY DEF ImportFiles, Called
<1>2. t \in Symbol /\ t.orig = s.orig
  <2> HIDE DEF s
  <2>1. s.name \in Called /\ s.orig \in Called /\ s.nOrdinal \in Nat /\ s.nOrig \in Nat
        /\ DOMAIN s = {"name", "orig", "nOrdinal", "nOrig"}
    BY <1>1 DEF Symbol
  <2>2. /\ t.name = NULL /\ t.nOrdinal = 0 /\ t.orig = s.orig /\ t.nOrig = s.nOrig
        /\ DOMAIN t = {"name", "orig", "nOrdinal", "nOrig"} /\ t = [c \in DOMAIN t |-> t[c]]
    BY <2>1
  <2> HIDE DEF t
  <2> QED
    BY <1>1, <2>1, <2>2 DEF Symbol
<1> HIDE DEF t
<1>3. names \in Seq(Symbol) /\ Len(names) = Len(f.names)
      /\ \A n \in 1 .. Len(f.names) : names[n].orig = f.names[n].orig
  BY <1>1, <1>2
<1> HIDE DEF names
<1>4. /\ g \in ImportFiles /\ g.byway = f.byway /\ g.orig = f.orig /\ g.names = names
  BY <1>3 DEF ImportFiles
<1>5. g = [f EXCEPT !.names[k] = [@ EXCEPT !.name = NULL, !.nOrdinal = 0]]
  BY DEF g, names, t, s
<1> HIDE DEF g
<1>6. Kin(f, g)
  BY <1>3, <1>4 DEF Kin
<1> QED
  BY <1>5, <1>6

\* Two changes of a file are one.
LEMMA KinOfKin ==
    ASSUME NEW f, NEW g, Kin(f, g), NEW h, Kin(g, h)
    PROVE  Kin(f, h)
  BY DEF Kin

\* An allocation of the edit fails.
LEMMA FailEditInv ==
    ASSUME Inv, FailEdit PROVE Inv'
<1>1. /\ pc = "editing" /\ pc' = "open"
      /\ first' = first /\ file' = file /\ stored' = stored /\ kept' = kept
  BY DEF FailEdit
<1>2. /\ first \in Pristine /\ ImgInv(first, file, img, kept) /\ img \in Images
      /\ Edited(img.imports, first.imports) /\ img.imports \in Seq(ImportFiles)
  BY <1>1, OpenIs
<1>3. CASE img' = img
  <2>1. Editing
    BY <1>1, <1>2, <1>3 DEF Editing
  <2> QED
    BY <2>1, EditingInv
<1>4. ASSUME AtFile
      PROVE  cursor \in 1 .. Len(img.imports) /\ img.imports[cursor] \in ImportFiles
  BY <1>2, <1>4 DEF AtFile
<1>5. CASE AtFile /\ img' = [img EXCEPT !.imports[cursor].name = NULL]
  <2> DEFINE g == [img.imports[cursor] EXCEPT !.name = NULL]
  <2>1. Kin(img.imports[cursor], g)
    <3>1. NULL \in Called
      BY DEF Called
    <3> QED
      BY <1>4, <1>5, <3>1, Named
  <2>2. img' = WithFile(img, cursor, g)
    BY <1>5 DEF WithFile
  <2> HIDE DEF g
  <2> QED
    BY <1>1, <1>4, <1>5, <2>1, <2>2, OneInv
<1>6. ASSUME AtFile, NEW k \in DOMAIN img.imports[cursor].names,
             NEW f \in Changed(img.imports[cursor], k - 1),
             img' = [img EXCEPT !.imports[cursor] = [f EXCEPT
                        !.names[k] = [@ EXCEPT !.name = NULL, !.nOrdinal = 0]]]
      PROVE  Inv'
  <2> DEFINE e == img.imports[cursor]
             g == [f EXCEPT !.names[k] = [@ EXCEPT !.name = NULL, !.nOrdinal = 0]]
  <2>1. e \in ImportFiles /\ k \in 1 .. Len(e.names) /\ k - 1 \in 0 .. Len(e.names)
        /\ cursor \in 1 .. Len(img.imports)
    BY <1>4, <1>6 DEF ImportFiles
  <2>2. img' = WithFile(img, cursor, g)
    BY <1>6 DEF WithFile
  <2>3. Kin(e, f)
    BY <2>1, ChangedKin
  <2> HIDE DEF e
  <2>4. f \in ImportFiles /\ k \in 1 .. Len(f.names)
    BY <2>1, <2>3 DEF Kin
  <2>5. Kin(f, g)
    BY <2>4, Unnamed
  <2> HIDE DEF g
  <2>6. Kin(e, g)
    BY <2>3, <2>5, KinOfKin
  <2> QED
    BY <1>1, <2>1, <2>2, <2>6, OneInv DEF e
<1>7. \/ img' = img
      \/ AtFile /\ img' = [img EXCEPT !.imports[cursor].name = NULL]
      \/ /\ AtFile
         /\ \E k \in DOMAIN img.imports[cursor].names :
            \E f \in Changed(img.imports[cursor], k - 1) :
                img' = [img EXCEPT !.imports[cursor] = [f EXCEPT
                           !.names[k] = [@ EXCEPT !.name = NULL, !.nOrdinal = 0]]]
  BY DEF FailEdit
<1> QED
  BY <1>3, <1>5, <1>6, <1>7

\* DetourBinaryResetImports.
LEMMA ResetInv ==
    ASSUME Inv, ResetImports PROVE Inv'
<1> DEFINE files == FilesOf(img.imports)
           list == [i \in DOMAIN files |-> ResetFile(files[i])]
<1>1. /\ pc = "open" /\ pc' = pc /\ img' = [img EXCEPT !.imports = list]
      /\ first' = first /\ file' = file /\ stored' = stored /\ kept' = kept
  BY DEF ResetImports
<1>2. /\ first \in Pristine /\ ImgInv(first, file, img, kept)
      /\ Edited(img.imports, first.imports) /\ first.imports \in Seq(Imported)
  BY <1>1, OpenIs
<1>3. Edited(list, first.imports)
  BY <1>2, EditedReset
<1> HIDE DEF list
<1>4. ImgInv(first, file, img', kept) /\ img'.imports = list
  <2>1. img' = WithList(img, list)
    BY <1>1 DEF WithList
  <2> QED
    BY <1>2, <1>3, <2>1, ListChanged
<1>5. Editing
  BY <1>1, <1>3, <1>4 DEF Editing
<1> QED
  BY <1>5, EditingInv

\* The payloads.
LEMMA DataInv ==
    ASSUME Inv, pc = "open", pc' = "open", NEW d \in Payloads, NEW keep, Listed(d.recs, keep),
           img' = [img EXCEPT !.data = d], kept' = keep,
           first' = first, file' = file, stored' = stored
    PROVE  Inv'
<1>1. ImgInv(first, file, img, kept)
  BY DEF Inv
<1>2. ImgInv(first, file, img', keep)
  BY <1>1, DataChanged
<1>3. keep \in Wanted
  BY DEF Listed
<1> QED
  BY <1>2, <1>3 DEF Inv

\* A call that fails or faults leaves all as it was.
LEMMA FaultedInv ==
    ASSUME Inv, pc = "open", pc' \in {"faulted", "failed"}, img' = img, kept' = kept,
           first' = first, file' = file, stored' = stored
    PROVE  Inv'
  BY DEF Inv

\* The payloads of the open binary are those that are wanted.
LEMMA DataIs ==
    ASSUME Inv, HasData
    PROVE  img.data \in Payloads /\ Listed(img.data.recs, kept) /\ pc = "open"
<1>1. ImgInv(first, file, img, kept) /\ img.data # NULL /\ pc = "open"
  BY DEF Inv, HasData
<1> QED
  BY <1>1 DEF ImgInv, Images

\* DetourBinarySetPayload.
LEMMA SetInv ==
    ASSUME Inv, NEW g \in Guids, NEW cb \in Sizes, SetPayload(g, cb) PROVE Inv'
<1>1. HasData /\ first' = first /\ file' = file /\ stored' = stored
  BY DEF SetPayload
<1>2. img.data \in Payloads /\ Listed(img.data.recs, kept) /\ pc = "open" /\ cb \in Nat
  BY <1>1, DataIs, PayloadAssumption
<1>3. CASE pc' = "faulted" /\ img' = img /\ kept' = kept
  BY <1>1, <1>2, <1>3, FaultedInv
<1>4. CASE /\ pc' = pc /\ img' = [img EXCEPT !.data = Set(@, g, cb)]
           /\ kept' = [kept EXCEPT ![g] = QuadAlign(cb)]
  <2>1. /\ Set(img.data, g, cb) \in Payloads
        /\ Listed(Set(img.data, g, cb).recs, [kept EXCEPT ![g] = QuadAlign(cb)])
    BY <1>2, SetListed
  <2>2. img' = [img EXCEPT !.data = Set(img.data, g, cb)]
    BY <1>4
  <2> QED
    BY <1>1, <1>2, <1>4, <2>1, <2>2, DataInv
<1>5. CASE /\ pc' = pc /\ img' = [img EXCEPT !.data = Delete(@, g)]
           /\ kept' = [kept EXCEPT ![g] = -1]
  <2>1. /\ Delete(img.data, g) \in Payloads
        /\ Listed(Delete(img.data, g).recs, [kept EXCEPT ![g] = -1])
    BY <1>2, DeleteListed
  <2>2. img' = [img EXCEPT !.data = Delete(img.data, g)]
    BY <1>5
  <2> QED
    BY <1>1, <1>2, <1>5, <2>1, <2>2, DataInv
<1> QED
  BY <1>3, <1>4, <1>5 DEF SetPayload

\* DetourBinaryDeletePayload.
LEMMA DeleteInv ==
    ASSUME Inv, NEW g \in Guids, DeletePayload(g) PROVE Inv'
<1>1. HasData /\ first' = first /\ file' = file /\ stored' = stored
  BY DEF DeletePayload
<1>2. img.data \in Payloads /\ Listed(img.data.recs, kept) /\ pc = "open"
  BY <1>1, DataIs
<1>3. CASE pc' = "faulted" /\ img' = img /\ kept' = kept
  BY <1>1, <1>2, <1>3, FaultedInv
<1>5. CASE /\ pc' = pc /\ img' = [img EXCEPT !.data = Delete(@, g)]
           /\ kept' = [kept EXCEPT ![g] = -1]
  <2>1. /\ Delete(img.data, g) \in Payloads
        /\ Listed(Delete(img.data, g).recs, [kept EXCEPT ![g] = -1])
    BY <1>2, DeleteListed
  <2>2. img' = [img EXCEPT !.data = Delete(img.data, g)]
    BY <1>5
  <2> QED
    BY <1>1, <1>2, <1>5, <2>1, <2>2, DataInv
<1> QED
  BY <1>3, <1>5 DEF DeletePayload

\* DetourBinaryPurgePayloads.
LEMMA PurgeInv ==
    ASSUME Inv, PurgePayloads PROVE Inv'
<1>1. /\ HasData /\ first' = first /\ file' = file /\ stored' = stored /\ pc' = pc
      /\ img' = [img EXCEPT !.data = Purge(img.data)] /\ kept' = NoPayloads
  BY DEF PurgePayloads, NoPayloads
<1>2. img.data \in Payloads /\ pc = "open"
  BY <1>1, DataIs
<1> DEFINE none == <<>>
           d == [img.data EXCEPT !.recs = none]
<1>3. none \in Seq(Records) /\ DOMAIN none = {}
  OBVIOUS
<1>4. Purge(img.data) = d
  BY DEF Purge
<1> HIDE DEF none
<1>5. d \in Payloads /\ d.recs = none
  BY <1>2, <1>3 DEF Payloads
<1>6. Listed(none, NoPayloads)
  BY <1>3 DEF Listed, NoPayloads, Wanted
<1> HIDE DEF d
<1> QED
  BY <1>1, <1>2, <1>4, <1>5, <1>6, DataInv

\* DetourBinaryWrite.
LEMMA WriteInv ==
    ASSUME Inv, Write PROVE Inv'
<1>1. /\ pc = "open" /\ img' = img /\ kept' = kept
      /\ first' = first /\ file' = file /\ stored' = stored
  BY DEF Write
<1>2. CASE pc' \in {"faulted", "failed"}
  BY <1>1, <1>2, FaultedInv
<1>3. CASE ~WriteFaults /\ pc' = "written" /\ out' = Written(img)
  <2>1. /\ first \in Pristine /\ FileInv(first, file, stored) /\ ImgInv(first, file, img, kept)
        /\ img.imports \in Seq(ImportFiles)
    BY <1>1, OpenIs DEF Inv
  <2>2. img.data # NULL /\ HasNames(img.imports)
    BY <1>3, <2>1 DEF WriteFaults, HasNames
  <2>3. FileInv(first, out', kept) /\ OutInv(img, out')
    BY <1>3, <2>1, <2>2, WrittenIs
  <2> QED
    BY <1>1, <1>3, <2>3 DEF Inv
<1> QED
  BY <1>2, <1>3 DEF Write

\* However a file is edited, written, and edited again, the file on disk, the
\* open binary and the file just written all come from the file that was linked.
THEOREM Kept == Spec => []Inv
<1>1. Init => Inv
  BY InitInv
<1>2. Inv /\ [Next]_vars => Inv'
  <2> SUFFICES ASSUME Inv, [Next]_vars PROVE Inv'
    OBVIOUS
  <2>1. CASE UNCHANGED vars
    <3>1. /\ first' = first /\ file' = file /\ img' = img /\ pc' = pc /\ cursor' = cursor
          /\ out' = out /\ kept' = kept /\ stored' = stored
      BY <2>1 DEF vars
    <3> QED
      BY <3>1 DEF Inv
  <2>2. CASE Open
    BY <2>2, OpenInv
  <2>3. CASE Close
    BY <2>3, CloseInv
  <2>4. CASE Write
    BY <2>4, WriteInv
  <2>5. CASE \E g \in Guids : DeletePayload(g) \/ \E cb \in Sizes : SetPayload(g, cb)
    BY <2>5, DeleteInv, SetInv
  <2>6. CASE PurgePayloads
    BY <2>6, PurgeInv
  <2>7. CASE BeginEdit \/ EndEdit
    BY <2>7, BeginInv
  <2>8. CASE InsertByway
    BY <2>8, InsertInv
  <2>9. CASE VisitByway
    BY <2>9, VisitBywayInv
  <2>10. CASE VisitFile
    BY <2>10, VisitFileInv
  <2>11. CASE FailEdit
    BY <2>11, FailEditInv
  <2>12. CASE ResetImports
    BY <2>12, ResetInv
  <2> QED
    BY <2>1, <2>2, <2>3, <2>4, <2>5, <2>6, <2>7, <2>8, <2>9, <2>10, <2>11, <2>12 DEF Next
<1> QED
  BY <1>1, <1>2, PTL DEF Spec

-----------------------------------------------------------------------------
(* What the invariant says of the files.                                   *)

\* What the invariant says of a file just written.
LEMMA WrittenOut ==
    ASSUME Inv, pc = "written"
    PROVE  /\ first \in Pristine /\ FileInv(first, out, kept) /\ OutInv(img, out)
           /\ ImgInv(first, file, img, kept) /\ kept \in Wanted
  BY DEF Inv

\* It implies each of the six properties.  The data behind the sections:
LEMMA InvTail ==
    ASSUME Inv PROVE TailFollows
<1> SUFFICES ASSUME pc = "written"
             PROVE  /\ ExtraOffset(out.hdr.secs) <= out.tailAt
                    /\ \A p \in {<<first.hdr.symbols, out.hdr.symbols>>, <<first.debug, out.debug>>} :
                           p[2] = IF p[1] > first.tailAt THEN p[1] - first.tailAt + out.tailAt
                                  ELSE p[1]
  BY DEF TailFollows
<1>1. first \in Pristine /\ FileInv(first, out, kept)
  BY WrittenOut
<1>2. ExtraOffset(out.hdr.secs) = out.tailAt /\ out.tailAt \in Nat
  BY <1>1, HeaderRead
<1>3. /\ out.hdr.symbols = Moved(first.hdr.symbols, first.tailAt, out.tailAt)
      /\ out.debug = Moved(first.debug, first.tailAt, out.tailAt)
  BY <1>1 DEF FileInv
<1> QED
  BY <1>2, <1>3 DEF Moved

\* Sections that do not overlap, in the order they are in.
Apart(secs, end) ==
    /\ \A m, n \in DOMAIN secs : m < n =>
           /\ secs[n].size # 0 => secs[m].raw + secs[m].size <= secs[n].raw
           /\ secs[m].va + secs[m].vsize <= secs[n].va
    /\ Last(secs).va + Last(secs).vsize <= end

\* The linker's sections do not overlap.
LEMMA OriginalApart ==
    ASSUME NEW o \in Pristine
    PROVE  Apart(o.hdr.secs, o.hdr.size)
<1> DEFINE secs == o.hdr.secs
           k == Len(secs)
<1>1. secs \in Seq(Sections) /\ Linked(secs)
  BY LinkedIs
<1>2. /\ k \in Nat \ {0}
      /\ \A n \in 1 .. k : secs[n].va + secs[n].vsize <= o.hdr.size
  BY OriginalEnds
<1> HIDE DEF secs
<1>3. DOMAIN secs = 1 .. k /\ Last(secs) = secs[k] /\ k \in 1 .. k
  BY <1>1, <1>2 DEF Last
<1>4. \A n \in 1 .. k : /\ secs[n].va \in Nat /\ secs[n].vsize \in Nat /\ SectionEnd(secs[n]) \in Nat
                        /\ secs[n].va + secs[n].vsize <= SectionEnd(secs[n])
  BY <1>1, SectionTyped
<1>5. ASSUME NEW m \in DOMAIN secs, NEW n \in DOMAIN secs, m < n
      PROVE  /\ secs[n].size # 0 => secs[m].raw + secs[m].size <= secs[n].raw
             /\ secs[m].va + secs[m].vsize <= secs[n].va
  <2>1. /\ secs[n].size # 0 => secs[m].raw + secs[m].size <= secs[n].raw
        /\ SectionEnd(secs[m]) <= secs[n].va
    BY <1>1, <1>5 DEF Linked
  <2> QED
    BY <1>3, <1>4, <2>1
<1>6. Apart(secs, o.hdr.size)
  BY <1>2, <1>3, <1>5 DEF Apart
<1> QED
  BY <1>6 DEF secs

\* Nor do those of a file that has been written.
LEMMA InvApart ==
    ASSUME Inv PROVE SectionsApart
<1> SUFFICES ASSUME pc = "written" PROVE Apart(out.hdr.secs, out.hdr.size)
  BY DEF SectionsApart, Apart
<1>1. first \in Pristine /\ FileInv(first, out, kept)
  BY WrittenOut
<1>2. Apart(first.hdr.secs, first.hdr.size)
  BY <1>1, OriginalApart
<1>3. CASE Untouched(first, out, kept)
  BY <1>2, <1>3 DEF Untouched
<1>4. CASE Detoured(first, out, kept)
  <2>1. PICK s : Appended(first, out, s)
    BY <1>4 DEF Detoured
  <2> DEFINE old == first.hdr.secs
             secs == out.hdr.secs
             k == Len(old)
  <2>2. /\ old \in Seq(Sections) /\ s \in Sections /\ secs = Append(old, s)
        /\ s.raw = first.tailAt /\ s.va = first.hdr.size /\ s.va + s.vsize <= out.hdr.size
    BY <1>1, <2>1, LinkedIs DEF Appended
  <2> HIDE DEF secs
  <2>3. /\ secs \in Seq(Sections) /\ Len(secs) = k + 1 /\ k \in Nat
        /\ \A n \in 1 .. k : secs[n] = old[n]
        /\ secs[k + 1] = s /\ Last(secs) = s
    BY <2>2, OneMore
  <2>4. \A n \in 1 .. k : /\ old[n].raw + old[n].size <= first.tailAt
                          /\ old[n].va + old[n].vsize <= first.hdr.size
    BY <1>1, OriginalEnds
  <2>5. DOMAIN secs = 1 .. k + 1 /\ DOMAIN old = 1 .. k
    BY <2>2, <2>3
  <2>6. ASSUME NEW m \in 1 .. k, NEW n \in 1 .. k, m < n
        PROVE  /\ old[n].size # 0 => old[m].raw + old[m].size <= old[n].raw
               /\ old[m].va + old[m].vsize <= old[n].va
    BY <1>2, <2>5, <2>6 DEF Apart
  <2> HIDE DEF k, old
  <2>7. ASSUME NEW m \in DOMAIN secs, NEW n \in DOMAIN secs, m < n
        PROVE  /\ secs[n].size # 0 => secs[m].raw + secs[m].size <= secs[n].raw
               /\ secs[m].va + secs[m].vsize <= secs[n].va
    <3>1. m \in 1 .. k /\ (n \in 1 .. k \/ n = k + 1)
      BY <2>3, <2>5, <2>7
    <3>2. CASE n \in 1 .. k
      BY <2>3, <2>6, <2>7, <3>1, <3>2
    <3>3. CASE n = k + 1
      BY <2>2, <2>3, <2>4, <3>1, <3>3
    <3> QED
      BY <3>1, <3>2, <3>3
  <2>8. Apart(secs, out.hdr.size)
    BY <2>2, <2>3, <2>7 DEF Apart
  <2> QED
    BY <2>8 DEF secs
<1> QED
  BY <1>1, <1>3, <1>4 DEF FileInv

\* A file without a .detour section is the original.
LEMMA InvPristine ==
    ASSUME Inv PROVE PristineAgain
<1> SUFFICES ASSUME pc = "written", ~HasSection(out)
             PROVE  [out EXCEPT !.ilonly = first.ilonly] = first
  BY DEF PristineAgain
<1>1. first \in Pristine /\ FileInv(first, out, kept)
  BY WrittenOut
<1>2. Untouched(first, out, kept)
  BY <1>1, HeaderRead DEF FileInv
<1>3. /\ first \in LinkedFiles /\ out \in FileStates
  BY <1>1, PristineAssumption DEF FileInv
<1>4. first.debug \in Nat /\ first.tailAt \in Nat /\ first.detour = NULL
  BY <1>3 DEF LinkedFiles
<1>5. /\ out.lfanew = first.lfanew /\ out.peAt = first.peAt /\ out.hdr = first.hdr
      /\ out.tailAt = first.tailAt /\ out.detour = first.detour /\ out.imports = first.imports
      /\ out.debug = first.debug
  BY <1>1, <1>2, <1>4 DEF Untouched, FileInv, Moved
<1> DEFINE n == [out EXCEPT !.ilonly = first.ilonly]
<1>6. DOMAIN out = {"lfanew", "peAt", "imports", "debug", "tailAt", "hdr", "ilonly", "detour"}
      /\ DOMAIN first = {"lfanew", "peAt", "imports", "debug", "tailAt", "hdr", "ilonly", "detour"}
      /\ first = [c \in DOMAIN first |-> first[c]]
  BY <1>3 DEF LinkedFiles, FileStates
<1>7. DOMAIN n = DOMAIN first /\ n = [c \in DOMAIN n |-> n[c]]
  BY <1>6
<1>8. n.ilonly = first.ilonly /\ n.lfanew = first.lfanew /\ n.peAt = first.peAt /\ n.hdr = first.hdr
      /\ n.tailAt = first.tailAt /\ n.detour = first.detour /\ n.imports = first.imports
      /\ n.debug = first.debug
  BY <1>5, <1>6
<1> HIDE DEF n
<1>9. \A c \in DOMAIN first : n[c] = first[c]
  BY <1>6, <1>8
<1>10. n = first
  BY <1>6, <1>7, <1>9
<1> QED
  BY <1>10 DEF n

\* The payloads of the open binary and of the file are those that were set.
LEMMA InvPayloads ==
    ASSUME Inv PROVE PayloadsKept
<1>1. ASSUME img # NULL, img.data # NULL PROVE Finds(img.data, kept)
  <2>1. ImgInv(first, file, img, kept)
    BY <1>1 DEF Inv
  <2>2. Listed(img.data.recs, kept)
    BY <1>1, <2>1 DEF ImgInv
  <2> QED
    BY <2>2, ListedFinds
<1>2. ASSUME pc = "written" PROVE Finds(ReadImage(out).data, kept)
  <2>1. first \in Pristine /\ FileInv(first, out, kept) /\ kept \in Wanted
    BY <1>2, WrittenOut
  <2>2. Listed(ReadImage(out).data.recs, kept)
    BY <2>1, DataRead
  <2> QED
    BY <2>2, ListedFinds
<1> QED
  BY <1>1, <1>2 DEF PayloadsKept

\* What a file says of the original when it is read.
Recollects(o, i) ==
    LET files == FilesOf(i.imports)
    IN  /\ i.lfanew = o.lfanew
        /\ \A field \in {"secs", "import", "bound", "size"} : i.hdr[field] = o.hdr[field]
        /\ Len(files) = Len(o.imports)
        /\ \A k \in DOMAIN files :
               /\ files[k].orig = o.imports[k].name
               /\ \A n \in DOMAIN files[k].names :
                      files[k].names[n].name # NULL =>
                          /\ files[k].names[n].orig = o.imports[k].names[n].name
                          /\ files[k].names[n].nOrig = o.imports[k].names[n].ord

\* Every file does.
LEMMA OriginalRead ==
    ASSUME NEW o \in Pristine, NEW want \in Wanted, NEW f, FileInv(o, f, want)
    PROVE  Recollects(o, ReadImage(f))
<1> DEFINE i == ReadImage(f)
           T == o.imports
           list == ReadImports(f)
           table == IF HasSection(f) THEN f.detour.table ELSE o.imports
           files == FilesOf(list)
           l == Len(T)
<1>1. ImgInv(o, f, i, want)
  BY ReadIs
<1>2. i.imports = list
  BY DEF ReadImage
<1>3. o.hdr \in Headers /\ T \in Seq(Imported)
  BY LinkedIs
<1>4. PICK pos : Reads(table, list, pos, T)
  BY ImportsRead
<1> HIDE DEF i, T, list, table
<1>5. i.lfanew = o.lfanew /\ i.hdr = [o.hdr EXCEPT !.symbols = f.hdr.symbols]
  BY <1>1 DEF ImgInv
<1>6. \A field \in {"secs", "import", "bound", "size"} : i.hdr[field] = o.hdr[field]
  BY <1>3, <1>5 DEF Headers
<1>7. /\ list \in Seq(ImportFiles) /\ Ordered(list, pos, T) /\ Shown(table, list)
      /\ \A k \in 1 .. l : FromOriginal(list[pos[k]], T[k]) /\ Recalls(table[pos[k]], list[pos[k]], T[k])
  BY <1>4 DEF Reads
<1>8. files = [k \in 1 .. l |-> list[pos[k]]]
  BY <1>3, <1>7, FilesAre
<1>9. l \in Nat
  BY <1>3
<1> HIDE DEF files, l
<1>10. Len(files) = l /\ DOMAIN files = 1 .. l /\ \A k \in 1 .. l : files[k] = list[pos[k]]
  BY <1>8, <1>9
<1>11. ASSUME NEW k \in 1 .. l
       PROVE  /\ files[k].orig = T[k].name
              /\ \A n \in DOMAIN files[k].names :
                     files[k].names[n].name # NULL =>
                         /\ files[k].names[n].orig = T[k].names[n].name
                         /\ files[k].names[n].nOrig = T[k].names[n].ord
  <2> DEFINE j == pos[k]
  <2>1. j \in 1 .. Len(list) /\ Len(list[j].names) = Len(T[k].names)
    BY <1>7 DEF Ordered, l
  <2>2. Shows(table[j], list[j])
    BY <1>7, <2>1 DEF Shown
  <2>3. FromOriginal(list[j], T[k]) /\ Recalls(table[j], list[j], T[k])
    BY <1>7
  <2>4. files[k] = list[j]
    BY <1>10
  <2>5. list[j] \in ImportFiles
    BY <1>7, <2>1
  <2> HIDE DEF j
  <2>6. DOMAIN list[j].names = 1 .. Len(T[k].names)
    BY <2>1, <2>5 DEF ImportFiles
  <2>7. ASSUME NEW n \in 1 .. Len(T[k].names), list[j].names[n].name # NULL
        PROVE  /\ list[j].names[n].orig = T[k].names[n].name
               /\ list[j].names[n].nOrig = T[k].names[n].ord
    <3>1. Thunk(list[j].names[n])
            = Thunk([name |-> table[j].names[n].name, nOrdinal |-> table[j].names[n].ord])
      BY <2>1, <2>2 DEF Shows
    <3>2. list[j].names[n].name = table[j].names[n].name
      BY <3>1 DEF Thunk
    <3> QED
      BY <2>3, <2>7, <3>2 DEF Recalls
  <2> QED
    BY <2>3, <2>4, <2>6, <2>7 DEF FromOriginal
<1> QED
  BY <1>2, <1>5, <1>6, <1>10, <1>11 DEF Recollects, i, T, files, l

\* So do the file on disk and the file written.
LEMMA InvOriginals ==
    ASSUME Inv PROVE OriginalsKept
<1>1. ASSUME NEW f \in OnDisk PROVE Recollects(first, ReadImage(f))
  <2>1. CASE f = file
    <3>1. first \in Pristine /\ stored \in Wanted /\ FileInv(first, file, stored)
      BY DEF Inv
    <3> QED
      BY <2>1, <3>1, OriginalRead
  <2>2. CASE pc = "written" /\ f = out
    <3>1. first \in Pristine /\ kept \in Wanted /\ FileInv(first, out, kept)
      BY <2>2, WrittenOut
    <3> QED
      BY <2>2, <3>1, OriginalRead
  <2> QED
    BY <2>1, <2>2 DEF OnDisk
<1> QED
  BY <1>1 DEF OriginalsKept, Recollects

\* Without byways the list is the original's, file by file.
LEMMA NoByways ==
    ASSUME NEW list \in Seq(ImportFiles), NEW T \in Seq(Imported), NEW pos, Ordered(list, pos, T),
           \A i \in 1 .. Len(list) : ~list[i].byway
    PROVE  Len(list) = Len(T) /\ \A k \in 1 .. Len(T) : pos[k] = k
<1> DEFINE l == Len(T)
           m == Len(list)
<1>1. l \in Nat /\ m \in Nat
  OBVIOUS
<1>2. /\ \A k \in 1 .. l : OriginalIndex(list, pos[k]) = k
      /\ \A k \in 1 .. l : pos[k] \in 1 .. m
  <2>1. \A k \in 1 .. l : OriginalIndex(list, pos[k]) = k
    BY Indexed
  <2>2. \A k \in 1 .. l : pos[k] \in 1 .. m
    BY DEF Ordered
  <2> QED
    BY <2>1, <2>2
<1>3. OriginalIndex(list, m) = l
  BY Indexed
<1> HIDE DEF l, m
<1>4. ASSUME NEW i \in 0 .. m PROVE OriginalIndex(list, i) = i
  <2>1. \A j \in 1 .. i : j \in 1 .. m
    BY <1>1
  <2>2. {j \in 1 .. i : ~list[j].byway} = 1 .. i
    BY <2>1 DEF m
  <2>3. Cardinality(1 .. i) = i
    <3>1. 1 \in Int /\ i \in Int
      BY <1>1
    <3> QED
      BY <1>1, <3>1, FS_Interval
  <2> QED
    BY <2>2, <2>3 DEF OriginalIndex
<1>5. \A k \in 1 .. l : pos[k] \in 0 .. m
  BY <1>1, <1>2
<1>6. m \in 0 .. m
  BY <1>1
<1> QED
  BY <1>2, <1>3, <1>4, <1>5, <1>6 DEF l, m

\* A file that has been read says what the list says that was written.
Agrees(f, g, all) ==
    /\ f.byway = g.byway /\ f.name = g.name /\ Len(f.names) = Len(g.names)
    /\ \A n \in DOMAIN f.names :
           all \/ g.names[n].name # NULL => Thunk(f.names[n]) = Thunk(g.names[n])

\* The file written does so, with or without a .detour section.
LEMMA ReadAgain ==
    ASSUME NEW o \in Pristine, NEW want, NEW f, FileInv(o, f, want),
           NEW i \in Images, Edited(i.imports, o.imports), OutInv(i, f)
    PROVE  /\ Len(ReadImports(f)) = Len(i.imports)
           /\ \A j \in 1 .. Len(i.imports) : Agrees(ReadImports(f)[j], i.imports[j], HasSection(f))
<1> DEFINE T == o.imports
           list == i.imports
           again == ReadImports(f)
           m == Len(list)
<1>1. T \in Seq(Imported) /\ list \in Seq(ImportFiles) /\ m \in Nat
  BY LinkedIs DEF Edited
<1>2. \A j \in 1 .. m : list[j] \in ImportFiles
  BY <1>1
<1>3. HasNames(list)
  BY DEF OutInv
<1>4. CASE HasSection(f)
  <2>1. PICK pos : Reads(f.detour.table, again, pos, T)
    BY <1>4, ImportsRead
  <2> DEFINE table == f.detour.table
  <2>2. table = Table(list)
    BY <1>4 DEF OutInv
  <2>3. /\ Len(table) = m
        /\ \A j \in 1 .. m :
              /\ table[j].byway = list[j].byway /\ table[j].name = list[j].name
              /\ Len(table[j].names) = Len(list[j].names)
              /\ \A n \in 1 .. Len(list[j].names) : table[j].names[n] = Thunk(list[j].names[n])
    BY <1>1, <1>3, <2>2, TableIs
  <2> HIDE DEF T, list, again, m, table
  <2>4. again \in Seq(ImportFiles) /\ Shown(table, again)
    BY <2>1 DEF Reads, table
  <2>5. Len(again) = m /\ \A j \in 1 .. m : Shows(table[j], again[j]) /\ again[j] \in ImportFiles
    BY <2>3, <2>4 DEF Shown
  <2>6. ASSUME NEW j \in 1 .. m PROVE Agrees(again[j], list[j], TRUE)
    <3>1. /\ again[j].byway = list[j].byway /\ again[j].name = list[j].name
          /\ Len(again[j].names) = Len(list[j].names)
      BY <2>3, <2>5 DEF Shows
    <3>2. DOMAIN again[j].names = 1 .. Len(list[j].names)
      BY <2>5, <3>1 DEF ImportFiles
    <3>3. ASSUME NEW n \in 1 .. Len(list[j].names)
          PROVE  Thunk(again[j].names[n]) = Thunk(list[j].names[n])
      <4>1. Thunk(again[j].names[n])
              = Thunk([name |-> table[j].names[n].name, nOrdinal |-> table[j].names[n].ord])
        BY <2>3, <2>5 DEF Shows
      <4>2. table[j].names[n] = Thunk(list[j].names[n])
        BY <2>3
      <4> QED
        BY <4>1, <4>2 DEF Thunk
    <3> QED
      BY <3>1, <3>2, <3>3 DEF Agrees
  <2> QED
    BY <1>4, <2>5, <2>6 DEF Agrees, again, list, m
<1>5. CASE ~HasSection(f)
  <2>1. PICK p : Reads(o.imports, again, p, T)
    BY <1>5, ImportsRead
  <2>2. ~NeedsSection(list)
    BY <1>5 DEF OutInv
  <2>3. \A j \in 1 .. m : ~list[j].byway /\ ~NameChanged(list[j])
    BY <1>1, <2>2 DEF NeedsSection
  <2>4. PICK pos : Ordered(list, pos, T) /\ \A k \in 1 .. Len(T) : FromOriginal(list[pos[k]], T[k])
    BY DEF Edited
  <2> HIDE DEF T, list, again
  <2>5. m = Len(T) /\ \A k \in 1 .. m : pos[k] = k
    BY <1>1, <2>3, <2>4, NoByways
  <2>6. again \in Seq(ImportFiles) /\ Shown(T, again)
    BY <2>1 DEF Reads, T
  <2> HIDE DEF m
  <2>7. Len(again) = m /\ \A j \in 1 .. m : Shows(T[j], again[j]) /\ again[j] \in ImportFiles
    BY <2>5, <2>6 DEF Shown
  <2>8. ASSUME NEW j \in 1 .. m PROVE Agrees(again[j], list[j], FALSE)
    <3>1. FromOriginal(list[j], T[j]) /\ Len(list[j].names) = Len(T[j].names)
      BY <2>4, <2>5 DEF Ordered
    <3>2. list[j].name = list[j].orig /\ \A n \in DOMAIN list[j].names : list[j].names[n].name = list[j].names[n].orig
      BY <2>3 DEF NameChanged
    <3>3. T[j] \in Imported
      BY <1>1, <2>5
    <3>4. list[j].name = T[j].name /\ T[j].byway = FALSE
      BY <3>1, <3>2, <3>3 DEF FromOriginal, Imported
    <3>5. /\ again[j].byway = FALSE /\ again[j].name = list[j].name
          /\ Len(again[j].names) = Len(list[j].names)
      BY <2>7, <3>1, <3>4 DEF Shows
    <3>6. list[j].byway = FALSE
      BY <1>2, <2>3 DEF ImportFiles
    <3>7. DOMAIN again[j].names = 1 .. Len(T[j].names) /\ DOMAIN list[j].names = 1 .. Len(T[j].names)
      BY <1>2, <2>7, <3>1, <3>5 DEF ImportFiles
    <3>8. ASSUME NEW n \in 1 .. Len(T[j].names), list[j].names[n].name # NULL
          PROVE  Thunk(again[j].names[n]) = Thunk(list[j].names[n])
      <4>1. Thunk(again[j].names[n])
              = Thunk([name |-> T[j].names[n].name, nOrdinal |-> T[j].names[n].ord])
        BY <2>7 DEF Shows
      <4>2. list[j].names[n].name = T[j].names[n].name
        BY <3>1, <3>2, <3>7, <3>8 DEF FromOriginal
      <4> QED
        BY <3>8, <4>1, <4>2 DEF Thunk
    <3> QED
      BY <3>5, <3>6, <3>7, <3>8 DEF Agrees
  <2> QED
    BY <1>5, <2>7, <2>8 DEF Agrees, again, list, m
<1> QED
  BY <1>4, <1>5

\* So what has been written can be opened again.
LEMMA InvReopens ==
    ASSUME Inv PROVE WrittenReopens
<1> SUFFICES ASSUME pc = "written"
             PROVE  /\ Readable(out)
                    /\ Len(ReadImage(out).imports) = Len(img.imports)
                    /\ \A j \in DOMAIN ReadImage(out).imports :
                           Agrees(ReadImage(out).imports[j], img.imports[j], HasSection(out))
  BY DEF WrittenReopens, Agrees
<1>1. /\ first \in Pristine /\ FileInv(first, out, kept) /\ OutInv(img, out)
      /\ img \in Images /\ Edited(img.imports, first.imports)
  BY WrittenOut DEF ImgInv
<1>2. ReadImage(out).imports = ReadImports(out)
  BY DEF ReadImage
<1>3. Readable(out)
  BY <1>1, HeaderRead
<1>4. /\ Len(ReadImports(out)) = Len(img.imports)
      /\ \A j \in 1 .. Len(img.imports) : Agrees(ReadImports(out)[j], img.imports[j], HasSection(out))
  BY <1>1, ReadAgain
<1>5. ReadImports(out) \in Seq(ImportFiles)
  BY <1>1, ImportsRead DEF Edited
<1>6. DOMAIN ReadImports(out) = 1 .. Len(img.imports)
  BY <1>4, <1>5
<1> QED
  BY <1>2, <1>3, <1>4, <1>6

\* What DetourBinaryWrite writes can be opened again, and has the imports that
\* the list had: the room that CImage::Write counts for the tables is the room
\* they take.
THEOREM Reopens == Spec => []WrittenReopens
<1>1. Inv => WrittenReopens
  BY InvReopens
<1> QED
  BY <1>1, Kept, PTL

\* A file that has been edited any number of times still says what its original
\* was, in its headers and in its imports: what ResetImports restores it from.
THEOREM OriginalsRecorded == Spec => []OriginalsKept
<1>1. Inv => OriginalsKept
  BY InvOriginals
<1> QED
  BY <1>1, Kept, PTL

\* A file written without byways, changed names or payloads is the original
\* again, but for the CLR flag.
THEOREM RestoresPristine == Spec => []PristineAgain
<1>1. Inv => PristineAgain
  BY InvPristine
<1> QED
  BY <1>1, Kept, PTL

\* The data behind the sections, and all that points into it, has followed the
\* end of the file, and nothing else has been moved.
THEOREM TailMoves == Spec => []TailFollows
<1>1. Inv => TailFollows
  BY InvTail
<1> QED
  BY <1>1, Kept, PTL

\* The section that CImage::Write adds overlaps no other.
THEOREM SectionsStayApart == Spec => []SectionsApart
<1>1. Inv => SectionsApart
  BY InvApart
<1> QED
  BY <1>1, Kept, PTL

\* A payload is found with the size it was set with until it is deleted, in the
\* open binary and in every file written from it.
THEOREM PayloadsFound == Spec => []PayloadsKept
<1>1. Inv => PayloadsKept
  BY InvPayloads
<1> QED
  BY <1>1, Kept, PTL
================================================================================
