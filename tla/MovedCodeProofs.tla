---------------------------- MODULE MovedCodeProofs ----------------------------
(***************************************************************************)
(* For every function that can be moved at all: where the instructions lie *)
(* in the two copies, that the alignment finds one from the other, and so  *)
(* that every suspended thread goes on where it was.                       *)
(***************************************************************************)
EXTENDS MovedCode, Inductions

-----------------------------------------------------------------------------
(* The instructions that are moved.                                        *)

\* The last instruction ends the function, so one is the last to be moved.
LEMMA Moved ==
    ASSUME NEW f \in Functions
    PROVE  /\ Len(f.body) \in Nat \ {0} /\ DOMAIN f.body = 1 .. Len(f.body)
           /\ nAlign(f) \in 1 .. Len(f.body)
           /\ ~CopiesOn(f, nAlign(f))
           /\ \A i \in 1 .. nAlign(f) - 1 : CopiesOn(f, i)
<1>1. f.body \in Seq(Instructions) /\ f.body # <<>> /\ \A i \in DOMAIN f.body : f.body[i].ends <=> i = Len(f.body)
  BY FunctionsAssumption
<1>2. Len(f.body) \in Nat \ {0} /\ DOMAIN f.body = 1 .. Len(f.body)
  BY <1>1
<1> DEFINE S == {n \in 1 .. Len(f.body) : ~CopiesOn(f, n)}
<1>3. ~CopiesOn(f, Len(f.body))
  BY <1>1, <1>2 DEF CopiesOn
<1>4. S \in SUBSET Nat /\ S # {}
  BY <1>2, <1>3
<1>5. PICK n \in S : \A m \in S : n <= m
  <2> HIDE DEF S
  <2> QED
    BY <1>4, LeastMember
<1>6. \A i \in 1 .. n - 1 : CopiesOn(f, i)
  BY <1>2, <1>5
<1> DEFINE Is(m) == ~CopiesOn(f, m) /\ \A i \in 1 .. m - 1 : CopiesOn(f, i)
<1>7. \E m \in DOMAIN f.body : Is(m)
  BY <1>2, <1>5, <1>6
<1>8. nAlign(f) = CHOOSE m \in DOMAIN f.body : Is(m)
  BY DEF nAlign
<1>9. nAlign(f) \in DOMAIN f.body /\ Is(nAlign(f))
  <2> HIDE DEF Is
  <2> QED
    BY <1>7, <1>8
<1> QED
  BY <1>2, <1>9

\* The lengths of a function are the sizes its offsets are sums of.
LEMMA LengthsAre ==
    ASSUME NEW f \in Functions
    PROVE  /\ IsSize(Lengths(f), Len(f.body))
           /\ \A k \in 1 .. Len(f.body) : /\ Lengths(f)[k] = f.body[k].len /\ Lengths(f)[k] > 0
                                          /\ f.body[k].len \in Nat \ {0}
<1>1. f.body \in Seq(Instructions)
  BY FunctionsAssumption
<1>2. \A k \in DOMAIN f.body : f.body[k] \in Instructions
  BY <1>1
<1>3. DOMAIN f.body = 1 .. Len(f.body)
  BY Moved
<1> QED
  BY <1>2, <1>3 DEF Lengths, IsSize, Instructions

\* Each instruction of a function begins behind the one before it.
LEMMA TargetOffsets ==
    ASSUME NEW f \in Functions
    PROVE  /\ \A k \in 0 .. Len(f.body) : TargetOffset(f, k) \in Nat /\ k <= TargetOffset(f, k)
           /\ TargetOffset(f, 0) = 0
           /\ \A k \in 1 .. Len(f.body) : TargetOffset(f, k) = TargetOffset(f, k - 1) + f.body[k].len
           /\ \A m \in 0 .. Len(f.body) : \A k \in 0 .. m - 1 : TargetOffset(f, k) < TargetOffset(f, m)
<1>1. Len(f.body) \in Nat
  BY Moved
<1>2. IsSize(Lengths(f), Len(f.body))
  BY LengthsAre
<1>3. \A k \in 1 .. Len(f.body) : Lengths(f)[k] > 0 /\ Lengths(f)[k] = f.body[k].len
  BY LengthsAre
<1> QED
  BY <1>1, <1>2, <1>3, SumSteps, SumRises DEF TargetOffset

\* What is moved is less than a jump, but for its last instruction; that one
\* reaches the end of the jump, or ends the function.
LEMMA MovedIsShort ==
    ASSUME NEW f \in Functions
    PROVE  /\ \A k \in 0 .. nAlign(f) - 1 : TargetOffset(f, k) < CbJump
           /\ nAlign(f) < Len(f.body) => TargetOffset(f, nAlign(f)) >= CbJump
           /\ nAlign(f) <= AlignEntries
<1> DEFINE n == nAlign(f)
<1>1. n \in 1 .. Len(f.body) /\ ~CopiesOn(f, n) /\ \A i \in 1 .. n - 1 : CopiesOn(f, i)
  BY Moved
<1>2. Len(f.body) \in Nat /\ DOMAIN f.body = 1 .. Len(f.body)
  BY Moved
<1>3. CbJump \in Nat \ {0} /\ AlignEntries \in Nat /\ CbJump <= AlignEntries
  BY SizesAssumption
<1>4. \A k \in 0 .. n - 1 : TargetOffset(f, k) < CbJump
  <2>1. TargetOffset(f, 0) < CbJump
    BY <1>3, TargetOffsets
  <2>2. \A k \in 1 .. n - 1 : TargetOffset(f, k) < CbJump
    BY <1>1 DEF CopiesOn
  <2> QED
    BY <2>1, <2>2
<1>5. n <= AlignEntries
  <2>1. n = 1 \/ CopiesOn(f, n - 1)
    BY <1>1, <1>2
  <2>2. CopiesOn(f, n - 1) => n - 1 < AlignEntries
    BY DEF CopiesOn
  <2> HIDE DEF n
  <2> QED
    BY <1>1, <1>2, <1>3, <2>1, <2>2
<1>6. ASSUME n < Len(f.body) PROVE TargetOffset(f, n) >= CbJump
  <2>1. ~f.body[n].ends
    BY <1>1, <1>2, <1>6, FunctionsAssumption
  <2>2. TargetOffset(f, n) < CbJump => ~(n < AlignEntries)
    BY <1>1, <2>1 DEF CopiesOn
  <2>3. TargetOffset(f, n) \in Nat /\ n <= TargetOffset(f, n)
    BY <1>1, <1>2, TargetOffsets
  <2> HIDE DEF n
  <2> QED
    BY <1>1, <1>2, <1>3, <2>2, <2>3
<1> QED
  BY <1>4, <1>5, <1>6

\* The sizes of the copies.
LEMMA CopiesAre ==
    ASSUME NEW f \in Functions, Enlargeable(f)
    PROVE  /\ IsSize(Copies(f), nAlign(f))
           /\ \A k \in 1 .. nAlign(f) : /\ Copies(f)[k] = f.body[k].len + f.body[k].extra
                                        /\ Copies(f)[k] > 0 /\ Copies(f)[k] <= 19
                                        /\ f.body[k].len <= Copies(f)[k]
                                        /\ Copies(f)[k] <= 3 * f.body[k].len
<1>1. nAlign(f) \in 1 .. Len(f.body) /\ DOMAIN f.body = 1 .. Len(f.body) /\ Len(f.body) \in Nat
  BY Moved
<1>2. ASSUME NEW k \in 1 .. nAlign(f)
      PROVE  /\ Copies(f)[k] = f.body[k].len + f.body[k].extra /\ Copies(f)[k] \in Nat
             /\ Copies(f)[k] > 0 /\ Copies(f)[k] <= 19
             /\ f.body[k].len <= Copies(f)[k]
             /\ Copies(f)[k] <= 3 * f.body[k].len
  <2>1. k \in DOMAIN f.body /\ k \in 1 .. Len(f.body)
    BY <1>1
  <2>2. Copies(f)[k] = f.body[k].len + f.body[k].extra
    BY <2>1 DEF Copies
  <2>3. f.body[k].extra \in 0 .. 2 * f.body[k].len
    BY DEF Enlargeable
  <2>4. f.body[k].len + f.body[k].extra <= 19
    BY <2>1, FunctionsAssumption
  <2>5. f.body[k].len \in Nat \ {0}
    BY <2>1, LengthsAre
  <2> QED
    BY <2>2, <2>3, <2>4, <2>5
<1> QED
  BY <1>2 DEF IsSize

\* Each copy begins behind the one before it, no earlier than the instruction
\* it was made from and no later than three times its offset.
LEMMA MovedOffsets ==
    ASSUME NEW f \in Functions, Enlargeable(f)
    PROVE  /\ \A k \in 0 .. nAlign(f) : /\ MovedOffset(f, k) \in Nat
                                        /\ TargetOffset(f, k) <= MovedOffset(f, k)
                                        /\ MovedOffset(f, k) <= 3 * TargetOffset(f, k)
           /\ MovedOffset(f, 0) = 0
           /\ \A k \in 1 .. nAlign(f) :
                 MovedOffset(f, k) = MovedOffset(f, k - 1) + f.body[k].len + f.body[k].extra
           /\ \A m \in 0 .. nAlign(f) : \A k \in 0 .. m - 1 : MovedOffset(f, k) < MovedOffset(f, m)
<1>1. nAlign(f) \in Nat /\ nAlign(f) \in 1 .. Len(f.body) /\ Len(f.body) \in Nat
  BY Moved
<1>2. IsSize(Copies(f), nAlign(f))
  BY CopiesAre
<1>3. \A k \in 1 .. nAlign(f) : Copies(f)[k] > 0 /\ Copies(f)[k] = f.body[k].len + f.body[k].extra
  BY CopiesAre
<1>4. /\ \A k \in 0 .. nAlign(f) : MovedOffset(f, k) \in Nat
      /\ MovedOffset(f, 0) = 0
      /\ \A k \in 1 .. nAlign(f) : MovedOffset(f, k) = MovedOffset(f, k - 1) + Copies(f)[k]
      /\ \A m \in 0 .. nAlign(f) : \A k \in 0 .. m - 1 : MovedOffset(f, k) < MovedOffset(f, m)
  BY <1>1, <1>2, <1>3, SumSteps, SumRises DEF MovedOffset
<1> DEFINE S == {k \in 0 .. nAlign(f) : /\ TargetOffset(f, k) <= MovedOffset(f, k)
                                        /\ MovedOffset(f, k) <= 3 * TargetOffset(f, k)}
<1>5. 0 \in S
  BY <1>1, <1>4, TargetOffsets
<1>6. ASSUME NEW k \in 0 .. nAlign(f) - 1, k \in S PROVE k + 1 \in S
  <2>1. k + 1 \in 1 .. nAlign(f) /\ (k + 1) - 1 = k /\ k + 1 \in 1 .. Len(f.body) /\ k \in 0 .. Len(f.body)
    BY <1>1
  <2>2. MovedOffset(f, k + 1) = MovedOffset(f, k) + Copies(f)[k + 1]
    BY <1>4, <2>1
  <2>3. TargetOffset(f, k + 1) = TargetOffset(f, k) + f.body[k + 1].len
    BY <2>1, TargetOffsets
  <2>4. f.body[k + 1].len <= Copies(f)[k + 1] /\ Copies(f)[k + 1] <= 3 * f.body[k + 1].len
    BY <2>1, CopiesAre
  <2>5. f.body[k + 1].len \in Nat /\ Copies(f)[k + 1] \in Nat
    BY <1>2, <2>1, LengthsAre DEF IsSize
  <2>6. k \in 0 .. nAlign(f)
    BY <1>1
  <2>7. TargetOffset(f, k) \in Nat
    BY <2>1, TargetOffsets
  <2>8. MovedOffset(f, k) \in Nat
    BY <1>4, <2>6
  <2>9. TargetOffset(f, k) <= MovedOffset(f, k) /\ MovedOffset(f, k) <= 3 * TargetOffset(f, k)
    BY <1>6
  <2>10. /\ TargetOffset(f, k + 1) <= MovedOffset(f, k + 1)
         /\ MovedOffset(f, k + 1) <= 3 * TargetOffset(f, k + 1)
    BY <2>2, <2>3, <2>4, <2>5, <2>7, <2>8, <2>9
  <2> QED
    BY <2>1, <2>10
<1>7. \A k \in 0 .. nAlign(f) : k \in S
  <2> HIDE DEF S
  <2> QED
    BY <1>1, <1>5, <1>6, IntervalInduction
<1>8. ASSUME NEW k \in 1 .. nAlign(f)
      PROVE  MovedOffset(f, k) = MovedOffset(f, k - 1) + f.body[k].len + f.body[k].extra
  <2>1. MovedOffset(f, k) = MovedOffset(f, k - 1) + Copies(f)[k]
    BY <1>4
  <2>2. Copies(f)[k] = f.body[k].len + f.body[k].extra
    BY <1>3
  <2>3. k - 1 \in 0 .. nAlign(f) /\ k \in 1 .. Len(f.body)
    BY <1>1
  <2>4. MovedOffset(f, k - 1) \in Nat /\ f.body[k].len \in Nat
    BY <1>4, <2>3, LengthsAre
  <2>5. f.body[k].extra \in Int
    BY <2>4 DEF Enlargeable
  <2> QED
    BY <2>1, <2>2, <2>4, <2>5
<1> QED
  BY <1>4, <1>7, <1>8

\* The copies fit into the offsets that the alignment can hold.
LEMMA MovedInRange ==
    ASSUME NEW f \in Functions, Enlargeable(f), NEW k \in 0 .. nAlign(f)
    PROVE  /\ MovedOffset(f, k) < TrampolineRange
           /\ k > 0 => /\ TargetOffset(f, k - 1) < CbJump
                       /\ MovedOffset(f, k) <= 3 * (CbJump - 1) + f.body[k].len + f.body[k].extra
<1>1. nAlign(f) \in Nat /\ nAlign(f) \in 1 .. Len(f.body) /\ Len(f.body) \in Nat
  BY Moved
<1>2. CbJump \in Nat \ {0} /\ TrampolineRange \in Nat /\ 3 * (CbJump - 1) + 19 < TrampolineRange
  BY SizesAssumption
<1>3. CASE k = 0
  BY <1>2, <1>3, MovedOffsets
<1>4. CASE k # 0
  <2>1. k \in 1 .. nAlign(f) /\ k - 1 \in 0 .. nAlign(f) - 1 /\ k - 1 \in 0 .. nAlign(f) /\ k - 1 \in 0 .. Len(f.body)
    BY <1>1, <1>4
  <2>2. TargetOffset(f, k - 1) < CbJump
    BY <2>1, MovedIsShort
  <2>3. TargetOffset(f, k - 1) \in Nat
    BY <2>1, TargetOffsets
  <2>4. MovedOffset(f, k - 1) \in Nat /\ MovedOffset(f, k - 1) <= 3 * TargetOffset(f, k - 1)
    BY <2>1, MovedOffsets
  <2>5. MovedOffset(f, k) = MovedOffset(f, k - 1) + f.body[k].len + f.body[k].extra
    BY <2>1, MovedOffsets
  <2>6. f.body[k].len \in Nat /\ f.body[k].extra \in Int
    <3>1. k \in 1 .. Len(f.body)
      BY <1>1, <2>1
    <3>2. f.body[k].len \in Nat
      BY <3>1, LengthsAre
    <3>3. f.body[k].extra \in 0 .. 2 * f.body[k].len
      BY <2>1 DEF Enlargeable
    <3> QED
      BY <3>2, <3>3
  <2>7. f.body[k].len + f.body[k].extra <= 19
    BY <2>1, CopiesAre
  <2> QED
    BY <1>2, <2>2, <2>3, <2>4, <2>5, <2>6, <2>7
<1> QED
  BY <1>3, <1>4

-----------------------------------------------------------------------------
(* The bytes that the jump overwrites.                                     *)

\* The padding is counted only while the bytes are fewer than the jump's.
LEMMA PaddingCounted ==
    ASSUME NEW f \in Functions
    PROVE  /\ cbTarget(f) \in Nat
           /\ TargetOffset(f, nAlign(f)) >= CbJump => cbTarget(f) = TargetOffset(f, nAlign(f))
<1> DEFINE k == Len(f.padding)
           T == TargetOffset(f, nAlign(f))
           Is(at) == at = [n \in 0 .. k |-> IF n = 0 THEN T
                                           ELSE IF at[n - 1] >= CbJump THEN at[n - 1]
                                           ELSE at[n - 1] + f.padding[n]]
           h == [n \in 1 .. k |-> [x \in Nat |-> IF x >= CbJump THEN x ELSE x + f.padding[n]]]
<1>1. k \in Nat /\ \A n \in 1 .. k : f.padding[n] \in Nat
  BY FunctionsAssumption
<1>2. T \in Nat
  BY Moved, TargetOffsets
<1>3. CbJump \in Nat
  BY SizesAssumption
<1>4. /\ \A n \in 1 .. k : \A x \in Nat : h[n][x] = IF x >= CbJump THEN x ELSE x + f.padding[n]
      /\ Closed(h, k, Nat)
  BY <1>1 DEF Closed
<1>5. cbTarget(f) = (CHOOSE at : Is(at))[k]
  BY DEF cbTarget, Padded
<1> HIDE DEF h, k, T
<1>6. PICK g : g \in Begun(k, Nat, T, h)
  BY <1>1, <1>2, <1>4, Recursion
<1>7. \A n \in 1 .. k : n - 1 \in 0 .. k /\ n \in 0 .. k /\ n # 0
  BY <1>1
<1>8. Is(g)
  <2>1. g = [n \in 0 .. k |-> g[n]] /\ g[0] = T
    BY <1>6 DEF Begun
  <2>2. ASSUME NEW n \in 1 .. k
        PROVE  g[n] = IF g[n - 1] >= CbJump THEN g[n - 1] ELSE g[n - 1] + f.padding[n]
    <3>1. g[n] = h[n][g[n - 1]] /\ g[n - 1] \in Nat
      BY <1>6, <1>7 DEF Begun
    <3> QED
      BY <1>4, <3>1
  <2>3. \A n \in 0 .. k : n = 0 \/ n \in 1 .. k
    BY <1>1
  <2> QED
    BY <2>1, <2>2, <2>3
<1> DEFINE at == CHOOSE at : Is(at)
<1>9. Is(at)
  BY <1>8
<1> HIDE DEF at
<1>10. at[0] = T /\ \A n \in 1 .. k : at[n] = IF at[n - 1] >= CbJump THEN at[n - 1]
                                            ELSE at[n - 1] + f.padding[n]
  BY <1>1, <1>7, <1>9
<1>11. Follows(k, Nat, T, h, at)
  <2>1. at = [n \in 0 .. k |-> at[n]]
    BY <1>9
  <2>2. \A n \in 1 .. k : at[n - 1] \in Nat => at[n] = h[n][at[n - 1]]
    BY <1>4, <1>10
  <2> HIDE DEF Is
  <2> QED
    BY <1>10, <2>1, <2>2 DEF Follows
<1> HIDE DEF Is
<1>12. at \in Begun(k, Nat, T, h)
  BY <1>1, <1>2, <1>4, <1>11, Unfolded
<1>13. cbTarget(f) = at[k] /\ k \in 0 .. k
  BY <1>1, <1>5 DEF at
<1>14. cbTarget(f) \in Nat
  BY <1>12, <1>13 DEF Begun
<1>15. ASSUME T >= CbJump PROVE cbTarget(f) = T
  <2> DEFINE S == {n \in 0 .. k : at[n] = T}
  <2>1. 0 \in S
    BY <1>1, <1>10
  <2>2. ASSUME NEW n \in 0 .. k - 1, n \in S PROVE n + 1 \in S
    <3>1. n + 1 \in 1 .. k /\ (n + 1) - 1 = n /\ n + 1 \in 0 .. k
      BY <1>1
    <3> QED
      BY <1>10, <1>15, <2>2, <3>1
  <2>3. k \in S
    <3> HIDE DEF S
    <3> QED
      BY <1>1, <1>13, <2>1, <2>2, IntervalInduction
  <2> QED
    BY <1>13, <2>3
<1> QED
  BY <1>14, <1>15 DEF T

\* The jump overwrites the instructions that are moved, and no others.
LEMMA OverwrittenAreMoved ==
    ASSUME NEW f \in Functions, ~TooFewInstructions(f), NEW k \in 0 .. Len(f.body) - 1
    PROVE  TargetOffset(f, k) < cbTarget(f) <=> k < nAlign(f)
<1> DEFINE n == nAlign(f)
<1>1. n \in 1 .. Len(f.body) /\ Len(f.body) \in Nat
  BY Moved
<1>2. cbTarget(f) \in Nat /\ cbTarget(f) >= CbJump /\ CbJump \in Nat
  BY PaddingCounted, SizesAssumption DEF TooFewInstructions
<1>3. TargetOffset(f, k) \in Nat
  BY <1>1, TargetOffsets
<1> HIDE DEF n
<1>4. CASE k < n
  <2>1. k \in 0 .. n - 1
    BY <1>1, <1>4
  <2>2. TargetOffset(f, k) < CbJump
    BY <2>1, MovedIsShort DEF n
  <2> QED
    BY <1>2, <1>3, <1>4, <2>2 DEF n
<1>5. CASE ~(k < n)
  <2>1. n < Len(f.body)
    BY <1>1, <1>5
  <2>2. cbTarget(f) = TargetOffset(f, n)
    BY <2>1, MovedIsShort, PaddingCounted DEF n
  <2>3. k = n \/ n \in 0 .. k - 1
    BY <1>1, <1>5
  <2>4. k \in 0 .. Len(f.body)
    BY <1>1
  <2>5. TargetOffset(f, n) <= TargetOffset(f, k)
    BY <1>3, <2>3, <2>4, TargetOffsets
  <2> QED
    BY <1>2, <1>3, <1>5, <2>2, <2>5 DEF n
<1> QED
  BY <1>4, <1>5

-----------------------------------------------------------------------------
(* The alignment of the two copies.                                        *)

\* An offset that fits is kept as it is.
LEMMA Fits ==
    ASSUME NEW x \in Nat, NEW r \in Nat, x < r
    PROVE  x % r = x
OBVIOUS

\* The lookups stop at the first of the entries that match.
LEMMA First ==
    ASSUME NEW n \in Nat, NEW S \in SUBSET (1 .. n), S # {}
    PROVE  FirstOf(S) \in S /\ \A k \in S : FirstOf(S) <= k
<1>1. S \in SUBSET Nat
  OBVIOUS
<1>2. \E m \in S : \A k \in S : m <= k
  BY <1>1, LeastMember
<1> QED
  BY <1>2 DEF FirstOf

\* The entries that were written, and those that DetourAttachEx has cleared.
LEMMA Entries ==
    ASSUME NEW f \in Functions, Enlargeable(f), NEW n \in 1 .. AlignEntries
    PROVE  /\ n > nAlign(f) => rAlign(f)[n].obTarget = 0 /\ rAlign(f)[n].obTrampoline = 0
           /\ n < nAlign(f) => rAlign(f)[n].obTarget = TargetOffset(f, n)
           /\ n = nAlign(f) => rAlign(f)[n].obTarget = TargetOffset(f, n) % TargetRange
           /\ n <= nAlign(f) => /\ rAlign(f)[n].obTrampoline = MovedOffset(f, n)
                                /\ rAlign(f)[n].obTrampoline # 0
<1>1. nAlign(f) \in 1 .. Len(f.body) /\ Len(f.body) \in Nat /\ AlignEntries \in Nat
  BY Moved, SizesAssumption
<1>2. CbJump \in Nat /\ TargetRange \in Nat /\ TrampolineRange \in Nat /\ CbJump <= TargetRange
  BY SizesAssumption
<1>3. rAlign(f)[n] = IF n <= nAlign(f)
                     THEN [obTarget     |-> TargetOffset(f, n) % TargetRange,
                           obTrampoline |-> MovedOffset(f, n) % TrampolineRange]
                     ELSE [obTarget |-> 0, obTrampoline |-> 0]
  BY DEF rAlign
<1>4. CASE n > nAlign(f)
  BY <1>1, <1>3, <1>4
<1>5. CASE n <= nAlign(f)
  <2>1. n \in 0 .. nAlign(f) /\ n \in 1 .. nAlign(f) /\ n \in 0 .. Len(f.body)
    BY <1>1, <1>5
  <2>2. /\ rAlign(f)[n].obTarget = TargetOffset(f, n) % TargetRange
        /\ rAlign(f)[n].obTrampoline = MovedOffset(f, n) % TrampolineRange
    BY <1>3, <1>5
  <2>3. MovedOffset(f, n) \in Nat /\ MovedOffset(f, n) < TrampolineRange /\ TargetOffset(f, n) \in Nat
    BY <2>1, MovedOffsets, MovedInRange, TargetOffsets
  <2>4. MovedOffset(f, n) % TrampolineRange = MovedOffset(f, n)
    BY <1>2, <2>3, Fits
  <2>5. MovedOffset(f, n) # 0
    <3>1. TargetOffset(f, n) >= n /\ TargetOffset(f, n) <= MovedOffset(f, n)
      BY <2>1, TargetOffsets, MovedOffsets
    <3> QED
      BY <2>1, <2>3, <3>1
  <2>6. ASSUME n < nAlign(f) PROVE TargetOffset(f, n) % TargetRange = TargetOffset(f, n)
    <3>1. n \in 0 .. nAlign(f) - 1
      BY <1>1, <2>6
    <3>2. TargetOffset(f, n) < CbJump
      BY <3>1, MovedIsShort
    <3> QED
      BY <1>2, <2>3, <3>2, Fits
  <2> QED
    BY <1>1, <1>5, <2>2, <2>4, <2>5, <2>6
<1> QED
  BY <1>1, <1>4, <1>5

\* An instruction that is moved is found in the copy.
LEMMA FoundInCopy ==
    ASSUME NEW f \in Functions, Enlargeable(f), EndFitsAlign(f), NEW k \in 0 .. nAlign(f) - 1
    PROVE  AlignFromTarget(f, TargetOffset(f, k)) = MovedOffset(f, k)
<1> DEFINE off == TargetOffset(f, k)
           found == {n \in 1 .. AlignEntries : rAlign(f)[n].obTarget = off}
<1>1. nAlign(f) \in 1 .. Len(f.body) /\ Len(f.body) \in Nat /\ AlignEntries \in Nat
  BY Moved, SizesAssumption
<1>2. nAlign(f) <= AlignEntries
  BY MovedIsShort
<1>3. found \in SUBSET (1 .. AlignEntries)
  OBVIOUS
<1>4. AlignFromTarget(f, off) = IF found = {} THEN 0 ELSE rAlign(f)[FirstOf(found)].obTrampoline
  BY DEF AlignFromTarget
<1>5. k \in 0 .. Len(f.body)
  BY <1>1
<1>6. CASE k = 0
  <2>1. off = 0 /\ MovedOffset(f, k) = 0
    BY <1>6, TargetOffsets, MovedOffsets
  <2>2. ASSUME NEW n \in found PROVE n > nAlign(f)
    <3>1. n \in 1 .. AlignEntries /\ rAlign(f)[n].obTarget = 0
      BY <2>1
    <3>2. n # nAlign(f)
      BY <3>1, Entries DEF EndFitsAlign
    <3>3. ~(n < nAlign(f))
      <4>1. ASSUME n < nAlign(f) PROVE FALSE
        <5>1. n \in 0 .. Len(f.body) /\ n > 0
          BY <1>1, <3>1, <4>1
        <5>2. TargetOffset(f, n) >= n /\ TargetOffset(f, n) \in Nat
          BY <5>1, TargetOffsets
        <5>3. TargetOffset(f, n) = 0
          BY <3>1, <4>1, Entries
        <5> QED
          BY <5>1, <5>2, <5>3
      <4> QED
        BY <4>1
    <3> QED
      BY <1>1, <3>1, <3>2, <3>3
  <2>3. CASE found = {}
    BY <1>4, <2>1, <2>3
  <2>4. CASE found # {}
    <3> HIDE DEF found
    <3>1. FirstOf(found) \in found
      BY <1>1, <1>3, <2>4, First
    <3>2. FirstOf(found) > nAlign(f) /\ FirstOf(found) \in 1 .. AlignEntries
      BY <1>3, <2>2, <3>1
    <3>3. rAlign(f)[FirstOf(found)].obTrampoline = 0
      BY <3>2, Entries
    <3> QED
      BY <1>4, <2>1, <2>4, <3>3
  <2> QED
    BY <2>3, <2>4
<1>7. CASE k # 0
  <2>1. k \in 1 .. AlignEntries /\ k < nAlign(f) /\ k \in 0 .. nAlign(f)
    BY <1>1, <1>2, <1>7
  <2>2. k \in found
    BY <2>1, Entries
  <2>3. ASSUME NEW n \in found, n < k PROVE FALSE
    <3>1. n \in 1 .. AlignEntries /\ n < nAlign(f) /\ rAlign(f)[n].obTarget = off
      BY <1>1, <2>1, <2>3
    <3>2. TargetOffset(f, n) = off
      BY <3>1, Entries
    <3>3. n \in 0 .. k - 1
      BY <2>1, <2>3, <3>1
    <3>4. TargetOffset(f, n) < TargetOffset(f, k)
      BY <1>5, <3>3, TargetOffsets
    <3>5. TargetOffset(f, k) \in Nat
      BY <1>5, TargetOffsets
    <3> QED
      BY <3>2, <3>4, <3>5
  <2>4. rAlign(f)[k].obTrampoline = MovedOffset(f, k)
    <3>1. k <= nAlign(f)
      BY <1>1, <2>1
    <3> QED
      BY <2>1, <3>1, Entries
  <2> HIDE DEF found
  <2>5. FirstOf(found) \in found /\ FirstOf(found) <= k
    BY <1>1, <1>3, <2>2, First
  <2>6. FirstOf(found) \in 1 .. AlignEntries
    BY <1>3, <2>5
  <2>7. FirstOf(found) = k
    BY <2>1, <2>3, <2>5, <2>6
  <2> QED
    BY <1>4, <2>2, <2>4, <2>7
<1> QED
  BY <1>6, <1>7

\* A copy near the start of the trampoline is found in the function.
LEMMA FoundInFunction ==
    ASSUME NEW f \in Functions, Enlargeable(f), NEW k \in 0 .. nAlign(f), MovedOffset(f, k) < 8
    PROVE  AlignFromTrampoline(f, MovedOffset(f, k)) = TargetOffset(f, k)
<1> DEFINE off == MovedOffset(f, k)
           found == {n \in 1 .. AlignEntries : rAlign(f)[n].obTrampoline = off}
<1>1. nAlign(f) \in 1 .. Len(f.body) /\ Len(f.body) \in Nat /\ AlignEntries \in Nat
  BY Moved, SizesAssumption
<1>2. nAlign(f) <= AlignEntries
  BY MovedIsShort
<1>3. found \in SUBSET (1 .. AlignEntries)
  OBVIOUS
<1>4. AlignFromTrampoline(f, off) = IF found = {} THEN 0 ELSE rAlign(f)[FirstOf(found)].obTarget
  BY DEF AlignFromTrampoline
<1>5. k \in 0 .. Len(f.body)
  BY <1>1
<1>6. CASE k = 0
  <2>1. off = 0 /\ TargetOffset(f, k) = 0
    BY <1>6, TargetOffsets, MovedOffsets
  <2>2. ASSUME NEW n \in found PROVE n > nAlign(f)
    <3>1. n \in 1 .. AlignEntries /\ rAlign(f)[n].obTrampoline = 0
      BY <2>1
    <3>2. ~(n <= nAlign(f))
      BY <3>1, Entries
    <3> QED
      BY <1>1, <3>1, <3>2
  <2>3. CASE found = {}
    BY <1>4, <2>1, <2>3
  <2>4. CASE found # {}
    <3> HIDE DEF found
    <3>1. FirstOf(found) \in found
      BY <1>1, <1>3, <2>4, First
    <3>2. FirstOf(found) > nAlign(f) /\ FirstOf(found) \in 1 .. AlignEntries
      BY <1>3, <2>2, <3>1
    <3>3. rAlign(f)[FirstOf(found)].obTarget = 0
      BY <3>2, Entries
    <3> QED
      BY <1>4, <2>1, <2>4, <3>3
  <2> QED
    BY <2>3, <2>4
<1>7. CASE k # 0
  <2>1. k \in 1 .. AlignEntries /\ k <= nAlign(f)
    BY <1>1, <1>2, <1>7
  <2>2. k \in found
    BY <2>1, Entries
  <2>3. ASSUME NEW n \in found, n < k PROVE FALSE
    <3>1. n \in 1 .. AlignEntries /\ n <= nAlign(f) /\ rAlign(f)[n].obTrampoline = off
      BY <1>1, <2>1, <2>3
    <3>2. MovedOffset(f, n) = off
      BY <3>1, Entries
    <3>3. n \in 0 .. k - 1
      BY <2>1, <2>3, <3>1
    <3>4. MovedOffset(f, n) < MovedOffset(f, k) /\ MovedOffset(f, k) \in Nat
      BY <3>3, MovedOffsets
    <3> QED
      BY <3>2, <3>4
  <2>4. rAlign(f)[k].obTarget = TargetOffset(f, k)
    <3>1. TargetOffset(f, k) \in Nat /\ TargetOffset(f, k) < TargetRange /\ TargetRange \in Nat
      <4>1. TargetOffset(f, k) <= MovedOffset(f, k) /\ MovedOffset(f, k) \in Nat
        BY MovedOffsets
      <4>2. TargetOffset(f, k) \in Nat
        BY <1>5, TargetOffsets
      <4>3. TargetRange \in Nat /\ 8 <= TargetRange
        BY SizesAssumption
      <4> QED
        BY <4>1, <4>2, <4>3
    <3>2. TargetOffset(f, k) % TargetRange = TargetOffset(f, k)
      BY <3>1, Fits
    <3>3. k < nAlign(f) \/ k = nAlign(f)
      BY <1>1, <2>1
    <3> QED
      BY <2>1, <3>2, <3>3, Entries
  <2> HIDE DEF found
  <2>5. FirstOf(found) \in found /\ FirstOf(found) <= k
    BY <1>1, <1>3, <2>2, First
  <2>6. FirstOf(found) \in 1 .. AlignEntries
    BY <1>3, <2>5
  <2>7. FirstOf(found) = k
    BY <2>1, <2>3, <2>5, <2>6
  <2> QED
    BY <1>4, <2>2, <2>4, <2>7
<1> QED
  BY <1>6, <1>7

-----------------------------------------------------------------------------
(* Where a thread is.                                                      *)

\* The offset of an instruction tells which one it is.
LEMMA FoundAt ==
    ASSUME NEW last \in Nat, NEW offset, NEW k \in 1 .. last,
           \A i, j \in 1 .. last : offset[i] = offset[j] => i = j
    PROVE  AtOffset(offset, last, offset[k]) = k
<1>1. \E i \in 1 .. last : offset[i] = offset[k]
  OBVIOUS
<1>2. AtOffset(offset, last, offset[k]) = CHOOSE i \in 1 .. last : offset[i] = offset[k]
  BY <1>1 DEF AtOffset
<1>3. (CHOOSE i \in 1 .. last : offset[i] = offset[k]) = k
  OBVIOUS
<1> QED
  BY <1>2, <1>3

\* In the function and in its copy a thread is where the instruction begins
\* that it has come to.  While the detour is attached, one in the function is
\* at the jump or behind what the jump has overwritten; while it is not, one
\* that is left in the copy is behind the size of a pointer.
At(f, h, p, d) ==
    /\ p[1] = "target" => /\ d \in 1 .. Len(f.body)
                          /\ p[2] = TargetOffset(f, d - 1)
                          /\ h => d = 1 \/ p[2] >= cbTarget(f)
    /\ p[1] = "moved" => /\ d \in 1 .. Len(f.body) /\ d <= nAlign(f) + 1
                         /\ p[2] = MovedOffset(f, d - 1)
                         /\ ~h => p[2] >= PointerSize(f)

Places == {"elsewhere", "crashed", "target", "moved", "codeIn", "detour"}

PlaceInv ==
    /\ code \in Functions
    /\ hooked \in BOOLEAN
    /\ hooked => ~TooFewInstructions(code)
    /\ ip \in [Threads -> Places \X Nat]
    /\ due \in [Threads -> Nat]
    /\ \A t \in Threads : At(code, hooked, ip[t], due[t])

\* Places where nothing of the function is run.
LEMMA AnywhereElse ==
    ASSUME NEW f, NEW h, NEW p, NEW d, p[1] # "target", p[1] # "moved"
    PROVE  At(f, h, p, d)
BY DEF At

\* The two places where a call of the function begins.
LEMMA AtEntry ==
    ASSUME NEW f \in Functions, NEW h
    PROVE  /\ At(f, h, <<"target", 0>>, 1)
           /\ Enlargeable(f) /\ h => At(f, h, <<"moved", 0>>, 1)
<1>1. 1 \in 1 .. Len(f.body) /\ 1 <= nAlign(f) + 1
  BY Moved
<1>2. TargetOffset(f, 1 - 1) = 0
  BY TargetOffsets
<1>3. Enlargeable(f) => MovedOffset(f, 1 - 1) = 0
  BY MovedOffsets
<1> QED
  BY <1>1, <1>2, <1>3 DEF At

\* A thread in the bytes that are overwritten is moved to the copy of its
\* instruction.
LEMMA AttachMoves ==
    ASSUME NEW f \in Functions, Enlargeable(f), EndFitsAlign(f), ~TooFewInstructions(f),
           NEW p \in Places \X Nat, NEW d \in Nat, At(f, FALSE, p, d)
    PROVE  MovedIn(f, p) \in Places \X Nat /\ At(f, TRUE, MovedIn(f, p), d)
<1>1. nAlign(f) \in 1 .. Len(f.body) /\ Len(f.body) \in Nat
  BY Moved
<1>2. p[2] \in Nat /\ cbTarget(f) \in Nat
  BY PaddingCounted
<1>3. CASE InOverwritten(f, p)
  <2>1. p[1] = "target" /\ p[2] < cbTarget(f)
    BY <1>3 DEF InOverwritten
  <2>2. d \in 1 .. Len(f.body) /\ p[2] = TargetOffset(f, d - 1)
    BY <2>1 DEF At
  <2> DEFINE k == d - 1
  <2>3. k \in 0 .. Len(f.body) - 1
    BY <1>1, <2>2
  <2>4. k < nAlign(f)
    BY <2>1, <2>2, <2>3, OverwrittenAreMoved
  <2>5. k \in 0 .. nAlign(f) - 1 /\ k \in 0 .. nAlign(f) /\ d <= nAlign(f) + 1
    BY <1>1, <2>3, <2>4
  <2>6. AlignFromTarget(f, p[2]) = MovedOffset(f, k) /\ MovedOffset(f, k) \in Nat
    BY <2>2, <2>5, FoundInCopy, MovedOffsets
  <2> DEFINE q == <<"moved", MovedOffset(f, k)>>
  <2>7. MovedIn(f, p) = q
    BY <1>3, <2>6 DEF MovedIn
  <2>8. q[1] = "moved" /\ q[2] = MovedOffset(f, k) /\ q[1] # "target" /\ q \in Places \X Nat
    BY <2>6 DEF Places
  <2> HIDE DEF q
  <2> QED
    BY <2>2, <2>5, <2>7, <2>8 DEF At
<1>4. CASE ~InOverwritten(f, p)
  <2>1. MovedIn(f, p) = p
    BY <1>4 DEF MovedIn
  <2>2. p[1] = "target" => p[2] >= cbTarget(f)
    BY <1>2, <1>4 DEF InOverwritten
  <2> QED
    BY <2>1, <2>2 DEF At
<1> QED
  BY <1>3, <1>4

\* One near the start of the copy is moved back to its instruction.
LEMMA DetachMoves ==
    ASSUME NEW f \in Functions, Enlargeable(f),
           NEW p \in Places \X Nat, NEW d \in Nat, At(f, TRUE, p, d)
    PROVE  MovedOut(f, p) \in Places \X Nat /\ At(f, FALSE, MovedOut(f, p), d)
<1>1. nAlign(f) \in 1 .. Len(f.body) /\ Len(f.body) \in Nat
  BY Moved
<1>2. p[2] \in Nat /\ PointerSize(f) \in Nat /\ PointerSize(f) <= 8
  BY DEF PointerSize
<1>3. CASE InTrampoline(f, p)
  <2>1. p[1] = "moved" /\ p[2] < PointerSize(f)
    BY <1>3 DEF InTrampoline
  <2>2. d \in 1 .. Len(f.body) /\ d <= nAlign(f) + 1 /\ p[2] = MovedOffset(f, d - 1)
    BY <2>1 DEF At
  <2> DEFINE k == d - 1
  <2>3. k \in 0 .. nAlign(f) /\ k \in 0 .. Len(f.body)
    BY <1>1, <2>2
  <2>4. MovedOffset(f, k) < 8
    BY <1>2, <2>1, <2>2
  <2>5. AlignFromTrampoline(f, p[2]) = TargetOffset(f, k) /\ TargetOffset(f, k) \in Nat
    BY <2>2, <2>3, <2>4, FoundInFunction, TargetOffsets
  <2> DEFINE q == <<"target", TargetOffset(f, k)>>
  <2>6. MovedOut(f, p) = q
    BY <1>3, <2>5 DEF MovedOut
  <2>7. q[1] = "target" /\ q[2] = TargetOffset(f, k) /\ q[1] # "moved" /\ q \in Places \X Nat
    BY <2>5 DEF Places
  <2> HIDE DEF q
  <2> QED
    BY <2>2, <2>6, <2>7 DEF At
<1>4. CASE ~InTrampoline(f, p)
  <2>1. p[1] = "moved" => p[2] >= PointerSize(f)
    BY <1>2, <1>4 DEF InTrampoline
  <2>2. MovedOut(f, p) = p
    BY <1>4 DEF MovedOut
  <2> QED
    BY <2>1, <2>2 DEF At
<1> QED
  BY <1>3, <1>4

\* The instruction a thread finds is the one it has come to.
LEMMA FindsItsInstruction ==
    ASSUME code \in Functions, Enlargeable(code), NEW h,
           NEW p \in Places \X Nat, NEW d \in Nat, At(code, h, p, d),
           p[1] \in {"target", "moved"}
    PROVE  InstructionAt(p) = d
<1> DEFINE f == code
<1>0. f \in Functions /\ Enlargeable(f)
  OBVIOUS
<1>1. nAlign(f) \in 1 .. Len(f.body) /\ Len(f.body) \in Nat
  BY Moved
<1>2. CASE p[1] = "target"
  <2>1. d \in 1 .. Len(f.body) /\ p[2] = TargetOffset(f, d - 1)
    BY <1>2 DEF At
  <2> DEFINE offset == [i \in 1 .. Len(f.body) |-> TargetOffset(f, i - 1)]
  <2>2. ASSUME NEW i \in 1 .. Len(f.body), NEW j \in 1 .. Len(f.body), i < j
        PROVE  offset[i] # offset[j]
    <3>1. j - 1 \in 0 .. Len(f.body) /\ i - 1 \in 0 .. (j - 1) - 1 /\ i - 1 \in 0 .. Len(f.body)
      BY <1>1, <2>2
    <3>2. TargetOffset(f, i - 1) < TargetOffset(f, j - 1)
      BY <1>0, <3>1, TargetOffsets
    <3>3. TargetOffset(f, i - 1) \in Nat /\ TargetOffset(f, j - 1) \in Nat
      BY <1>0, <3>1, TargetOffsets
    <3> QED
      BY <3>2, <3>3
  <2>3. \A i, j \in 1 .. Len(f.body) : offset[i] = offset[j] => i = j
    <3> HIDE DEF offset, f
    <3> QED
      BY <1>1, <2>2
  <2>4. offset[d] = p[2]
    BY <2>1
  <2>5. InstructionAt(p) = AtOffset(offset, Len(f.body), p[2])
    BY <1>2 DEF InstructionAt, InFunction
  <2>6. AtOffset(offset, Len(f.body), offset[d]) = d
    <3> HIDE DEF offset, f
    <3> QED
      BY <1>1, <2>1, <2>3, FoundAt
  <2> QED
    BY <2>4, <2>5, <2>6
<1>3. CASE p[1] = "moved"
  <2>1. d \in 1 .. nAlign(f) + 1 /\ p[2] = MovedOffset(f, d - 1)
    BY <1>1, <1>3 DEF At
  <2> DEFINE last == nAlign(f) + 1
             offset == [i \in 1 .. last |-> MovedOffset(f, i - 1)]
  <2>2. ASSUME NEW i \in 1 .. last, NEW j \in 1 .. last, i < j
        PROVE  offset[i] # offset[j]
    <3>1. j - 1 \in 0 .. nAlign(f) /\ i - 1 \in 0 .. (j - 1) - 1 /\ i - 1 \in 0 .. nAlign(f)
      BY <1>1, <2>2
    <3>2. MovedOffset(f, i - 1) < MovedOffset(f, j - 1)
      BY <1>0, <3>1, MovedOffsets
    <3>3. MovedOffset(f, i - 1) \in Nat /\ MovedOffset(f, j - 1) \in Nat
      BY <1>0, <3>1, MovedOffsets
    <3> QED
      BY <3>2, <3>3
  <2>3. \A i, j \in 1 .. last : offset[i] = offset[j] => i = j
    <3> HIDE DEF offset, f
    <3> QED
      BY <1>1, <2>2
  <2>4. offset[d] = p[2]
    BY <2>1
  <2>5. InstructionAt(p) = AtOffset(offset, last, p[2])
    BY <1>3 DEF InstructionAt, InMoved
  <2>6. AtOffset(offset, last, offset[d]) = d
    <3>1. last \in Nat /\ d \in 1 .. last
      BY <1>1, <2>1
    <3> HIDE DEF offset, f, last
    <3> QED
      BY <3>1, <2>3, FoundAt
  <2> QED
    BY <2>4, <2>5, <2>6
<1> QED
  BY <1>2, <1>3

-----------------------------------------------------------------------------
(* The steps.                                                              *)

\* One thread goes somewhere, and the others stay.
LEMMA GoesStep ==
    ASSUME PlaceInv, NEW t \in Threads, NEW place \in Places \X Nat, NEW d \in Nat,
           At(code, hooked, place, d), Goes(t, place, d)
    PROVE  PlaceInv'
<1>1. /\ ip' = [ip EXCEPT ![t] = place] /\ due' = [due EXCEPT ![t] = d]
      /\ code' = code /\ hooked' = hooked
  BY DEF Goes
<1>2. ip' \in [Threads -> Places \X Nat] /\ due' \in [Threads -> Nat]
  BY <1>1 DEF PlaceInv
<1>3. ASSUME NEW u \in Threads PROVE At(code, hooked, ip'[u], due'[u])
  <2>1. CASE u = t
    BY <1>1, <2>1 DEF PlaceInv
  <2>2. CASE u # t
    <3>1. ip'[u] = ip[u] /\ due'[u] = due[u]
      BY <1>1, <2>2 DEF PlaceInv
    <3> QED
      BY <3>1 DEF PlaceInv
  <2> QED
    BY <2>1, <2>2
<1> QED
  BY <1>1, <1>2, <1>3 DEF PlaceInv

\* A thread that is at no instruction of the function has lost nothing.
LEMMA GoesElsewhere ==
    ASSUME PlaceInv, NEW t \in Threads, NEW place \in Places \X Nat,
           place[1] # "target", place[1] # "moved", Goes(t, place, 0)
    PROVE  PlaceInv'
<1>1. At(code, hooked, place, 0)
  BY AnywhereElse
<1> QED
  BY <1>1, GoesStep

LEMMA Else ==
    /\ Elsewhere \in Places \X Nat /\ Elsewhere[1] # "target" /\ Elsewhere[1] # "moved"
    /\ Crashed \in Places \X Nat /\ Crashed[1] # "target" /\ Crashed[1] # "moved"
    /\ <<"codeIn", 0>> \in Places \X Nat /\ <<"codeIn", 0>>[1] # "target" /\ <<"codeIn", 0>>[1] # "moved"
    /\ <<"detour", 0>> \in Places \X Nat /\ <<"detour", 0>>[1] # "target" /\ <<"detour", 0>>[1] # "moved"
    /\ <<"target", 0>> \in Places \X Nat /\ <<"moved", 0>> \in Places \X Nat
BY DEF Elsewhere, Crashed, Places

\* Attaching moves every thread to the copy of its instruction.
LEMMA AttachStep ==
    ASSUME PlaceInv, Enlargeable(code), EndFitsAlign(code), Attach
    PROVE  PlaceInv'
<1>1. /\ hooked = FALSE /\ hooked' = TRUE /\ code' = code /\ due' = due
      /\ ~TooFewInstructions(code) /\ code \in Functions
      /\ ip' = [t \in Threads |-> MovedIn(code, ip[t])]
  BY DEF Attach, PlaceInv
<1>2. ASSUME NEW t \in Threads
      PROVE  MovedIn(code, ip[t]) \in Places \X Nat /\ At(code, TRUE, MovedIn(code, ip[t]), due[t])
  <2>1. ip[t] \in Places \X Nat /\ due[t] \in Nat /\ At(code, FALSE, ip[t], due[t])
    BY <1>1 DEF PlaceInv
  <2> QED
    BY <1>1, <2>1, AttachMoves
<1>3. ip' \in [Threads -> Places \X Nat] /\ \A t \in Threads : ip'[t] = MovedIn(code, ip[t])
  BY <1>1, <1>2
<1>4. \A t \in Threads : At(code', hooked', ip'[t], due'[t])
  BY <1>1, <1>2, <1>3
<1>5. ~TooFewInstructions(code)' /\ due' \in [Threads -> Nat]
  BY <1>1 DEF PlaceInv, TooFewInstructions
<1> QED
  BY <1>1, <1>3, <1>4, <1>5 DEF PlaceInv

\* Removing the detour moves those near the start of the copy back.
LEMMA DetachStep ==
    ASSUME PlaceInv, Enlargeable(code), Detach
    PROVE  PlaceInv'
<1>1. /\ hooked = TRUE /\ hooked' = FALSE /\ code' = code /\ due' = due
      /\ code \in Functions
      /\ ip' = [t \in Threads |-> MovedOut(code, ip[t])]
  BY DEF Detach, PlaceInv
<1>2. ASSUME NEW t \in Threads
      PROVE  MovedOut(code, ip[t]) \in Places \X Nat /\ At(code, FALSE, MovedOut(code, ip[t]), due[t])
  <2>1. ip[t] \in Places \X Nat /\ due[t] \in Nat /\ At(code, TRUE, ip[t], due[t])
    BY <1>1 DEF PlaceInv
  <2> QED
    BY <1>1, <2>1, DetachMoves
<1>3. ip' \in [Threads -> Places \X Nat] /\ \A t \in Threads : ip'[t] = MovedOut(code, ip[t])
  BY <1>1, <1>2
<1>4. \A t \in Threads : At(code', hooked', ip'[t], due'[t])
  BY <1>1, <1>2, <1>3
<1>5. due' \in [Threads -> Nat]
  BY <1>1 DEF PlaceInv
<1> QED
  BY <1>1, <1>3, <1>4, <1>5 DEF PlaceInv

\* Behind the copies, the jump back leads to the instruction that follows them.
LEMMA JumpsBackTo ==
    ASSUME PlaceInv, Enlargeable(code), NEW t \in Threads, JumpsBack(ip[t])
    PROVE  At(code, hooked, <<"target", cbTarget(code)>>, due[t]) /\ cbTarget(code) \in Nat
<1> DEFINE f == code
           d == due[t]
<1>1. f \in Functions /\ ip[t] \in Places \X Nat /\ d \in Nat /\ At(f, hooked, ip[t], d)
  BY DEF PlaceInv
<1>2. ip[t][1] = "moved" /\ InMoved(ip[t][2]) = nAlign(f) + 1
  BY DEF JumpsBack
<1>3. InstructionAt(ip[t]) = d
  BY <1>1, <1>2, FindsItsInstruction
<1>4. d = nAlign(f) + 1
  BY <1>2, <1>3 DEF InstructionAt
<1>5. d \in 1 .. Len(f.body)
  BY <1>1, <1>2 DEF At
<1>6. nAlign(f) \in 1 .. Len(f.body) /\ Len(f.body) \in Nat
  BY <1>1, Moved
<1>7. nAlign(f) < Len(f.body) /\ d - 1 = nAlign(f)
  BY <1>4, <1>5, <1>6
<1>8. cbTarget(f) = TargetOffset(f, nAlign(f)) /\ cbTarget(f) \in Nat
  BY <1>1, <1>7, MovedIsShort, PaddingCounted
<1> DEFINE q == <<"target", cbTarget(f)>>
<1>9. q[1] = "target" /\ q[2] = cbTarget(f) /\ q[1] # "moved"
  OBVIOUS
<1> HIDE DEF q
<1>10. At(f, hooked, q, d)
  BY <1>5, <1>7, <1>8, <1>9 DEF At
<1> QED
  BY <1>8, <1>10 DEF q

\* An instruction that can be run is followed by the one that begins behind it.
LEMMA RunsOn ==
    ASSUME PlaceInv, Enlargeable(code), NEW t \in Threads,
           ip[t][1] \in {"target", "moved"}, ~AtJump(ip[t]),
           ~CannotRun(ip[t]), ~JumpsBack(ip[t]),
           NEW i, i = InstructionAt(ip[t]), ~code.body[i].ends,
           NEW place, place = <<ip[t][1], IF ip[t][1] = "target" THEN TargetOffset(code, i)
                                          ELSE MovedOffset(code, i)>>
    PROVE  place \in Places \X Nat /\ At(code, hooked, place, due[t] + 1) /\ due[t] \in Nat
<1> DEFINE f == code
           d == due[t]
           p == ip[t]
<1>1. f \in Functions /\ p \in Places \X Nat /\ d \in Nat /\ At(f, hooked, p, d) /\ hooked \in BOOLEAN
  BY DEF PlaceInv
<1>2. i = d
  BY <1>1, FindsItsInstruction
<1>3. d \in 1 .. Len(f.body)
  BY <1>1 DEF At
<1>4. nAlign(f) \in 1 .. Len(f.body) /\ Len(f.body) \in Nat /\ DOMAIN f.body = 1 .. Len(f.body)
  BY <1>1, Moved
<1>5. d # Len(f.body)
  BY <1>1, <1>2, <1>3, <1>4, FunctionsAssumption
<1>6. d + 1 \in 1 .. Len(f.body) /\ (d + 1) - 1 = d /\ d \in 0 .. Len(f.body) /\ d - 1 \in 0 .. Len(f.body)
  BY <1>3, <1>4, <1>5
<1>7. p[1] \in Places /\ p[2] \in Nat /\ p = <<p[1], p[2]>>
  BY <1>1
<1>8. CASE p[1] = "target"
  <2>1. place = <<"target", TargetOffset(f, d)>>
    BY <1>2, <1>8
  <2>2. TargetOffset(f, d) \in Nat /\ TargetOffset(f, d - 1) \in Nat
    BY <1>1, <1>6, TargetOffsets
  <2>3. place[1] = "target" /\ place[2] = TargetOffset(f, d) /\ place[1] # "moved" /\ place \in Places \X Nat
    BY <2>1, <2>2 DEF Places
  <2>4. ASSUME hooked PROVE TargetOffset(f, d) >= cbTarget(f)
    <3>1. p[2] # 0
      BY <1>7, <1>8, <2>4 DEF AtJump
    <3>2. cbTarget(f) \in Nat
      BY <1>1, PaddingCounted
    <3>3. ~(0 < p[2] /\ p[2] < cbTarget(f))
      BY <1>8, <2>4 DEF CannotRun, Overwritten
    <3>4. p[2] >= cbTarget(f)
      BY <1>7, <3>1, <3>2, <3>3
    <3>5. p[2] = TargetOffset(f, d - 1)
      BY <1>1, <1>8 DEF At
    <3>6. TargetOffset(f, d - 1) < TargetOffset(f, d)
      <4>1. d - 1 \in 0 .. d - 1
        BY <1>3, <1>4
      <4> QED
        BY <1>1, <1>6, <4>1, TargetOffsets
    <3> QED
      BY <2>2, <3>2, <3>4, <3>5, <3>6
  <2> HIDE DEF f, d, p
  <2>5. At(f, hooked, place, d + 1)
    BY <1>6, <2>3, <2>4 DEF At
  <2> QED
    BY <1>1, <2>3, <2>5 DEF f, d
<1>9. CASE p[1] = "moved"
  <2>1. d <= nAlign(f) + 1
    BY <1>1, <1>9 DEF At
  <2>2. InMoved(p[2]) = d
    BY <1>2, <1>9 DEF InstructionAt
  <2>3. d # nAlign(f) + 1
    BY <1>9, <2>2 DEF JumpsBack
  <2>4. d \in 0 .. nAlign(f) /\ d + 1 <= nAlign(f) + 1
    BY <1>3, <1>4, <2>1, <2>3
  <2>5. place = <<"moved", MovedOffset(f, d)>> /\ MovedOffset(f, d) \in Nat
    BY <1>1, <1>2, <1>9, <2>4, MovedOffsets
  <2>6. place[1] = "moved" /\ place[2] = MovedOffset(f, d) /\ place[1] # "target" /\ place \in Places \X Nat
    BY <2>5 DEF Places
  <2>7. hooked
    BY <1>9 DEF CannotRun, Freed
  <2> HIDE DEF f, d, p
  <2>8. At(f, hooked, place, d + 1)
    BY <1>6, <2>4, <2>6, <2>7 DEF At
  <2> QED
    BY <1>1, <2>6, <2>8 DEF f, d
<1> QED
  BY <1>8, <1>9

\* A step of the processor.
LEMMA RunStep ==
    ASSUME PlaceInv, Enlargeable(code), NEW t \in Threads, Run(t)
    PROVE  PlaceInv'
<1> DEFINE i == InstructionAt(ip[t])
           place == <<ip[t][1], IF ip[t][1] = "target" THEN TargetOffset(code, i)
                                ELSE MovedOffset(code, i)>>
<1>1. ip[t][1] \in {"target", "moved"} /\ ~AtJump(ip[t])
  BY DEF Run
<1>2. due[t] \in Nat
  BY DEF PlaceInv
<1>3. CASE Goes(t, Crashed, 0)
  BY <1>3, Else, GoesElsewhere
<1>4. CASE JumpsBack(ip[t]) /\ Goes(t, <<"target", cbTarget(code)>>, due[t])
  <2>1. At(code, hooked, <<"target", cbTarget(code)>>, due[t]) /\ cbTarget(code) \in Nat
    BY <1>4, JumpsBackTo
  <2>2. <<"target", cbTarget(code)>> \in Places \X Nat
    BY <2>1 DEF Places
  <2> QED
    BY <1>2, <1>4, <2>1, <2>2, GoesStep
<1>5. CASE Goes(t, Elsewhere, 0)
  BY <1>5, Else, GoesElsewhere
<1>6. CASE /\ ~CannotRun(ip[t]) /\ ~JumpsBack(ip[t]) /\ ~code.body[i].ends
           /\ Goes(t, place, due[t] + 1)
  <2> HIDE DEF i, place
  <2>1. place \in Places \X Nat /\ At(code, hooked, place, due[t] + 1)
    BY <1>1, <1>6, RunsOn DEF i, place
  <2>2. due[t] + 1 \in Nat
    BY <1>2
  <2> QED
    BY <1>6, <2>1, <2>2, GoesStep
<1> QED
  BY <1>3, <1>4, <1>5, <1>6 DEF Run

\* Every step leaves every thread at its instruction.
LEMMA PlaceStep ==
    ASSUME PlaceInv, Enlargeable(code), EndFitsAlign(code), [Next]_vars
    PROVE  PlaceInv'
<1>1. code \in Functions
  BY DEF PlaceInv
<1>2. CASE Attach
  BY <1>2, AttachStep
<1>3. CASE Detach
  BY <1>3, DetachStep
<1>4. ASSUME NEW t \in Threads, Call(t) PROVE PlaceInv'
  BY <1>1, <1>4, AtEntry, Else, GoesStep DEF Call
<1>5. ASSUME NEW t \in Threads, TakeJump(t) PROVE PlaceInv'
  <2>1. Goes(t, <<"codeIn", 0>>, 0) \/ Goes(t, <<"detour", 0>>, 0)
    BY <1>5 DEF TakeJump
  <2> QED
    BY <2>1, Else, GoesElsewhere
<1>6. ASSUME NEW t \in Threads, RunCodeIn(t) PROVE PlaceInv'
  <2>1. Goes(t, Crashed, 0) \/ Goes(t, <<"detour", 0>>, 0)
    BY <1>6 DEF RunCodeIn
  <2> QED
    BY <2>1, Else, GoesElsewhere
<1>7. ASSUME NEW t \in Threads, RunDetour(t) PROVE PlaceInv'
  <2>1. \/ hooked /\ Goes(t, <<"moved", 0>>, 1)
        \/ Goes(t, <<"target", 0>>, 1)
        \/ Goes(t, Elsewhere, 0)
    BY <1>7 DEF RunDetour
  <2>2. CASE Goes(t, Elsewhere, 0)
    BY <2>2, Else, GoesElsewhere
  <2>3. CASE hooked /\ Goes(t, <<"moved", 0>>, 1)
    BY <1>1, <2>3, AtEntry, Else, GoesStep
  <2>4. CASE Goes(t, <<"target", 0>>, 1)
    BY <1>1, <2>4, AtEntry, Else, GoesStep
  <2> QED
    BY <2>1, <2>2, <2>3, <2>4
<1>8. ASSUME NEW t \in Threads, Run(t) PROVE PlaceInv'
  BY <1>8, RunStep
<1>9. CASE UNCHANGED vars
  BY <1>9 DEF vars, PlaceInv, At, TooFewInstructions
<1> QED
  BY <1>2, <1>3, <1>4, <1>5, <1>6, <1>7, <1>8, <1>9 DEF Next

\* Init sets it up, with every thread elsewhere.
LEMMA PlaceInit == Init => PlaceInv
<1> SUFFICES ASSUME Init PROVE PlaceInv
    OBVIOUS
<1>1. code \in Functions /\ hooked = FALSE
  BY DEF Init
<1>2. ip \in [Threads -> Places \X Nat] /\ due \in [Threads -> Nat]
  BY Else DEF Init
<1>3. \A t \in Threads : At(code, hooked, ip[t], due[t])
  BY Else, AnywhereElse DEF Init
<1> QED
  BY <1>1, <1>2, <1>3 DEF PlaceInv

\* Steps change no function, so what can be said of one is said for good.
SafeInv ==
    /\ code \in Functions
    /\ Enlargeable(code) /\ EndFitsAlign(code) => PlaceInv

LEMMA CodeStays == [Next]_vars => code' = code
BY DEF Next, vars, Attach, Detach, Call, TakeJump, RunCodeIn, RunDetour, Run, Goes

LEMMA SafeStep == SafeInv /\ [Next]_vars => SafeInv'
<1> SUFFICES ASSUME SafeInv, [Next]_vars PROVE SafeInv'
    OBVIOUS
<1>1. code' = code
  BY CodeStays
<1>2. (Enlargeable(code) /\ EndFitsAlign(code))' => Enlargeable(code) /\ EndFitsAlign(code)
  BY <1>1
<1>3. Enlargeable(code) /\ EndFitsAlign(code) => PlaceInv'
  BY PlaceStep DEF SafeInv
<1>4. (code \in Functions)'
  BY <1>1 DEF SafeInv
<1> QED
  BY <1>2, <1>3, <1>4 DEF SafeInv

\* The place of a thread is no byte of the jump, and its instruction the one
\* that is due.
LEMMA PlaceIsKept == SafeInv => KeepsItsPlace
<1> SUFFICES ASSUME SafeInv, Enlargeable(code), EndFitsAlign(code),
                    NEW t \in Threads, ip[t][1] \in {"target", "moved"}
             PROVE  IF Freed(ip[t]) THEN ip[t][2] >= PointerSize(code)
                    ELSE ~Overwritten(ip[t]) /\ InstructionAt(ip[t]) = due[t]
    BY DEF KeepsItsPlace
<1>1. /\ code \in Functions /\ At(code, hooked, ip[t], due[t])
      /\ ip[t] \in Places \X Nat /\ due[t] \in Nat
  BY DEF SafeInv, PlaceInv
<1>2. InstructionAt(ip[t]) = due[t]
  BY <1>1, FindsItsInstruction
<1>3. ASSUME Overwritten(ip[t]) PROVE FALSE
  <2>1. hooked /\ ip[t][1] = "target" /\ 0 < ip[t][2] /\ ip[t][2] < cbTarget(code)
    BY <1>3 DEF Overwritten
  <2>2. ip[t][2] = TargetOffset(code, due[t] - 1) /\ (due[t] = 1 \/ ip[t][2] >= cbTarget(code))
    BY <1>1, <2>1 DEF At
  <2>3. ip[t][2] \in Nat /\ cbTarget(code) \in Nat /\ TargetOffset(code, 0) = 0
    BY <1>1, PaddingCounted, TargetOffsets
  <2> QED
    BY <2>1, <2>2, <2>3
<1>4. ASSUME Freed(ip[t]) PROVE ip[t][2] >= PointerSize(code)
  BY <1>1, <1>4 DEF Freed, At
<1> QED
  BY <1>2, <1>3, <1>4

\* When a detour is attached or removed, a suspended thread that
\* DetourTransactionCommitEx finds in the overwritten bytes or in the first
\* bytes of the copy goes on with the instruction it had come to, and the only
\* threads left in a freed copy are those further in it than its test looks:
\* for every function of which KeepsItsPlace makes no exception.
THEOREM ThreadsKeepTheirPlace == Spec => []KeepsItsPlace
<1>1. Init => SafeInv
  BY PlaceInit DEF SafeInv, Init
<1>2. SafeInv /\ [Next]_vars => SafeInv'
  BY SafeStep
<1>3. SafeInv => KeepsItsPlace
  BY PlaceIsKept
<1> QED
  BY <1>1, <1>2, <1>3, PTL DEF Spec

\* The copies that DetourAttachEx makes leave room in rbCode for the jump back
\* as long as none of them is longer than LongestCopy: it stops copying when a
\* jump's length is reached, and what it has copied by then grew threefold at
\* most.  Longer copies are possible, and nothing tests for them.
THEOREM JumpBackHasRoom == Spec => []JumpBackFits
<1>1. Init => code \in Functions
  BY DEF Init
<1>2. code \in Functions /\ [Next]_vars => (code \in Functions)'
  BY CodeStays
<1>3. ASSUME code \in Functions PROVE JumpBackFits
  <2> DEFINE f == code
             n == nAlign(f)
  <2> SUFFICES ASSUME Enlargeable(code),
                      ~ \E i \in 1 .. nAlign(code) : Copies(code)[i] > LongestCopy(code)
               PROVE  HasRoom(code)
      BY DEF JumpBackFits
  <2>1. f \in Functions /\ Enlargeable(f)
    BY <1>3
  <2>2. n \in 1 .. Len(f.body) /\ Len(f.body) \in Nat
    BY <2>1, Moved
  <2>3. n \in 0 .. n /\ n \in 1 .. n /\ n > 0
    BY <2>2
  <2>4. MovedOffset(f, n) <= 3 * (CbJump - 1) + f.body[n].len + f.body[n].extra
    BY <2>1, <2>3, MovedInRange
  <2>5. CbJumpBack(f) \in Nat /\ CbJump \in Nat /\ CodeSize \in Nat
    BY SizesAssumption DEF CbJumpBack
  <2>6. f.body[n].len \in Nat /\ f.body[n].extra \in Int /\ MovedOffset(f, n) \in Nat
    <3>1. f.body[n].len \in Nat
      BY <2>1, <2>2, LengthsAre
    <3>2. f.body[n].extra \in 0 .. 2 * f.body[n].len
      BY <2>1, <2>3 DEF Enlargeable
    <3> QED
      BY <2>1, <2>3, <3>1, <3>2, MovedOffsets
  <2>7. Copies(f)[n] = f.body[n].len + f.body[n].extra
    BY <2>1, <2>3, CopiesAre
  <2>8. ~(Copies(f)[n] > LongestCopy(f))
    BY <2>3
  <2>9. LongestCopy(f) = CodeSize - 3 * (CbJump - 1) - CbJumpBack(f)
    BY DEF LongestCopy
  <2>10. MovedOffset(f, n) + CbJumpBack(f) <= CodeSize
    <3> HIDE DEF f, n
    <3> QED
      BY <2>4, <2>5, <2>6, <2>7, <2>8, <2>9
  <2> QED
    BY <2>10 DEF HasRoom, cbCode
<1> QED
  BY <1>1, <1>2, <1>3, PTL DEF Spec
================================================================================
