------------------------------- MODULE Inductions -------------------------------
(***************************************************************************)
(* Induction and recursion over the natural numbers.  The library's        *)
(* theorems have an operator as a parameter; the ones here are about sets  *)
(* and functions, and follow from the well-foundedness of the naturals.    *)
(* Then sums, a size at a time.                                            *)
(***************************************************************************)
EXTENDS Integers, Sequences, Sums, WellFoundedInduction, TLAPS

Less == {pair \in Nat \X Nat : pair[1] < pair[2]}

\* A nonempty set of naturals has a least member.
LEMMA LeastMember ==
    ASSUME NEW S \in SUBSET Nat, S # {}
    PROVE  \E n \in S : \A m \in S : n <= m
<1>1. Less = OpToRel(<, Nat)
  BY DEF Less, OpToRel
<1>2. IsWellFoundedOn(Less, Nat)
  BY <1>1, NatLessThanWellFounded
<1>3. PICK n \in S : \A m \in S : ~ (<<m, n>> \in Less)
  BY <1>2, WFMin
<1>4. ASSUME NEW m \in S PROVE n <= m
  <2>1. m < n => <<m, n>> \in Less
    BY DEF Less
  <2> QED
    BY <2>1, <1>3
<1> QED
  BY <1>4

\* Induction over the naturals, with a set in place of a predicate.
LEMMA SetInduction ==
    ASSUME NEW S, 0 \in S, \A n \in Nat : n \in S => n + 1 \in S
    PROVE  \A n \in Nat : n \in S
<1> DEFINE T == Nat \ S
<1> SUFFICES ASSUME T # {} PROVE FALSE
    OBVIOUS
<1>1. T \in SUBSET Nat
  OBVIOUS
<1> HIDE DEF T
<1>2. PICK n \in T : \A m \in T : n <= m
  BY <1>1, LeastMember
<1> USE DEF T
<1>3. n # 0
  OBVIOUS
<1>4. n - 1 \in Nat /\ n - 1 \notin T
  BY <1>2, <1>3
<1>5. (n - 1) + 1 \in S
  BY <1>4
<1> QED
  BY <1>5

\* The same up to a bound.
LEMMA IntervalInduction ==
    ASSUME NEW k \in Nat, NEW S, 0 \in S, \A n \in 0 .. k - 1 : n \in S => n + 1 \in S
    PROVE  \A n \in 0 .. k : n \in S
<1> DEFINE T == {n \in Nat : n <= k => n \in S}
<1>1. 0 \in T
  OBVIOUS
<1>2. \A n \in Nat : n \in T => n + 1 \in T
  OBVIOUS
<1>3. \A n \in Nat : n \in T
  <2> HIDE DEF T
  <2> QED
    BY <1>1, <1>2, SetInduction
<1> QED
  BY <1>3

\* A function on an interval, each value of which is made from the one before:
\* the nth by h[n].
Closed(h, k, X) == \A n \in 1 .. k : \A x \in X : h[n][x] \in X
Begun(k, X, a, h) ==
    {g \in [0 .. k -> X] : g[0] = a /\ \A n \in 1 .. k : g[n] = h[n][g[n - 1]]}

LEMMA Recursion ==
    ASSUME NEW k \in Nat, NEW X, NEW a \in X, NEW h, Closed(h, k, X)
    PROVE  \E g : g \in Begun(k, X, a, h)
<1> DEFINE S == {n \in Nat : Begun(n, X, a, h) # {}}
<1>1. 0 \in S
  <2>1. [m \in 0 .. 0 |-> a] \in Begun(0, X, a, h)
    BY DEF Begun
  <2> QED
    BY <2>1
<1>2. ASSUME NEW n \in 0 .. k - 1, n \in S PROVE n + 1 \in S
  <2>1. PICK g : g \in Begun(n, X, a, h)
    BY <1>2
  <2> DEFINE e == [m \in 0 .. n + 1 |-> IF m <= n THEN g[m] ELSE h[n + 1][g[n]]]
  <2>2. g[n] \in X /\ n + 1 \in 1 .. k
    BY <2>1 DEF Begun
  <2>3. e \in [0 .. n + 1 -> X] /\ e[0] = a
    BY <2>1, <2>2 DEF Begun, Closed
  <2>4. ASSUME NEW m \in 1 .. n + 1 PROVE e[m] = h[m][e[m - 1]]
    <3>1. CASE m = n + 1
      BY <3>1
    <3>2. CASE m # n + 1
      <4>1. m \in 1 .. n /\ m - 1 \in 0 .. n
        BY <3>2
      <4> QED
        BY <4>1, <2>1 DEF Begun
    <3> QED
      BY <3>1, <3>2
  <2>5. e \in Begun(n + 1, X, a, h)
    BY <2>3, <2>4 DEF Begun
  <2> HIDE DEF e
  <2> QED
    BY <2>5
<1>3. k \in S
  <2> HIDE DEF S
  <2>1. k \in 0 .. k
    OBVIOUS
  <2> QED
    BY <1>1, <1>2, <2>1, IntervalInduction
<1> QED
  BY <1>3

\* What is defined that way has its values where they are expected.
Follows(k, X, a, h, f) ==
    /\ f = [n \in 0 .. k |-> f[n]]
    /\ f[0] = a
    /\ \A n \in 1 .. k : f[n - 1] \in X => f[n] = h[n][f[n - 1]]

LEMMA Unfolded ==
    ASSUME NEW k \in Nat, NEW X, NEW a \in X, NEW h, Closed(h, k, X),
           NEW f, Follows(k, X, a, h, f)
    PROVE  f \in Begun(k, X, a, h)
<1> DEFINE S == {n \in 0 .. k : f[n] \in X}
<1>1. 0 \in S
  BY DEF Follows
<1>2. ASSUME NEW n \in 0 .. k - 1, n \in S PROVE n + 1 \in S
  <2>1. n + 1 \in 1 .. k /\ (n + 1) - 1 = n
    OBVIOUS
  <2>2. f[n + 1] = h[n + 1][f[n]]
    BY <1>2, <2>1 DEF Follows
  <2> QED
    BY <1>2, <2>1, <2>2 DEF Closed
<1>3. \A n \in 0 .. k : n \in S
  <2> HIDE DEF S
  <2> QED
    BY <1>1, <1>2, IntervalInduction
<1>4. \A n \in 1 .. k : n - 1 \in 0 .. k
  OBVIOUS
<1> QED
  BY <1>3, <1>4 DEF Follows, Begun

-----------------------------------------------------------------------------
(* Sums.                                                                   *)

\* Each of the first n sizes is one.
IsSize(size, n) == \A k \in 1 .. n : size[k] \in Nat

\* SumTo, the sum of every list of sizes, is where counting a size at a time ends.
LEMMA SumIs ==
    ASSUME NEW n \in Nat, NEW size, IsSize(size, n)
    PROVE  /\ SumTo(size, n) \in Nat
           /\ n = 0 => SumTo(size, n) = 0
           /\ \E at : /\ at \in [0 .. n -> Nat] /\ at[0] = 0
                      /\ \A k \in 1 .. n : at[k] = at[k - 1] + size[k]
                      /\ SumTo(size, n) = at[n]
<1> DEFINE Is(f) == f = [k \in 0 .. n |-> IF k = 0 THEN 0 ELSE f[k - 1] + size[k]]
           h == [k \in 1 .. n |-> [x \in Nat |-> x + size[k]]]
<1>1. \A k \in 1 .. n : \A x \in Nat : h[k][x] = x + size[k] /\ h[k][x] \in Nat
  BY DEF IsSize
<1>2. SumTo(size, n) = (CHOOSE f : Is(f))[n]
  BY DEF SumTo
<1>3. Closed(h, n, Nat)
  BY <1>1 DEF Closed
<1> HIDE DEF h
<1>4. PICK g : g \in Begun(n, Nat, 0, h)
  BY <1>3, Recursion
<1>5. Is(g)
  BY <1>1, <1>4 DEF Begun
<1> DEFINE f == CHOOSE f : Is(f)
<1>6. Is(f)
  BY <1>5
<1> HIDE DEF f
<1>7. Follows(n, Nat, 0, h, f)
  <2>1. f = [k \in 0 .. n |-> f[k]]
    BY <1>6
  <2>2. f[0] = 0
    BY <1>6
  <2>3. \A k \in 1 .. n : f[k] = f[k - 1] + size[k]
    BY <1>6
  <2> QED
    BY <1>1, <2>1, <2>2, <2>3 DEF Follows
<1>8. f \in Begun(n, Nat, 0, h)
  BY <1>3, <1>7, Unfolded
<1>9. f \in [0 .. n -> Nat] /\ f[0] = 0 /\ \A k \in 1 .. n : f[k] = f[k - 1] + size[k]
  <2>1. \A k \in 1 .. n : k - 1 \in 0 .. n
    OBVIOUS
  <2> QED
    BY <1>1, <1>8, <2>1 DEF Begun
<1>10. SumTo(size, n) = f[n]
  BY <1>2 DEF f
<1> QED
  BY <1>9, <1>10

\* Each sum is the one before and the size that follows.
LEMMA SumSteps ==
    ASSUME NEW n \in Nat, NEW size, IsSize(size, n)
    PROVE  /\ \A k \in 0 .. n : SumTo(size, k) \in Nat
           /\ SumTo(size, 0) = 0
           /\ \A k \in 1 .. n : SumTo(size, k) = SumTo(size, k - 1) + size[k]
<1>1. \A k \in 0 .. n : k \in Nat /\ IsSize(size, k)
  BY DEF IsSize
<1>2. \A k \in 0 .. n : SumTo(size, k) \in Nat
  BY <1>1, SumIs
<1>3. SumTo(size, 0) = 0
  BY <1>1, SumIs
<1>4. ASSUME NEW k \in 1 .. n PROVE SumTo(size, k) = SumTo(size, k - 1) + size[k]
  <2>1. k \in Nat /\ k - 1 \in Nat /\ IsSize(size, k) /\ IsSize(size, k - 1)
    BY <1>1
  <2>2. PICK f : /\ f \in [0 .. k -> Nat] /\ f[0] = 0
                 /\ \A m \in 1 .. k : f[m] = f[m - 1] + size[m]
                 /\ SumTo(size, k) = f[k]
    BY <2>1, SumIs
  <2> DEFINE j == k - 1
  <2>3. PICK g : /\ g \in [0 .. j -> Nat] /\ g[0] = 0
                 /\ \A m \in 1 .. j : g[m] = g[m - 1] + size[m]
                 /\ SumTo(size, j) = g[j]
    BY <2>1, SumIs
  <2> DEFINE S == {m \in 0 .. j : f[m] = g[m]}
  <2>4. 0 \in S
    BY <2>1, <2>2, <2>3
  <2>5. ASSUME NEW m \in 0 .. j - 1, m \in S PROVE m + 1 \in S
    <3>1. m + 1 \in 1 .. j /\ (m + 1) - 1 = m /\ m + 1 \in 1 .. k
      BY <2>1
    <3>2. f[m + 1] = f[m] + size[m + 1] /\ g[m + 1] = g[m] + size[m + 1]
      BY <2>2, <2>3, <3>1
    <3> QED
      BY <2>5, <3>1, <3>2
  <2>6. j \in S
    <3>1. j \in Nat /\ j \in 0 .. j
      BY <2>1
    <3> HIDE DEF S, j
    <3> QED
      BY <2>4, <2>5, <3>1, IntervalInduction
  <2> QED
    BY <2>2, <2>3, <2>6
<1> QED
  BY <1>2, <1>3, <1>4

\* The sums of two lists of sizes that agree.
LEMMA SumSame ==
    ASSUME NEW n \in Nat, NEW size, IsSize(size, n), NEW other,
           \A k \in 1 .. n : other[k] = size[k]
    PROVE  SumTo(other, n) = SumTo(size, n)
<1> DEFINE S == {k \in 0 .. n : SumTo(other, k) = SumTo(size, k)}
<1>1. IsSize(other, n)
  BY DEF IsSize
<1>2. 0 \in S
  BY <1>1, SumSteps
<1>3. ASSUME NEW k \in 0 .. n - 1, k \in S PROVE k + 1 \in S
  <2>1. k + 1 \in 1 .. n /\ (k + 1) - 1 = k
    OBVIOUS
  <2>2. /\ SumTo(other, k + 1) = SumTo(other, k) + other[k + 1]
        /\ SumTo(size, k + 1) = SumTo(size, k) + size[k + 1]
    BY <1>1, <2>1, SumSteps
  <2> QED
    BY <1>3, <2>1, <2>2
<1>4. n \in S
  <2>1. n \in 0 .. n
    OBVIOUS
  <2> HIDE DEF S
  <2> QED
    BY <1>2, <1>3, <2>1, IntervalInduction
<1> QED
  BY <1>4

\* A sum does not fall as it goes on.
LEMMA SumGrows ==
    ASSUME NEW n \in Nat, NEW size, IsSize(size, n)
    PROVE  \A m \in 0 .. n : \A k \in 0 .. m : SumTo(size, k) <= SumTo(size, m)
<1> DEFINE S == {m \in 0 .. n : \A k \in 0 .. m : SumTo(size, k) <= SumTo(size, m)}
<1>0. \A k \in 0 .. n : SumTo(size, k) \in Nat
  BY SumSteps
<1>1. 0 \in S
  BY <1>0
<1>2. ASSUME NEW m \in 0 .. n - 1, m \in S PROVE m + 1 \in S
  <2>1. m + 1 \in 1 .. n /\ (m + 1) - 1 = m /\ m \in 0 .. n
    OBVIOUS
  <2>2. SumTo(size, m + 1) = SumTo(size, m) + size[m + 1] /\ size[m + 1] \in Nat
    BY <2>1, SumSteps DEF IsSize
  <2>3. ASSUME NEW k \in 0 .. m + 1 PROVE SumTo(size, k) <= SumTo(size, m + 1)
    <3>1. k = m + 1 \/ k \in 0 .. m
      OBVIOUS
    <3>2. k \in 0 .. n
      OBVIOUS
    <3> QED
      BY <1>0, <1>2, <2>1, <2>2, <3>1, <3>2
  <2> QED
    BY <2>1, <2>3
<1>3. \A m \in 0 .. n : m \in S
  <2> HIDE DEF S
  <2> QED
    BY <1>1, <1>2, IntervalInduction
<1> QED
  BY <1>3

\* Of sizes none of which is 0, each sum is more than the ones before, and no
\* less than the number of sizes.
LEMMA SumRises ==
    ASSUME NEW n \in Nat, NEW size, IsSize(size, n), \A k \in 1 .. n : size[k] > 0
    PROVE  /\ \A m \in 0 .. n : \A k \in 0 .. m - 1 : SumTo(size, k) < SumTo(size, m)
           /\ \A m \in 0 .. n : m <= SumTo(size, m)
<1>0. \A k \in 0 .. n : SumTo(size, k) \in Nat
  BY SumSteps
<1>1. ASSUME NEW m \in 0 .. n, NEW k \in 0 .. m - 1
      PROVE  SumTo(size, k) < SumTo(size, m)
  <2>1. m \in 1 .. n /\ m - 1 \in 0 .. n /\ k \in 0 .. n
    OBVIOUS
  <2>2. SumTo(size, k) <= SumTo(size, m - 1)
    BY <2>1, SumGrows
  <2>3. SumTo(size, m) = SumTo(size, m - 1) + size[m] /\ size[m] \in Nat
    BY <2>1, SumSteps DEF IsSize
  <2>4. size[m] > 0
    BY <2>1
  <2> QED
    BY <1>0, <2>1, <2>2, <2>3, <2>4
<1> DEFINE S == {m \in 0 .. n : m <= SumTo(size, m)}
<1>2. 0 \in S
  BY <1>0
<1>3. ASSUME NEW m \in 0 .. n - 1, m \in S PROVE m + 1 \in S
  <2>1. m + 1 \in 0 .. n /\ m \in 0 .. (m + 1) - 1 /\ m \in 0 .. n
    OBVIOUS
  <2>2. SumTo(size, m) < SumTo(size, m + 1)
    BY <1>1, <2>1
  <2> QED
    BY <1>0, <1>3, <2>1, <2>2
<1>4. \A m \in 0 .. n : m \in S
  <2> HIDE DEF S
  <2> QED
    BY <1>2, <1>3, IntervalInduction
<1> QED
  BY <1>1, <1>4
================================================================================
