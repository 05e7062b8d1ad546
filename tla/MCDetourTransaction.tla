------------------------- MODULE MCDetourTransaction -------------------------
(* Small processes for the model checker.                                   *)
EXTENDS DetourRefinement, TLC

CONSTANTS a, b, f1, f2, f3, d1, d2, s1, s2, s3, g1, g2, p1, p2, p3, p4, p5

\* Two detours of one function, and a second function on the same page.
PageOfShared   == f1 :> g1 @@ f2 :> g1
TargetsStacked == p1 :> f1 @@ p2 :> f1 @@ p3 :> f2

\* The same, with a function that is too small to hook, a pointer that was not
\* resolved, and a detour that is only a jump to f2.
PageOfAll  == PageOfShared @@ f3 :> g2
TargetsAll == TargetsStacked @@ p4 :> f3 @@ p5 :> Null
StubsOfF2  == {<<d2, f2>>}

\* One function and one pointer.
PageOfOne  == f1 :> g1
TargetsOne == p1 :> f1

\* p1 and p2 point at one function, so they are interchangeable too.
Symmetry == Permutations(Threads) \cup Permutations(Trampolines)
                \cup Permutations({p1, p2})

\* No step reads the value a call returned.
WithoutResults == <<statics, flags, memory, suspended, hThread, control>>
=============================================================================
