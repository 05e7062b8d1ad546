------------------------------- MODULE MCHookApi -------------------------------
(* Two threads that make and remove two hooks on one page, with trampolines *)
(* on both sides of 4 GB.                                                   *)
EXTENDS HookApi, TLC

CONSTANTS a, b, f1, f2, d1, d2, s1, s2, g1

OnePage    == [f \in Funcs |-> g1]
NoTargets  == a :> Null @@ b :> Null
BelowFour  == {f1, s1}
TwoHooks   == {<<f1, d1>>, <<f2, d2>>}
=============================================================================
