------------------------------ MODULE MCInjection ------------------------------
(* Helpers and copies of the DLL that nothing tells apart.                  *)
EXTENDS Injection, TLC

CONSTANTS h1, h2, copy1, copy2

Symmetry == Permutations({h1, h2}) \cup Permutations({copy1, copy2})
================================================================================
