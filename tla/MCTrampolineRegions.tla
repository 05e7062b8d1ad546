------------------------- MODULE MCTrampolineRegions -------------------------
(* A space of a few units, with two functions of which one begins with a    *)
(* jump, and a reach that ends inside a unit.                               *)
EXTENDS TrampolineRegions, TLC

CONSTANTS t1, t2

\* t1 lies in unit 2 and t2 in unit 3; a jump at t2's entry leads to unit 1.
Addresses == t1 :> 2 * UnitSize + 2 @@ t2 :> 3 * UnitSize + 2
OneJump   == t1 :> Null @@ t2 :> UnitSize + 1
=============================================================================
