------------------------------- MODULE SlotPool -------------------------------
(***************************************************************************)
(* What the trampoline allocator promises to DetourAttachEx: a slot that   *)
(* nobody holds, within reach of a jump from the target, and that stays    *)
(* its holder's until it is given back.                                    *)
(***************************************************************************)
CONSTANTS Slots, Targets, Null, InReach(_, _)

VARIABLE held   \* the target each slot was taken for, or Null

Init == held = [s \in Slots |-> Null]

Take(t, s) ==
    /\ held[s] = Null
    /\ InReach(t, s)
    /\ held' = [held EXCEPT ![s] = t]

GiveBack(s) ==
    /\ held[s] # Null
    /\ held' = [held EXCEPT ![s] = Null]

Next == \E s \in Slots : GiveBack(s) \/ \E t \in Targets : Take(t, s)

Spec == Init /\ [][Next]_held
=============================================================================
