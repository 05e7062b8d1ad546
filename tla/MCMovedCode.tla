------------------------------ MODULE MCMovedCode ------------------------------
(* Functions of up to four instructions: ordinary ones of 1 to 15 bytes, the *)
(* conditional jump, whose copy is 4 bytes longer, and at the end a return   *)
(* or a short jump, whose copy is 3 bytes longer.                            *)
EXTENDS MovedCode

CONSTANT t1

Ordinary(n) == [len |-> n, extra |-> 0, ends |-> FALSE]
ShortJcc == [len |-> 2, extra |-> 4, ends |-> FALSE]
Return   == [len |-> 1, extra |-> 0, ends |-> TRUE]
ShortJmp == [len |-> 2, extra |-> 3, ends |-> TRUE]

Kinds == {Ordinary(n) : n \in {1, 3, 4, 11, 12, 13, 15}} \cup {ShortJcc}
Bodies ==
    {b \o <<e>> : b \in UNION {[1 .. n -> Kinds] : n \in 0 .. 3}, e \in {Return, ShortJmp}}
Paddings == {<<>>, <<1, 1>>, <<11>>}
Every == [body : Bodies, padding : Paddings, x64 : BOOLEAN]

\* Among them are the functions of which the properties make an exception and
\* of which DetourAttachEx makes none: the moved instructions end at offset 8,
\* and the jump back ends behind rbCode.
IsAttached(f) == ~TooFewInstructions(f) /\ ~TooManyInstructions(f)
ASSUME EndsAtEightAssumption == \E f \in Every : IsAttached(f) /\ ~EndFitsAlign(f)
ASSUME NoRoomAssumption == \A x64 \in BOOLEAN :
    \E f \in Every : f.x64 = x64 /\ IsAttached(f) /\ ~HasRoom(f)
==============================================================================
