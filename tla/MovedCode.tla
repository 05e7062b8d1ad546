------------------------------- MODULE MovedCode -------------------------------
(***************************************************************************)
(* The code that DetourAttachEx moves from a function into its trampoline, *)
(* and the threads that DetourTransactionCommitEx finds in it: where they  *)
(* go on when the detour is attached or removed.                           *)
(* (src/utils/detour/detours.cpp; the lengths that DetourCopyInstruction   *)
(* gives, src/utils/detour/disasm.cpp.)                                    *)
(*                                                                         *)
(* Every other thread of the process is suspended for a transaction, so a  *)
(* transaction is one step here.  An instruction is its length, lExtra,    *)
(* and whether the function ends with it.  lExtra is how much longer its   *)
(* copy is; a negative one says that its short offset does not reach and   *)
(* the instruction has no longer form.                                     *)
(***************************************************************************)
EXTENDS Integers, Sequences, Sums

CONSTANTS
    Functions,      \* the code to choose from: records of a body, a sequence
                    \* of instructions; of the padding that follows it, a
                    \* sequence of lengths; and of the build, x64 or x86
    Threads,
    CodeSize,       \* sizeof(rbCode)
    CbJump,         \* SIZE_OF_JMP
    AlignEntries,   \* ARRAYSIZE(rAlign)
    TargetRange, TrampolineRange  \* 2^bits of obTarget and obTrampoline

\* No copy is longer than 19 bytes: an instruction has 15 at most, and a short
\* jump grows by 4.
Instructions == [len : Nat \ {0}, extra : Int, ends : BOOLEAN]
ASSUME FunctionsAssumption ==
    \A f \in Functions :
        /\ f.body \in Seq(Instructions) /\ f.body # <<>>
        /\ \A i \in DOMAIN f.body : /\ f.body[i].ends <=> i = Len(f.body)
                                   /\ f.body[i].len + f.body[i].extra <= 19
        /\ f.padding \in Seq(Nat) /\ f.x64 \in BOOLEAN

ASSUME SizesAssumption ==
    /\ CbJump \in Nat \ {0} /\ AlignEntries \in Nat /\ CodeSize \in Nat
    /\ CbJump <= AlignEntries
    /\ TargetRange \in Nat /\ 8 <= TargetRange /\ CbJump <= TargetRange
    /\ TrampolineRange \in Nat /\ 3 * (CbJump - 1) + 19 < TrampolineRange

VARIABLES
    code,       \* the function
    hooked,     \* its detour is attached, and the trampoline allocated
    ip,         \* each thread's instruction pointer: where, and which offset
    due         \* the instruction of the function it has come to, or 0

vars == <<code, hooked, ip, due>>

Elsewhere == <<"elsewhere", 0>>
Crashed   == <<"crashed", 0>>

Init ==
    /\ code \in Functions
    /\ hooked = FALSE
    /\ ip = [t \in Threads |-> Elsewhere]
    /\ due = [t \in Threads |-> 0]

-----------------------------------------------------------------------------
(* DetourAttachEx: the moved code, and the alignment of the two copies.    *)

\* The jump to pbRemain: detour_gen_jmp_indirect on x64, else
\* detour_gen_jmp_immediate.
CbJumpBack(f) == IF f.x64 THEN 6 ELSE CbJump

\* Offsets behind the first i instructions, in the function and moved.
Lengths(f) == [n \in DOMAIN f.body |-> f.body[n].len]
Copies(f)  == [n \in DOMAIN f.body |-> f.body[n].len + f.body[n].extra]
TargetOffset(f, i) == SumTo(Lengths(f), i)
MovedOffset(f, i)  == SumTo(Copies(f), i)

\* The copying goes on after instruction i.
ForAbsoluteJump(f, i) == /\ TargetOffset(f, i) < 14
                         /\ i < AlignEntries
                         /\ ~f.body[i].ends
CopiesOn(f, i) == /\ TargetOffset(f, i) < CbJump
                  /\ i < AlignEntries
                  /\ ~f.body[i].ends

\* The number of instructions moved.
nAlign(f) == CHOOSE n \in DOMAIN f.body :
                 ~CopiesOn(f, n) /\ \A i \in 1 .. n - 1 : CopiesOn(f, i)

cbCode(f) == MovedOffset(f, nAlign(f))

\* "Consume, but don't duplicate padding if it is needed and available."
Padded(f, k) ==
    LET at[n \in 0 .. k] == IF n = 0 THEN TargetOffset(f, nAlign(f))
                            ELSE IF at[n - 1] >= CbJump THEN at[n - 1]
                            ELSE at[n - 1] + f.padding[n]
    IN  at[k]
cbTarget(f) == Padded(f, Len(f.padding))

TooFewInstructions(f) == cbTarget(f) < CbJump
TooManyInstructions(f) == cbTarget(f) > CodeSize - CbJump

rAlign(f) == [n \in 1 .. AlignEntries |->
    IF n <= nAlign(f)
    THEN [obTarget     |-> TargetOffset(f, n) % TargetRange,
          obTrampoline |-> MovedOffset(f, n) % TrampolineRange]
    ELSE [obTarget |-> 0, obTrampoline |-> 0]]

-----------------------------------------------------------------------------
(* DetourTransactionCommitEx: "Update any suspended threads."              *)

\* The lookups stop at the first entry that matches, an empty one included.
FirstOf(entries) == CHOOSE n \in entries : \A k \in entries : n <= k

SameOffset(f, off) == off
AlignFromTarget(f, off) ==
    LET found == {n \in 1 .. AlignEntries : rAlign(f)[n].obTarget = off}
    IN  IF found = {} THEN 0 ELSE rAlign(f)[FirstOf(found)].obTrampoline
AlignFromTrampoline(f, off) ==
    LET found == {n \in 1 .. AlignEntries : rAlign(f)[n].obTrampoline = off}
    IN  IF found = {} THEN 0 ELSE rAlign(f)[FirstOf(found)].obTarget

\* A thread that is in the bytes the jump overwrites; one that is in the
\* first bytes of the trampoline, where rbCode is.  rbCodeIn lies behind them.
InOverwritten(f, p) == p[1] = "target" /\ p[2] < cbTarget(f)
PointerSize(f)      == IF f.x64 THEN 8 ELSE 4
InTrampoline(f, p)  == p[1] = "moved" /\ p[2] < PointerSize(f)

MovedIn(f, p) ==
    IF InOverwritten(f, p) THEN <<"moved", AlignFromTarget(f, p[2])>> ELSE p
MovedOut(f, p) ==
    IF InTrampoline(f, p) THEN <<"target", AlignFromTrampoline(f, p[2])>> ELSE p

Attach ==
    /\ ~hooked
    /\ ~TooFewInstructions(code) /\ ~TooManyInstructions(code)
    /\ hooked' = TRUE
    /\ ip' = [t \in Threads |-> MovedIn(code, ip[t])]
    /\ UNCHANGED <<code, due>>

Detach ==
    /\ hooked
    /\ hooked' = FALSE
    /\ ip' = [t \in Threads |-> MovedOut(code, ip[t])]
    /\ UNCHANGED <<code, due>>

-----------------------------------------------------------------------------
(* The threads run the function, its detour and the moved code.            *)

\* The number of the instruction found at p; one more than the number of
\* moved ones at the jump back to the function, and 0 where none begins.
AtOffset(offset, last, off) ==
    IF \E i \in 1 .. last : offset[i] = off
    THEN CHOOSE i \in 1 .. last : offset[i] = off
    ELSE 0
InFunction(off) ==
    AtOffset([i \in 1 .. Len(code.body) |-> TargetOffset(code, i - 1)], Len(code.body), off)
InMoved(off) ==
    AtOffset([i \in 1 .. nAlign(code) + 1 |-> MovedOffset(code, i - 1)], nAlign(code) + 1, off)

AtJump(p) == hooked /\ p = <<"target", 0>>
Overwritten(p) == hooked /\ p[1] = "target" /\ 0 < p[2] /\ p[2] < cbTarget(code)
Freed(p) == ~hooked /\ p[1] \in {"moved", "codeIn"}
JumpsBack(p) == p[1] = "moved" /\ InMoved(p[2]) = nAlign(code) + 1

InstructionAt(p) == IF p[1] = "target" THEN InFunction(p[2]) ELSE InMoved(p[2])
CannotRun(p) == Overwritten(p) \/ Freed(p) \/ InstructionAt(p) = 0

Goes(t, place, instruction) ==
    /\ ip' = [ip EXCEPT ![t] = place]
    /\ due' = [due EXCEPT ![t] = instruction]
    /\ UNCHANGED <<code, hooked>>

Call(t) == ip[t] = Elsewhere /\ Goes(t, <<"target", 0>>, 1)

\* On x64 the function jumps to rbCodeIn, in the trampoline.
TakeJump(t) ==
    /\ AtJump(ip[t])
    /\ Goes(t, IF code.x64 THEN <<"codeIn", 0>> ELSE <<"detour", 0>>, 0)

RunCodeIn(t) ==
    /\ ip[t][1] = "codeIn"
    /\ Goes(t, IF Freed(ip[t]) THEN Crashed ELSE <<"detour", 0>>, 0)

\* The detour calls the original through the client's pointer, or returns.
RunDetour(t) ==
    /\ ip[t][1] = "detour"
    /\ \/ Goes(t, IF hooked THEN <<"moved", 0>> ELSE <<"target", 0>>, 1)
       \/ Goes(t, Elsewhere, 0)

Run(t) ==
    /\ ip[t][1] \in {"target", "moved"} /\ ~AtJump(ip[t])
    /\ LET i == InstructionAt(ip[t]) IN
       \/ CannotRun(ip[t]) /\ Goes(t, Crashed, 0)
       \/ /\ ~CannotRun(ip[t]) /\ JumpsBack(ip[t])
          /\ Goes(t, <<"target", cbTarget(code)>>, due[t])
       \/ /\ ~CannotRun(ip[t]) /\ ~JumpsBack(ip[t])
          /\ IF code.body[i].ends THEN Goes(t, Elsewhere, 0)
             ELSE Goes(t, <<ip[t][1], IF ip[t][1] = "target" THEN TargetOffset(code, i)
                                      ELSE MovedOffset(code, i)>>, due[t] + 1)

Next ==
    \/ Attach \/ Detach
    \/ \E t \in Threads : Call(t) \/ TakeJump(t) \/ RunCodeIn(t) \/ RunDetour(t) \/ Run(t)

Spec == Init /\ [][Next]_vars

-----------------------------------------------------------------------------
(* Properties.                                                             *)

TypeOK ==
    /\ code \in Functions
    /\ hooked \in BOOLEAN
    /\ \A t \in Threads :
          /\ ip[t][1] \in {"elsewhere", "crashed", "target", "moved", "codeIn", "detour"}
          /\ ip[t][2] \in Int
          /\ ip[t][1] = "moved" => ip[t][2] < CodeSize
          /\ due[t] \in 0 .. Len(code.body)

\* What DetourAttachEx takes for granted and tests nowhere.
\*
\* Each moved instruction can be moved, and its copy is at most three times as
\* long: 6 bytes for the 2 of a short conditional jump.  LOOP and JECXZ cannot:
\* the next instruction is written over them (2151).
Enlargeable(f) ==
    \A i \in 1 .. nAlign(f) : f.body[i].extra \in 0 .. 2 * f.body[i].len

\* The end of the moved instructions does not read as offset 0 in the three bits
\* of obTarget; at 8 or 16 it does, and a thread at the entry is sent there.
EndFitsAlign(f) == TargetOffset(f, nAlign(f)) % TargetRange # 0

\* The jump back ends within rbCode, and overwrites nothing behind it.
HasRoom(f) == cbCode(f) + CbJumpBack(f) <= CodeSize

\* A thread goes on with the instruction it had come to, in the function or
\* in the moved code: none is skipped, run twice or entered in its middle.
\* (At the jump, the whole function is still to be run.)  This is said of the
\* functions that satisfy the three conditions above, and of no others.  A
\* thread that is left in a trampoline which was freed is behind the size of a
\* pointer there, by which the code tests where it is (1846); it is lost.
KeepsItsPlace ==
    Enlargeable(code) /\ EndFitsAlign(code) /\ HasRoom(code) =>
        \A t \in Threads :
            ip[t][1] \in {"target", "moved"} =>
                IF Freed(ip[t]) THEN ip[t][2] >= PointerSize(code)
                ELSE ~Overwritten(ip[t]) /\ InstructionAt(ip[t]) = due[t]

\* Room for copies of less than a jump, at three times their length, the last
\* copy, and the jump back: with 30 bytes, 12 for that copy on x64, 13 on x86.
LongestCopy(f) == CodeSize - 3 * (CbJump - 1) - CbJumpBack(f)

\* "target code + jmp to pbRemain": both fit into rbCode, though the code
\* compares the length of what was copied, not of the copies, and takes 5 bytes
\* for a jump of 6.  It is so where no copy is longer than LongestCopy.  An
\* instruction may have 15 bytes: behind two short conditional jumps, one of 13
\* to 15 makes the jump back exceed rbCode on x64 (of 14 or 15 on x86).
JumpBackFits ==
    hooked /\ Enlargeable(code) =>
        \/ HasRoom(code)
        \/ \E i \in 1 .. nAlign(code) : Copies(code)[i] > LongestCopy(code)
=============================================================================
