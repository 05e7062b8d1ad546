----------------------------- MODULE ProcessImports -----------------------------
(***************************************************************************)
(* The import table that UpdateImports32 and UpdateImports64 put in front  *)
(* of that of a process, and where it is put.  (uimports.cpp; the search   *)
(* for its place is in creatwth.cpp)                                       *)
(*                                                                         *)
(* A table is a sequence of DWORDs, since its parts are laid out by their  *)
(* sizes and read again with others: five to a descriptor, one or two to a *)
(* thunk.  The RVA of a string is the number of the module it names.       *)
(***************************************************************************)
EXTENDS Integers, Sequences, SequencesExt

DescriptorWords == 5                \* sizeof(IMAGE_IMPORT_DESCRIPTOR)
ThunkWords(bits) == bits \div 32    \* sizeof(DWORD_XX)
OrdinalOne(bits) == IF bits = 32 THEN <<2147483647>> ELSE <<1, 2147483647>>
SomeRva == 4096

\* The name as it is written into the table: its "??" is replaced.
Unspecified == -1
ReplaceOptionalSize(dll, bits) == IF dll.bits = Unspecified THEN bits ELSE dll.bits
NameWord(dll, bits) == 1000 * dll.file + ReplaceOptionalSize(dll, bits)

PadToDwordPtr(words) == 2 * ((words + 1) \div 2)
Zeros(n) == [i \in 1 .. n |-> 0]

Descriptor(dll, bits) == <<SomeRva, 0, 0, NameWord(dll, bits), SomeRva>>
NewDescriptors(dlls, bits) ==
    FlattenSeq([n \in DOMAIN dlls |-> Descriptor(dlls[n], bits)])
Thunks(bits) == OrdinalOne(bits) \o Zeros(ThunkWords(bits))
NewThunks(dlls, bits) ==
    FlattenSeq([n \in DOMAIN dlls |-> Thunks(bits) \o Thunks(bits)])
Strings(dlls) == [n \in DOMAIN dlls |-> 25185]

\* import.va is zero where there is no import table; import.words is what lies
\* there, as far as the size in the header goes.
OldDescriptors(import) ==
    LET n == DescriptorWords * (Len(import.words) \div DescriptorWords)
    IN  IF import.va # 0 THEN SubSeq(import.words, 1, n) ELSE Zeros(n)
OldForgotten(import) == <<>>   \* a mutant of the next
ReadOldTable(import) == OldDescriptors(import)

NewTable(dlls, import, bits) ==
    LET iids == NewDescriptors(dlls, bits) \o ReadOldTable(import)
    IN  iids \o Zeros(PadToDwordPtr(Len(iids)) - Len(iids))
             \o NewThunks(dlls, bits) \o Strings(dlls)

-----------------------------------------------------------------------------
(* What the loader reads of a table.  Behind it the page is zero.          *)

Word(words, i) == IF i \in DOMAIN words THEN words[i] ELSE 0
Name(words, n)       == Word(words, DescriptorWords * n + 4)
FirstThunk(words, n) == Word(words, DescriptorWords * n + 5)

\* The loader of Windows, which ends at a descriptor without name or thunks.
Loads(words) ==
    LET ends == {n \in 0 .. Len(words) : Name(words, n) = 0 \/ FirstThunk(words, n) = 0}
        last == CHOOSE n \in ends : \A k \in ends : n <= k
    IN  [n \in 1 .. last |-> Name(words, n - 1)]

-----------------------------------------------------------------------------
(* FindAndAllocateNearBase.  Addresses are allocation units (64 KB); a     *)
(* unit that is free may be refused all the same.                          *)

RegionStart(free, from, u) ==
    CHOOSE s \in from .. u : s .. u \subseteq free /\ (s = from \/ s - 1 \notin free)

InReach(bits, module, u, reach) == bits = 32 \/ u - module <= reach

\* The first unit that VirtualAllocEx grants, and 0 when the region it is in
\* starts too far above the module, or it lies too far itself.
FirstUnit(units) == CHOOSE u \in units : \A v \in units : u <= v
Granted(from, free, refused) == {u \in free : u >= from} \ refused
FirstCheckOnly(bits, module, from, free, refused, reach) ==   \* a mutant of the next
    LET granted == Granted(from, free, refused)
        u       == FirstUnit(granted)
    IN  IF granted = {} \/ ~InReach(bits, module, RegionStart(free, from, u), reach)
        THEN 0 ELSE u
FindAndAllocateNearBase(bits, module, from, free, refused, reach) ==
    LET granted == Granted(from, free, refused)
        u       == FirstUnit(granted)
    IN  IF granted # {} /\ InReach(bits, module, RegionStart(free, from, u), reach)
                        /\ InReach(bits, module, u, reach)
        THEN u ELSE 0
=================================================================================
