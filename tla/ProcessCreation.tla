---------------------------- MODULE ProcessCreation ----------------------------
(***************************************************************************)
(* DetourCreateProcessWithDll, ...Ex and ...Dlls: a process is created     *)
(* suspended, its import table is replaced by one that begins with the     *)
(* given DLLs, and it is resumed; a process of the other bitness is left   *)
(* to a helper process of that bitness; a process that could not be        *)
(* prepared is terminated.  Later one of the DLLs undoes the changes of    *)
(* the headers.  (creatwth.cpp, uimports.cpp, modules.cpp)                 *)
(*                                                                         *)
(* Both the creator and the helper run DetourUpdateProcessWithDll, which   *)
(* changes the target in several places one after the other; every one of  *)
(* its calls may fail, and what has been changed stays changed.            *)
(***************************************************************************)
EXTENDS ProcessImports

CONSTANTS
    Systems,        \* the bitness of the operating system: 32, 64
    Images,         \* the executables: [magic, clr, import, bound, iat]
    DllLists,       \* the DLLs asked for: sequences of [file, bits]
    Free,           \* the free units of the target's address space
    Module, Above,  \* the unit of its executable, and the first behind it
    Reach           \* 4 GB, in units

ASSUME SystemsAssumption == Systems \subseteq {32, 64}
ASSUME FreeAssumption == Free \subseteq Nat \ {0}
\* The table of an executable lies in its own image, and is made of DWORDs.
ASSUME ImagesAssumption ==
    \A exe \in Images : /\ exe.magic \in {32, 64} /\ exe.import.va \notin Free
                        /\ exe.import.words \in Seq(Nat)
\* A name has an RVA; the bitness in it is none, "??", or written out.
ASSUME DllListsAssumption ==
    DllLists \subseteq Seq([file : Nat \ {0}, bits : {0, Unspecified, 32, 64}])

VARIABLES
    os,             \* the bitness of the system
    image,          \* the executable as the system loaded it
    dlls,           \* what the caller asks for, and how
    call,           \* [routine, info, suspended, bits]
    target,         \* the process created
    update,         \* DetourUpdateProcessWithDll, in the creator and the helper
    der,            \* DETOUR_EXE_RESTORE of each
    pc,             \* where the creator is in its call
    helper,         \* the helper process
    handles,        \* the creator's handles of the target
    result          \* what the call has returned

vars == <<os, image, dlls, call, target, update, der, pc, helper, handles, result>>
given == <<os, image, dlls, call>>

Creator == "creator"
Helper  == "helper"
Bits(p) == IF p = Creator THEN call.bits ELSE 96 - call.bits

NoHeaders == [magic |-> 0]
IlOnly(clr)   == clr \in {1, 3}
Requires32(clr) == clr = 3

\* The bitness the system gives a process: neutral managed code gets its own.
ProcessBits == IF image.magic = 64 THEN 64
               ELSE IF os = 64 /\ image.clr = 1 THEN 64 ELSE 32

-----------------------------------------------------------------------------
(* DetourUpdateProcessWithDll.                                             *)

\* EnumerateModulesInProcess finds the executable, the system's own DLLs, and the
\* payloads, whole or begun, which are DLLs for no machine.
Modules ==
    {[dll |-> FALSE, magic |-> target.magic, machine |-> 1],
     [dll |-> TRUE, magic |-> os, machine |-> 1]}
        \cup [dll : {TRUE}, magic : {32, 64}, machine : {0}]
Has32BitExe == \E m \in Modules : ~m.dll /\ m.magic = 32 /\ m.machine # 0
Has64BitDll == \E m \in Modules : m.dll /\ m.magic = 64 /\ m.machine # 0
IsWow64     == os = 64 /\ ProcessBits = 32
Is32BitProcess == Has32BitExe /\ (Has64BitDll => IsWow64)

\* A neutral managed executable, which a 64-bit updater can convert.
Convertible == target.clr = 1
Refused(p) ==
    IF Bits(p) = 32 THEN ~Is32BitProcess
    ELSE Is32BitProcess \/ (Has32BitExe /\ ~Convertible)

Go(p, step) == update' = [update EXCEPT ![p] = step]

RecordExeRestore(t) ==
    [magic |-> t.magic, import |-> t.import, bound |-> t.bound,
     iat |-> t.iat, clr |-> t.clr]
WithoutBound(t) == [RecordExeRestore(t) EXCEPT !.bound = 0]   \* a mutant of the next
Recorded(t) == RecordExeRestore(t)

Scan(p) ==
    /\ update[p] = "scan"
    /\ IF Refused(p) THEN Go(p, "failed") /\ UNCHANGED der
       ELSE /\ Go(p, IF Bits(p) = 64 /\ Has32BitExe THEN "convert" ELSE "imports")
            /\ der' = [der EXCEPT ![p] = Recorded(target)]
    /\ UNCHANGED <<given, target, pc, helper, handles, result>>

\* UpdateFrom32To64, for executables that are IL_ONLY as all that come here.
\* The headers that are recorded again still have the import table.
Converted(t) == [t EXCEPT !.magic = 64]
NoImports    == [va |-> 0, words |-> <<>>]
Convert(p) ==
    /\ update[p] = "convert"
    /\ \/ /\ target' = Converted(target)
          /\ Go(p, "failed") /\ UNCHANGED der
       \/ /\ target' = [Converted(target) EXCEPT !.import = NoImports]
          /\ der' = [der EXCEPT ![p] = Recorded(Converted(target))]
          /\ Go(p, "imports") \/ Go(p, "failed")
    /\ UNCHANGED <<given, pc, helper, handles, result>>

\* The names as the updater has them: the helper got them from the creator.
Renamed(dll) == IF dll.bits = call.bits THEN [dll EXCEPT !.bits = 96 - call.bits] ELSE dll
DllsOf(p) == IF p = Creator THEN dlls ELSE [n \in DOMAIN dlls |-> Renamed(dlls[n])]

\* UpdateImports.  It fails before it has written the headers, or behind it.
WithTable(p, t, at) ==
    [t EXCEPT !.import = [va |-> at, words |-> NewTable(DllsOf(p), t.import, Bits(p))],
              !.bound = 0,
              !.iat = IF @ # 0 THEN @ ELSE IF t.import.va # 0 THEN Module ELSE at]
UpdateImports(p) ==
    /\ update[p] = "imports"
    /\ \E refused \in SUBSET Free :
           LET at == FindAndAllocateNearBase(Bits(p), Module, Above, Free, refused, Reach)
           IN  IF at = 0 THEN Go(p, "failed") /\ UNCHANGED target
               ELSE /\ target' = WithTable(p, target, at)
                    /\ Go(p, "clr") \/ Go(p, "failed")
    /\ UNCHANGED <<given, der, pc, helper, handles, result>>

\* "Update the CLR header": the IL_ONLY flag as it was recorded is cleared.
Cleared(clr) == IF IlOnly(clr) THEN clr - 1 ELSE clr
UpdateClr(p) ==
    /\ update[p] = "clr"
    /\ target' = [target EXCEPT !.clr = Cleared(der[p].clr)]
    /\ \/ Go(p, "failed")
       \/ Go(p, IF Bits(p) = 64 /\ Requires32(der[p].clr) THEN "failed" ELSE "payload")
    /\ UNCHANGED <<given, der, pc, helper, handles, result>>

\* DetourCopyPayloadToProcess.
CopyRestorePayload(p) ==
    /\ update[p] = "payload"
    /\ target' = [target EXCEPT !.payload = der[p]]
    /\ Go(p, "done")
    /\ UNCHANGED <<given, der, pc, helper, handles, result>>

\* A read, a write or a change of protection fails before it changed anything.
UpdateFails(p) ==
    /\ update[p] \in {"scan", "convert", "imports", "clr", "payload"}
    /\ Go(p, "failed")
    /\ UNCHANGED <<given, target, der, pc, helper, handles, result>>

-----------------------------------------------------------------------------
(* The creator.                                                            *)

Returned(r) == pc' = "returned" /\ result' = r

CreateFails ==
    /\ pc = "start"
    /\ Returned("FALSE")
    /\ UNCHANGED <<given, target, update, der, helper, handles>>
CreateSuspended ==
    /\ pc = "start"
    /\ target' = [target EXCEPT !.state = "suspended"]
    /\ handles' = "open" /\ pc' = "updating" /\ Go(Creator, "scan")
    /\ UNCHANGED <<given, der, helper, result>>

\* Only the Ex and Dlls routines ask a helper; DetourCreateProcessWithDll does
\* not, and closes no handle.
AsksHelper == call.routine # "WithDll"
MayClose(h) == IF AsksHelper THEN "closed" ELSE h

Succeeds ==
    /\ target' = [target EXCEPT !.state = IF call.suspended THEN @ ELSE "running"]
    /\ handles' = IF call.info THEN handles ELSE MayClose(handles)
    /\ Returned("TRUE")
TerminatedState(t) == [t EXCEPT !.state = "terminated"]
LeftSuspended(t)   == t   \* a mutant of the next
OnFailure(t) == TerminatedState(t)
Gives ==
    /\ target' = OnFailure(target)
    /\ handles' = MayClose(handles)
    /\ Returned("FALSE")

CreatorUpdated ==
    /\ pc = "updating" /\ update[Creator] = "done"
    /\ Succeeds
    /\ UNCHANGED <<given, update, der, helper>>
CreatorFailed ==
    /\ pc = "updating" /\ update[Creator] = "failed"
    /\ IF AsksHelper
       THEN pc' = "helper" /\ UNCHANGED <<target, handles, result>>
       ELSE Gives
    /\ UNCHANGED <<given, update, der, helper>>

\* DetourProcessViaHelperDlls: no memory, no process, or no payload in it.
HelperNotStarted ==
    /\ pc = "helper" /\ helper = "none"
    /\ Gives
    /\ UNCHANGED <<given, update, der, helper>>
StartHelper ==
    /\ pc = "helper" /\ helper = "none"
    /\ helper' = "running"
    /\ UNCHANGED <<given, target, update, der, pc, handles, result>>

\* It waits without limit for the process to end.
Succeeded(exitCode) == exitCode = 0
AlwaysSucceeded(exitCode) == TRUE   \* a mutant of the next
HelperAnswered(exitCode) == Succeeded(exitCode)
WaitForHelper ==
    /\ pc = "helper" /\ helper \in {"0", "9900"}
    /\ IF HelperAnswered(IF helper = "0" THEN 0 ELSE 9900) THEN Succeeds ELSE Gives
    /\ UNCHANGED <<given, update, der, helper>>

-----------------------------------------------------------------------------
(* The helper: rundll32 loads the first DLL, and DetourFinishHelperProcess *)
(* updates the target.                                                     *)

\* A DLL of the helper's bitness has a name of its own; no file has "??" in it.
HelperLoads == update[Helper] = "idle" /\ Renamed(dlls[1]).bits = Bits(Helper)
HelperUpdates ==
    /\ helper = "running" /\ HelperLoads
    /\ Go(Helper, "scan")
    /\ UNCHANGED <<given, target, der, pc, helper, handles, result>>

\* No DLL, no payload (9905), no process (9901) or no success (9903).
HelperExits ==
    /\ helper = "running"
    /\ \/ update[Helper] \in {"idle", "failed"} /\ helper' = "9900"
       \/ update[Helper] = "done" /\ helper' = "0"
    /\ UNCHANGED <<given, target, update, der, pc, handles, result>>

-----------------------------------------------------------------------------
(* Afterwards.                                                             *)

\* The caller resumes a process it asked to have suspended.
CallerResumes ==
    /\ pc = "returned" /\ result = "TRUE" /\ target.state = "suspended"
    /\ target' = [target EXCEPT !.state = "running"]
    /\ UNCHANGED <<given, update, der, pc, helper, handles, result>>

\* DetourRestoreAfterWith, in the target: the CLR header is left alone when its
\* flags are not those recorded.
RestoresClr(t, found) == found.clr = t.clr
Restored(t, found) ==
    [t EXCEPT !.magic = found.magic, !.import = found.import,
              !.bound = found.bound, !.iat = found.iat,
              !.clr = IF RestoresClr(t, found) THEN found.clr ELSE @, !.restored = TRUE]
HasPayload(t) == t.payload # NoHeaders
FindPayload(t) == IF HasPayload(t) THEN {t.payload} ELSE {}
RestoreAfterWith ==
    /\ target.state = "running" /\ ~target.restored
    /\ \E found \in FindPayload(target) : target' = Restored(target, found)
    /\ UNCHANGED <<given, update, der, pc, helper, handles, result>>

-----------------------------------------------------------------------------
Init ==
    /\ os \in Systems /\ image \in Images /\ image.magic <= os
    /\ dlls \in DllLists
    /\ call \in [routine : {"WithDll", "Ex"}, info : BOOLEAN, suspended : BOOLEAN,
                 bits : {32, 64}]
    /\ call.bits <= os
    /\ IF call.routine = "WithDll" THEN Len(dlls) <= 1 ELSE dlls # <<>>
    /\ \A n \in DOMAIN dlls : dlls[n].bits \in {0, Unspecified, call.bits}
    /\ target = [state |-> "none", magic |-> image.magic, import |-> image.import,
                 bound |-> image.bound, iat |-> image.iat, clr |-> image.clr,
                 payload |-> NoHeaders, restored |-> FALSE]
    /\ update = [p \in {Creator, Helper} |-> "idle"]
    /\ der = [p \in {Creator, Helper} |-> NoHeaders]
    /\ pc = "start" /\ helper = "none" /\ handles = "none" /\ result = "none"

Update(p) == \/ Scan(p) \/ Convert(p) \/ UpdateImports(p) \/ UpdateClr(p)
             \/ CopyRestorePayload(p) \/ UpdateFails(p)

Next ==
    \/ CreateFails \/ CreateSuspended \/ CreatorUpdated \/ CreatorFailed
    \/ HelperNotStarted \/ StartHelper \/ WaitForHelper
    \/ HelperUpdates \/ HelperExits
    \/ \E p \in {Creator, Helper} : Update(p)
    \/ CallerResumes \/ RestoreAfterWith

Spec == Init /\ [][Next]_vars

-----------------------------------------------------------------------------
(* Properties.                                                             *)

Updaters == {p \in {Creator, Helper} : update[p] = "done"}
OldNames(import) == IF import.va = 0 THEN <<>> ELSE Loads(import.words)

\* Wherever the headers point to a table of ours, the loader finds the DLLs in
\* it, in their order, then the imports the executable had, and then the end;
\* a converted executable keeps none.
LoaderSees ==
    target.import.va \in Free =>
        \E p \in {Creator, Helper} :
            Loads(target.import.words) =
                [n \in DOMAIN dlls |-> NameWord(DllsOf(p)[n], Bits(p))]
                    \o IF image.magic # target.magic THEN <<>> ELSE OldNames(image.import)

\* A process that runs, or that the caller may resume, was prepared to the last
\* step by exactly one updater of its own bitness, whatever failed before.
RunsOnlyPrepared ==
    target.state = "running" \/ result = "TRUE" =>
        /\ \E p \in {Creator, Helper} : Updaters = {p} /\ Bits(p) = ProcessBits
        /\ target.payload # NoHeaders
        /\ target.restored \/ target.import.va \in Free
        /\ target.magic = ProcessBits

\* When a call has failed, the process is gone, no helper works on it, and the
\* routines that own the handles have closed them.
FailureLeavesNothing ==
    result = "FALSE" =>
        /\ target.state \in {"none", "terminated"}
        /\ helper # "running"
        /\ AsksHelper => handles # "open"

\* DetourRestoreAfterWith gives the import table, the bound imports and the IAT
\* back as the system had loaded them.  Two changes are left for good: a neutral
\* executable that was made one of 64 bits stays one, and managed code that was
\* IL_ONLY is so no longer: the update clears the flag, and the CLR header is
\* then not written back because its flags are not those recorded.
RestoreGivesOriginal ==
    target.restored =>
        /\ target.import = image.import /\ target.bound = image.bound
        /\ target.iat = image.iat
        /\ target.magic = IF image.clr = 1 THEN ProcessBits ELSE image.magic
        /\ target.clr = IF IlOnly(image.clr) THEN image.clr - 1 ELSE image.clr

\* An RVA of 32 bits reaches the new table from the module.
TableInReach ==
    target.import.va \in Free /\ target.magic = 64 => target.import.va - Module <= Reach
================================================================================
