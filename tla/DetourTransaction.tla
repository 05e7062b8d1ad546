-------------------------- MODULE DetourTransaction --------------------------
(***************************************************************************)
(* The transaction engine of src/utils/detour/detours.cpp: threads of one  *)
(* process open a transaction, stage attach and detach operations in it,   *)
(* suspend other threads, and commit or abort.  A commit writes a jump     *)
(* over the first bytes of each attached function (its detour's            *)
(* trampoline), and puts back the saved bytes of each detached one.        *)
(*                                                                         *)
(* A trampoline is a slot of a trampoline region; the code at the entry of *)
(* a function is either Original or "a jump through trampoline s".  A page *)
(* of code is RX, or RWX while an operation on it is pending.              *)
(***************************************************************************)
EXTENDS Naturals, Sequences, FiniteSets

CONSTANTS
    Threads,       \* the threads of the process that call the API
    Funcs,         \* target functions
    Detours,       \* replacement functions
    Trampolines,   \* slots of the trampoline regions
    Pages,         \* code pages
    PageOf,        \* the page a target function lies on
    Pointers,      \* the PVOID variables whose address clients pass
    TargetOf,      \* what such a variable holds at first: a function or Null
    Stubs,         \* <<d, f>>: detour d is only a jump to function f
    TooSmall,      \* functions whose movable code is shorter than a jump
    Disciplined,   \* TRUE: clients stage operations as Orderly says
    MaxOperations, \* bound on the operations of one transaction
    NoThread, Null, Original,
    Unmapped       \* an address that no memory is at

ASSUME NoThreadAssumption == NoThread \notin Threads
ASSUME NullAssumption == Null \notin Funcs \cup Trampolines \cup Detours
ASSUME UnmappedAssumption == Unmapped \notin Funcs \cup Trampolines \cup {Null}
ASSUME OriginalAssumption == Original \notin Trampolines
ASSUME DisjointAssumption == Funcs \cap Trampolines = {}
ASSUME PageOfAssumption == PageOf \in [Funcs -> Pages]
ASSUME TargetOfAssumption == TargetOf \in [Pointers -> Funcs \cup {Null}]
ASSUME StubsAssumption == Stubs \subseteq Detours \X Funcs
ASSUME BoundAssumption == MaxOperations \in Nat
ASSUME FiniteAssumption == IsFiniteSet(Trampolines)

VARIABLES
    s_nPendingThreadId,    \* owner of the open transaction
    s_nPendingError,
    s_pPendingOperations,  \* newest operation first
    s_pPendingThreads,     \* threads to resume
    s_fIgnoreTooSmall, s_fRetainRegions,
    regions,               \* protection of the trampoline regions, if any
    trampoline,            \* contents of each slot
    code,                  \* the entry code of each function
    protect,               \* protection of each code page
    pointer,               \* the clients' variables
    suspended,             \* threads the scheduler does not run
    hThread,               \* DetourUpdateThread's argument, until it is listed
    pc,                    \* where each thread is
    path,                  \* commit, rollback (a failed commit) or abort
    cursor,                \* commit: next operation to patch
    freed,                 \* commit: some trampoline was freed (a local,
                           \* like cursor: back to its first value when dead)
    ret                    \* the value of each thread's latest call

statics == <<s_nPendingThreadId, s_nPendingError, s_pPendingOperations,
             s_pPendingThreads>>
flags   == <<s_fIgnoreTooSmall, s_fRetainRegions>>
memory  == <<regions, trampoline, code, protect, pointer>>
control == <<pc, path, cursor, freed>>
vars    == <<statics, flags, memory, suspended, hThread, control, ret>>

-----------------------------------------------------------------------------
Errors  == {"ERROR_INVALID_OPERATION", "ERROR_INVALID_HANDLE",
            "ERROR_INVALID_BLOCK", "ERROR_NOT_ENOUGH_MEMORY",
            "GetLastError"}
Results == Errors \cup {"NO_ERROR"}
Perms   == {"RX", "RWX"}
Places  == {"client", "push", "patch", "restore", "abort", "resume",
            "release", "returnCommitted", "returnRolledBack"}

Addresses == Funcs \cup Trampolines \cup {Null, Unmapped}

Operation  == [fIsRemove : BOOLEAN, ppbPointer : Pointers, pbTarget : Funcs,
               pTrampoline : Trampolines, dwPerm : Perms]
Trampoline == [pbTarget : Funcs \cup {Null}, pbDetour : Detours \cup {Null},
               rbRestore : Trampolines \cup {Original}]

\* A slot on a region's free list: its bytes are zero.
FreeBlock == [pbTarget |-> Null, pbDetour |-> Null, rbRestore |-> Original]
InUse(s)  == trampoline[s].pbTarget # Null

Running(t)     == t \notin suspended
Calls(t)       == Running(t) /\ pc[t] = "client"
At(t, place)   == Running(t) /\ pc[t] = place
Owns(t)        == s_nPendingThreadId = t
Goto(t, place) == pc' = [pc EXCEPT ![t] = place]
Return(t, r)   == ret' = [ret EXCEPT ![t] = r]

Init ==
    /\ s_nPendingThreadId = NoThread
    /\ s_nPendingError = "NO_ERROR"
    /\ s_pPendingOperations = <<>>
    /\ s_pPendingThreads = {}
    /\ s_fIgnoreTooSmall = FALSE
    /\ s_fRetainRegions = FALSE
    /\ regions = "none"
    /\ trampoline = [s \in Trampolines |-> FreeBlock]
    /\ code = [f \in Funcs |-> Original]
    /\ protect = [g \in Pages |-> "RX"]
    /\ pointer = TargetOf
    /\ suspended = {}
    /\ hThread = NoThread
    /\ pc = [t \in Threads |-> "client"]
    /\ path = "none"
    /\ cursor = 0
    /\ freed = FALSE
    /\ ret = [t \in Threads |-> "NO_ERROR"]

-----------------------------------------------------------------------------
(* Settings: plain assignments any thread may make at any time.            *)

SetIgnoreTooSmall(t, fIgnore) ==
    /\ Calls(t)
    /\ s_fIgnoreTooSmall' = fIgnore
    /\ UNCHANGED <<statics, s_fRetainRegions, memory, suspended, hThread,
                   control, ret>>

SetRetainRegions(t, fRetain) ==
    /\ Calls(t)
    /\ s_fRetainRegions' = fRetain
    /\ UNCHANGED <<statics, s_fIgnoreTooSmall, memory, suspended, hThread,
                   control, ret>>

-----------------------------------------------------------------------------
(* Opening a transaction.                                                  *)

BeginBusy(t) ==
    /\ Calls(t)
    /\ s_nPendingThreadId # NoThread
    /\ Return(t, "ERROR_INVALID_OPERATION")
    /\ UNCHANGED <<statics, flags, memory, suspended, hThread, control>>

\* detour_writable_trampoline_regions that changes nothing.
WritableRegionsSkipped(error) ==
    error = "NO_ERROR" /\ regions' = regions

\* detour_writable_trampoline_regions: it may stop at a region whose
\* protection cannot be changed, with the regions before it writable.
WritableRegions(error) ==
    \/ /\ error = "NO_ERROR"
       /\ regions' = IF regions = "none" THEN "none" ELSE "RWX"
    \/ /\ error = "GetLastError"
       /\ regions # "none"
       /\ regions' \in {regions, "RWX"}

\* The thread owns the transaction even when Begin returns an error.
BeginOwner(t) ==
    /\ Calls(t)
    /\ s_nPendingThreadId = NoThread
    /\ s_nPendingThreadId' = t
    /\ s_pPendingOperations' = <<>>
    /\ s_pPendingThreads' = {}
    /\ \E error \in {"NO_ERROR", "GetLastError"} :
          /\ WritableRegions(error)
          /\ s_nPendingError' = error
          /\ Return(t, error)
    /\ UNCHANGED <<flags, trampoline, code, protect, pointer, suspended,
                   hThread, control>>

Begin(t) == BeginBusy(t) \/ BeginOwner(t)

-----------------------------------------------------------------------------
(* DetourUpdateThread.  It does not look at the owner of the transaction.  *)

\* The pseudo handle of GetCurrentThread, and calls after an error.
UpdateThreadNothing(t, handle) ==
    /\ Calls(t)
    /\ \/ s_nPendingError # "NO_ERROR" /\ Return(t, s_nPendingError)
       \/ /\ s_nPendingError = "NO_ERROR"
          /\ handle = "GetCurrentThread"
          /\ Return(t, "NO_ERROR")
    /\ UNCHANGED <<statics, flags, memory, suspended, hThread, control>>

UpdateThreadFails(t) ==
    /\ Calls(t)
    /\ s_nPendingError = "NO_ERROR"
    /\ \E error \in {"ERROR_NOT_ENOUGH_MEMORY", "GetLastError"} :
          /\ s_nPendingError' = error
          /\ Return(t, error)
    /\ UNCHANGED <<s_nPendingThreadId, s_pPendingOperations,
                   s_pPendingThreads, flags, memory, suspended, hThread,
                   control>>

\* SuspendThread takes effect at once: on the caller's own thread, too, when
\* the handle is a real one.
UpdateThreadSuspends(t, u) ==
    /\ Calls(t)
    /\ s_nPendingError = "NO_ERROR"
    /\ suspended' = suspended \cup {u}
    /\ hThread' = u
    /\ Goto(t, "push")
    /\ UNCHANGED <<statics, flags, memory, path, cursor, freed, ret>>

PushThread(t) ==
    /\ At(t, "push")
    /\ s_pPendingThreads' = s_pPendingThreads \cup {hThread}
    /\ hThread' = NoThread
    /\ Goto(t, "client")
    /\ Return(t, "NO_ERROR")
    /\ UNCHANGED <<s_nPendingThreadId, s_nPendingError, s_pPendingOperations,
                   flags, memory, suspended, path, cursor, freed>>

-----------------------------------------------------------------------------
(* DetourAttach and DetourDetach begin with the same checks.               *)

Staging(t) == Calls(t) /\ Owns(t) /\ s_nPendingError = "NO_ERROR"

\* Not the owner, or an earlier call of the transaction failed.
StageRefused(t) ==
    /\ Calls(t)
    /\ \/ ~Owns(t) /\ Return(t, "ERROR_INVALID_OPERATION")
       \/ /\ Owns(t)
          /\ s_nPendingError # "NO_ERROR"
          /\ Return(t, s_nPendingError)
    /\ UNCHANGED <<statics, flags, memory, suspended, hThread, control>>

\* A call that fails: its error is kept for the commit to see.
StageFails(t, error) ==
    /\ s_nPendingError' = error
    /\ Return(t, error)
    /\ UNCHANGED <<s_nPendingThreadId, s_pPendingOperations,
                   s_pPendingThreads>>

\* A call that gives up without making the transaction fail.
StageStops(t, error) ==
    Return(t, error) /\ UNCHANGED statics

FailsOrStops(t, error) ==
    IF s_fIgnoreTooSmall THEN StageStops(t, error) ELSE StageFails(t, error)

StageNullPointer(t, p) ==
    /\ Staging(t)
    /\ pointer[p] = Null
    /\ StageFails(t, "ERROR_INVALID_HANDLE")
    /\ UNCHANGED <<flags, memory, suspended, hThread, control>>

\* The list grows at its head; a list that grew at its tail would be restored
\* in the order of the saves.
ListedAtTail(o) == Append(s_pPendingOperations, o)
Listed(o) == <<o>> \o s_pPendingOperations

PushOperation(t, o) ==
    /\ s_pPendingOperations' = Listed(o)
    /\ Return(t, "NO_ERROR")
    /\ UNCHANGED <<s_nPendingThreadId, s_nPendingError, s_pPendingThreads>>

-----------------------------------------------------------------------------
(* DetourAttach.  The first bytes of an attached function are a jump, which *)
(* is long enough to be moved, whatever the function's own code.           *)

IsTooSmall(f) == f \in TooSmall /\ code[f] = Original

\* The detour is only a jump to the target: nothing is staged, and the error
\* both branches return is the NO_ERROR it was initialised with.
AttachStub(t, p, d) ==
    /\ Staging(t)
    /\ pointer[p] \in Funcs
    /\ <<d, pointer[p]>> \in Stubs
    /\ FailsOrStops(t, "NO_ERROR")
    /\ UNCHANGED <<flags, memory, suspended, hThread, control>>

AttachNoMemory(t, p, d) ==
    /\ Staging(t)
    /\ pointer[p] \in Funcs
    /\ <<d, pointer[p]>> \notin Stubs
    /\ StageFails(t, "ERROR_NOT_ENOUGH_MEMORY")
    /\ UNCHANGED <<flags, memory, suspended, hThread, control>>

\* detour_alloc_trampoline: a free slot; a new region is writable.
AllocTrampoline(s) ==
    /\ ~InUse(s)
    /\ regions' = IF regions = "none" THEN "RWX" ELSE regions

AttachTooSmall(t, p, d) ==
    /\ Staging(t)
    /\ pointer[p] \in Funcs
    /\ <<d, pointer[p]>> \notin Stubs
    /\ IsTooSmall(pointer[p])
    /\ \E s \in Trampolines : AllocTrampoline(s)
    /\ FailsOrStops(t, "ERROR_INVALID_BLOCK")
    /\ UNCHANGED <<flags, trampoline, code, protect, pointer, suspended,
                   hThread, control>>

AttachProtectFails(t, p, d) ==
    /\ Staging(t)
    /\ pointer[p] \in Funcs
    /\ <<d, pointer[p]>> \notin Stubs
    /\ ~IsTooSmall(pointer[p])
    /\ \E s \in Trampolines : AllocTrampoline(s)
    /\ StageFails(t, "GetLastError")
    /\ UNCHANGED <<flags, trampoline, code, protect, pointer, suspended,
                   hThread, control>>

\* The bytes the trampoline saves and runs in place of those it covers: not the
\* function's own when it is hooked already, and taken before the patch.
CopiedOriginal(f, s) == Original
CopiedAfterPatch(f, s) == s
CopiedBytes(f, s) == code[f]

AttachStages(t, p, d) ==
    /\ Staging(t)
    /\ Len(s_pPendingOperations) < MaxOperations
    /\ pointer[p] \in Funcs
    /\ <<d, pointer[p]>> \notin Stubs
    /\ ~IsTooSmall(pointer[p])
    /\ \E s \in Trampolines :
         LET f == pointer[p] IN
         /\ AllocTrampoline(s)
         /\ trampoline' = [trampoline EXCEPT ![s] =
                [pbTarget |-> f, pbDetour |-> d,
                 rbRestore |-> CopiedBytes(f, s)]]
         /\ protect' = [protect EXCEPT ![PageOf[f]] = "RWX"]
         /\ PushOperation(t, [fIsRemove |-> FALSE, ppbPointer |-> p,
                              pbTarget |-> f, pTrampoline |-> s,
                              dwPerm |-> protect[PageOf[f]]])
    /\ UNCHANGED <<flags, code, pointer, suspended, hThread, control>>

Attach(t, p, d) ==
    \/ StageRefused(t)
    \/ StageNullPointer(t, p)
    \/ AttachStub(t, p, d)
    \/ AttachNoMemory(t, p, d)
    \/ AttachTooSmall(t, p, d)
    \/ AttachProtectFails(t, p, d)
    \/ AttachStages(t, p, d)

-----------------------------------------------------------------------------
(* DetourDetach.  "Verify that Trampoline is in place" reads the block the *)
(* pointer leads to, and not the entry of the function: a pointer that     *)
(* leads nowhere gets no further than DetachNoMemory (HookApi).            *)

LooksInPlace(p, d) ==
    /\ pointer[p] \in Trampolines
    /\ InUse(pointer[p])
    /\ trampoline[pointer[p]].pbDetour = d

DetachNoMemory(t, p) ==
    /\ Staging(t)
    /\ pointer[p] # Null
    /\ StageFails(t, "ERROR_NOT_ENOUGH_MEMORY")
    /\ UNCHANGED <<flags, memory, suspended, hThread, control>>

DetachNotInPlace(t, p, d) ==
    /\ Staging(t)
    /\ pointer[p] \notin {Null, Unmapped}
    /\ ~LooksInPlace(p, d)
    /\ FailsOrStops(t, "ERROR_INVALID_BLOCK")
    /\ UNCHANGED <<flags, memory, suspended, hThread, control>>

DetachProtectFails(t, p, d) ==
    /\ Staging(t)
    /\ LooksInPlace(p, d)
    /\ StageFails(t, "GetLastError")
    /\ UNCHANGED <<flags, memory, suspended, hThread, control>>

DetachStages(t, p, d) ==
    /\ Staging(t)
    /\ Len(s_pPendingOperations) < MaxOperations
    /\ LooksInPlace(p, d)
    /\ LET s == pointer[p]
           f == trampoline[s].pbTarget
       IN  /\ protect' = [protect EXCEPT ![PageOf[f]] = "RWX"]
           /\ PushOperation(t, [fIsRemove |-> TRUE, ppbPointer |-> p,
                                pbTarget |-> f, pTrampoline |-> s,
                                dwPerm |-> protect[PageOf[f]]])
    /\ UNCHANGED <<flags, regions, trampoline, code, pointer, suspended,
                   hThread, control>>

Detach(t, p, d) ==
    \/ StageRefused(t)
    \/ StageNullPointer(t, p)
    \/ DetachNoMemory(t, p)
    \/ DetachNotInPlace(t, p, d)
    \/ DetachProtectFails(t, p, d)
    \/ DetachStages(t, p, d)

-----------------------------------------------------------------------------
(* DetourTransactionCommit and DetourTransactionAbort.                     *)

FinishRefused(t) ==
    /\ Calls(t)
    /\ ~Owns(t)
    /\ Return(t, "ERROR_INVALID_OPERATION")
    /\ UNCHANGED <<statics, flags, memory, suspended, hThread, control>>

\* "If any of the pending operations failed, then we abort".
ErrorIgnored == TRUE
NoPendingError == s_nPendingError = "NO_ERROR"

CommitStarts(t) ==
    /\ Calls(t)
    /\ Owns(t)
    /\ NoPendingError
    /\ Goto(t, "patch")
    /\ path' = "commit"
    /\ cursor' = 1
    /\ UNCHANGED <<statics, flags, memory, suspended, hThread, freed, ret>>

CommitRollsBack(t) ==
    /\ Calls(t)
    /\ Owns(t)
    /\ ~NoPendingError
    /\ Goto(t, "abort")
    /\ path' = "rollback"
    /\ UNCHANGED <<statics, flags, memory, suspended, hThread, cursor, freed,
                   ret>>

Commit(t) == FinishRefused(t) \/ CommitStarts(t) \/ CommitRollsBack(t)

AbortStarts(t) ==
    /\ Calls(t)
    /\ Owns(t)
    /\ Goto(t, "abort")
    /\ path' = "abort"
    /\ UNCHANGED <<statics, flags, memory, suspended, hThread, cursor, freed,
                   ret>>

Abort(t) == FinishRefused(t) \/ AbortStarts(t)

PatchedCode(o) == IF o.fIsRemove THEN trampoline[o.pTrampoline].rbRestore
                  ELSE o.pTrampoline

\* The client's pointer leads past the detour; a removal gives it back the
\* function, and neither keeps the slot nor takes the saved bytes.
PointerKept(o) == o.pTrampoline
PointerToBytes(o) == PatchedCode(o)
PatchedPointer(o) == IF o.fIsRemove THEN o.pbTarget ELSE o.pTrampoline

\* "Insert or remove each of the detours", newest operation first.
PatchOperation(t) ==
    /\ At(t, "patch")
    /\ cursor <= Len(s_pPendingOperations)
    /\ LET o == s_pPendingOperations[cursor] IN
       /\ code' = [code EXCEPT ![o.pbTarget] = PatchedCode(o)]
       /\ pointer' = [pointer EXCEPT ![o.ppbPointer] = PatchedPointer(o)]
    /\ cursor' = cursor + 1
    /\ UNCHANGED <<statics, flags, regions, trampoline, protect, suspended,
                   hThread, pc, path, freed, ret>>

PastEndByOne == cursor > Len(s_pPendingOperations) + 1
PastEnd == cursor > Len(s_pPendingOperations)

PatchingDone(t) ==
    /\ At(t, "patch")
    /\ PastEnd
    /\ cursor' = 0
    /\ Goto(t, "restore")
    /\ UNCHANGED <<statics, flags, memory, suspended, hThread, path, freed,
                   ret>>

\* The slot goes back to its region when the operation was a removal that is
\* committed or an attach that is given up.
FreedAlways(o, frees) == TRUE
FreesSlot(o, frees) == o.fIsRemove = frees

\* "Restore all of the page permissions": one operation, and its slot when
\* the operation that ends here no longer needs it.
RestorePage(t, frees) ==
    LET o == Head(s_pPendingOperations) IN
    /\ s_pPendingOperations # <<>>
    /\ protect' = [protect EXCEPT ![PageOf[o.pbTarget]] = o.dwPerm]
    /\ trampoline' = IF FreesSlot(o, frees)
                     THEN [trampoline EXCEPT ![o.pTrampoline] = FreeBlock]
                     ELSE trampoline
    /\ s_pPendingOperations' = Tail(s_pPendingOperations)
    /\ UNCHANGED <<s_nPendingThreadId, s_nPendingError, s_pPendingThreads,
                   flags, regions, code, pointer, suspended, hThread, pc, path,
                   cursor, ret>>

\* A committed removal frees its trampoline.
RestoreOperation(t) ==
    /\ At(t, "restore")
    /\ RestorePage(t, TRUE)
    /\ freed' = (freed \/ Head(s_pPendingOperations).fIsRemove)

\* An abandoned attach frees its trampoline.
AbortOperation(t) ==
    /\ At(t, "abort")
    /\ RestorePage(t, FALSE)
    /\ UNCHANGED freed

FreesRegions ==
    /\ path = "commit"
    /\ freed
    /\ ~s_fRetainRegions
    /\ \A s \in Trampolines : ~InUse(s)

RunnableSkipped == regions
RunnableRegions == IF regions = "none" THEN "none" ELSE "RX"

\* detour_free_unused_trampoline_regions, then
\* detour_runnable_trampoline_regions.
SettleRegions(t) ==
    /\ \/ At(t, "restore")
       \/ At(t, "abort")
    /\ s_pPendingOperations = <<>>
    /\ regions' = IF FreesRegions THEN "none" ELSE RunnableRegions
    /\ freed' = FALSE
    /\ Goto(t, "resume")
    /\ UNCHANGED <<statics, flags, trampoline, code, protect, pointer,
                   suspended, hThread, path, cursor, ret>>

NotResumed == suspended
StillSuspended == suspended \ s_pPendingThreads

ResumeThreads(t) ==
    /\ At(t, "resume")
    /\ suspended' = StillSuspended
    /\ s_pPendingThreads' = {}
    /\ Goto(t, "release")
    /\ UNCHANGED <<s_nPendingThreadId, s_nPendingError, s_pPendingOperations,
                   flags, memory, hThread, path, cursor, freed, ret>>

\* Abort returns NO_ERROR; the two exits of a commit have yet to read
\* s_nPendingError, which is no longer theirs.
Release(t) ==
    /\ At(t, "release")
    /\ s_nPendingThreadId' = NoThread
    /\ path' = "none"
    /\ \/ path = "abort" /\ Goto(t, "client") /\ Return(t, "NO_ERROR")
       \/ path = "commit" /\ Goto(t, "returnCommitted") /\ UNCHANGED ret
       \/ path = "rollback" /\ Goto(t, "returnRolledBack") /\ UNCHANGED ret
    /\ UNCHANGED <<s_nPendingError, s_pPendingOperations, s_pPendingThreads,
                   flags, memory, suspended, hThread, cursor, freed>>

CommitReturns(t) ==
    /\ \/ At(t, "returnCommitted")
       \/ At(t, "returnRolledBack")
    /\ Return(t, s_nPendingError)
    /\ Goto(t, "client")
    /\ UNCHANGED <<statics, flags, memory, suspended, hThread, path, cursor,
                   freed>>

-----------------------------------------------------------------------------
(* The clients.  Orderly is what the code leaves to its callers: one       *)
(* operation on a function in a transaction, a pointer that is not being   *)
(* used already, and detours of a function removed in the opposite order   *)
(* of their insertion.                                                     *)

PointedFunction(p) == IF pointer[p] \in Trampolines
                      THEN trampoline[pointer[p]].pbTarget
                      ELSE pointer[p]

Pending(f) == {i \in DOMAIN s_pPendingOperations :
                  s_pPendingOperations[i].pbTarget = f}

OnTop(p) == pointer[p] \in Trampolines
                => /\ InUse(pointer[p])
                   /\ code[PointedFunction(p)] = pointer[p]

Orderly(p) == OnTop(p) /\ Pending(PointedFunction(p)) = {}

\* Threads are suspended by the owner, one by one, never the owner itself.
MaySuspend(t, u) == Owns(t) /\ u # t /\ u \notin s_pPendingThreads

ClientNext(t) ==
    \/ Begin(t)
    \/ \E b \in BOOLEAN : SetIgnoreTooSmall(t, b) \/ SetRetainRegions(t, b)
    \/ Owns(t) /\ UpdateThreadNothing(t, "GetCurrentThread")
    \/ Owns(t) /\ UpdateThreadFails(t)
    \/ \E u \in Threads : MaySuspend(t, u) /\ UpdateThreadSuspends(t, u)
    \/ \E p \in Pointers, d \in Detours :
          /\ Disciplined => Orderly(p)
          /\ Attach(t, p, d) \/ Detach(t, p, d)
    \/ Commit(t)
    \/ Abort(t)

CallNext(t) ==
    \/ PushThread(t)
    \/ PatchOperation(t)
    \/ PatchingDone(t)
    \/ RestoreOperation(t)
    \/ AbortOperation(t)
    \/ SettleRegions(t)
    \/ ResumeThreads(t)
    \/ Release(t)
    \/ CommitReturns(t)

Next == \E t \in Threads : ClientNext(t) \/ CallNext(t)

Spec == Init /\ [][Next]_vars

\* Every thread that is not suspended goes on with the call it is in, and the
\* owner of a transaction ends it: hook.cpp ends each one it could begin.
Fairness == \A t \in Threads :
                /\ WF_vars(CallNext(t))
                /\ WF_vars(Owns(t) /\ (Commit(t) \/ Abort(t)))

FairSpec == Spec /\ Fairness

-----------------------------------------------------------------------------
(* Properties.                                                             *)

\* The types of the statics, of the process's memory and of the control state.
TypeOK ==
    /\ s_nPendingThreadId \in Threads \cup {NoThread}
    /\ s_nPendingError \in Results
    /\ s_pPendingOperations \in Seq(Operation)
    /\ s_pPendingThreads \subseteq Threads
    /\ s_fIgnoreTooSmall \in BOOLEAN
    /\ s_fRetainRegions \in BOOLEAN
    /\ regions \in Perms \cup {"none"}
    /\ trampoline \in [Trampolines -> Trampoline]
    /\ code \in [Funcs -> Trampolines \cup {Original}]
    /\ protect \in [Pages -> Perms]
    /\ pointer \in [Pointers -> Addresses]
    /\ suspended \subseteq Threads
    /\ hThread \in Threads \cup {NoThread}
    /\ pc \in [Threads -> Places]
    /\ path \in {"none", "commit", "rollback", "abort"}
    /\ cursor \in Nat
    /\ freed \in BOOLEAN
    /\ ret \in [Threads -> Results]

PendingPage(i) == PageOf[s_pPendingOperations[i].pbTarget]

\* No write of a call faults: an open transaction that has not failed finds the
\* regions writable when it takes a slot, and as long as an operation is
\* pending, its function's page and its slot can be written.
WritesNeverFault ==
    /\ \A t \in Threads : Staging(t) => regions # "RX"
    /\ s_pPendingOperations # <<>> => regions = "RWX"
    /\ \A i \in DOMAIN s_pPendingOperations : protect[PendingPage(i)] = "RWX"

\* Between transactions no page of code and no trampoline region is left
\* writable, although operations on functions of one page each save and
\* restore its protection, and whichever way the transactions ended.
NothingLeftWritable ==
    s_nPendingThreadId = NoThread =>
        /\ \A g \in Pages : protect[g] = "RX"
        /\ regions # "RWX"

\* A jump never leads to a slot that was freed or given to another function:
\* the entry of a function jumps through a trampoline of that function, and
\* so does the code each trampoline in use saved.
NoDanglingJump ==
    /\ \A f \in Funcs : code[f] # Original => trampoline[code[f]].pbTarget = f
    /\ \A s \in Trampolines :
          LET restore == trampoline[s].rbRestore IN
          InUse(s) /\ restore # Original
            => trampoline[restore].pbTarget = trampoline[s].pbTarget

\* The jumps a call of f goes through when every detour calls on: after n of
\* them.
CallChain(f) ==
    LET chain[n \in Nat] ==
            IF n = 0 THEN code[f]
            ELSE IF chain[n - 1] = Original THEN Original
            ELSE trampoline[chain[n - 1]].rbRestore
    IN  chain

\* A detour is never hooked in twice and never calls itself through the saved
\* bytes: a call of a function goes through each trampoline at most once and
\* gets to the function's own code.
CallReachesOriginal ==
    \A f \in Funcs : CallChain(f)[Cardinality(Trampolines)] = Original

\* A slot is not lost: one that is in use is jumped to by a function or by
\* another trampoline, or belongs to an operation that is still pending.
NoTrampolineLost ==
    \A s \in Trampolines : InUse(s) =>
        \/ \E f \in Funcs : code[f] = s
        \/ \E r \in Trampolines : InUse(r) /\ trampoline[r].rbRestore = s
        \/ \E i \in DOMAIN s_pPendingOperations :
              s_pPendingOperations[i].pTrampoline = s

\* Between transactions every hook can be removed by the client that made it,
\* and no client's pointer is stale: the pointers that are not functions are,
\* one for one, the trampolines in use.
PointersMatchHooks ==
    s_nPendingThreadId = NoThread =>
        /\ \A s \in Trampolines : InUse(s) => \E p \in Pointers : pointer[p] = s
        /\ \A p \in Pointers : pointer[p] \in Trampolines =>
              /\ trampoline[pointer[p]].pbTarget = TargetOf[p]
              /\ \A q \in Pointers : pointer[q] = pointer[p] => q = p

\* Nobody is left suspended: a suspended thread is on the list the open
\* transaction resumes, or is about to be; never the transaction's owner.
NobodyLeftSuspended ==
    \A u \in suspended :
        /\ u \in s_pPendingThreads \cup {hThread}
        /\ s_nPendingThreadId \notin {u, NoThread}

\* A commit that aborts because an operation failed says so: its caller never
\* gets NO_ERROR for hooks that were not made.
RollbackReported ==
    [][\A t \in Threads : pc[t] = "returnRolledBack" /\ pc'[t] = "client"
          => ret'[t] # "NO_ERROR"]_vars

\* A suspended thread does not run again before all the code is patched and
\* the pages it may run on have their own protection back.
ResumedOnSettledCode ==
    [][\A u \in suspended : u \notin suspended' =>
          s_pPendingOperations = <<>> /\ regions # "RWX"]_vars

\* A commit or an abort that started comes to its end.
FinishCompletes == path # "none" ~> path = "none"

\* A thread that was suspended runs again.
SuspendedRunsAgain == \A u \in Threads : u \in suspended ~> u \notin suspended
=============================================================================
