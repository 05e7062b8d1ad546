-------------------------------- MODULE HookApi --------------------------------
(***************************************************************************)
(* HookFuncByName and UnHookFunc of src/utils/hook.cpp, called by several  *)
(* threads of a process: each call is one transaction of the engine with   *)
(* one operation.  The variable whose address DetourAttach and             *)
(* DetourDetach get is the call's own local, so a thread has one pointer;  *)
(* the caller's variable is written after the commit, through a DWORD: a   *)
(* 64-bit build keeps half of the address there, and UnHookFunc, which is  *)
(* given that half, reads memory where there is none.  The process ends.   *)
(***************************************************************************)
EXTENDS DetourTransaction

CONSTANTS
    Hooks,          \* <<f, d>>: the hooks the clients make and remove
    HangAllThreads, \* the values they pass for handAllThreads, which is TRUE
                    \* by default
    Low             \* the code that lies below 4 GB: all of it in a 32-bit
                    \* build

ASSUME HooksAssumption == Hooks \subseteq Funcs \X Detours
\* The clients keep one detour on a function, so removals are orderly.
ASSUME OneHookAssumption == \A h, k \in Hooks : h[1] = k[1] => h = k
ASSUME LocalsAssumption == Pointers = Threads
ASSUME HangAssumption == HangAllThreads \subseteq BOOLEAN
ASSUME LowAssumption == Low \subseteq Funcs \cup Trampolines

NoHook == <<>>

VARIABLES
    api,      \* where each thread is in hook.cpp
    request,  \* the hook its call is about
    isHook,   \* the call is HookFuncByName, not UnHookFunc
    success,  \* the local of that name
    saved,    \* the client's variable behind oldFuncAddr, for each hook
    hooked    \* what the latest call about each hook has told its client

apiVars == <<api, request, isHook, success, saved, hooked>>
allVars == <<vars, apiVars>>

ApiPlaces == {"idle", "begin", "update", "again", "change", "commit",
              "committing", "store", "faulted"}

ApiInit ==
    /\ Init
    /\ api = [t \in Threads |-> "idle"]
    /\ request = [t \in Threads |-> NoHook]
    /\ isHook = [t \in Threads |-> FALSE]
    /\ success = [t \in Threads |-> FALSE]
    /\ saved = [h \in Hooks |-> Null]
    /\ hooked = [h \in Hooks |-> FALSE]

\* An access violation that nobody handles ends the process.
Alive == \A t \in Threads : api[t] # "faulted"

AtApi(t, place)   == Alive /\ Running(t) /\ api[t] = place
ApiGoto(t, place) == api' = [api EXCEPT ![t] = place]
Succeeds(t, b)    == success' = [success EXCEPT ![t] = b]

-----------------------------------------------------------------------------
\* A client makes a hook it was told it does not have, and removes one it was
\* told it has; it makes one call about a hook at a time.
Free(h) == \A t \in Threads : request[t] # h

\* dstFunc = GetProcAddress(...), or UnHookFunc's by-value oldFuncAddr.
CallApi(t, h, hook) ==
    /\ AtApi(t, "idle")
    /\ Free(h)
    /\ hook # hooked[h]
    /\ hook \/ saved[h] # Null
    /\ pointer' = [pointer EXCEPT ![t] = IF hook THEN h[1] ELSE saved[h]]
    /\ request' = [request EXCEPT ![t] = h]
    /\ isHook' = [isHook EXCEPT ![t] = hook]
    /\ Succeeds(t, FALSE)
    /\ ApiGoto(t, "begin")
    /\ UNCHANGED <<statics, flags, regions, trampoline, code, protect,
                   suspended, hThread, control, ret, saved, hooked>>

BeginRetried(t) == IF ret'[t] = "NO_ERROR" THEN "update" ELSE "begin"
AfterBegin(t) == IF ret'[t] = "NO_ERROR" THEN "update" ELSE "store"

\* DetourAttachFunc and DetourDetachFunc return at once when Begin fails.
BeginApi(t) ==
    /\ AtApi(t, "begin")
    /\ Begin(t)
    /\ ApiGoto(t, AfterBegin(t))
    /\ UNCHANGED <<request, isHook, success, saved, hooked>>

\* Only HookFuncByName suspends other threads.
Hangs(t, hang) == hang \in (IF isHook[t] THEN HangAllThreads ELSE {FALSE})

UpdateSelf(t) ==
    /\ AtApi(t, "update")
    /\ Hangs(t, FALSE)
    /\ UpdateThreadNothing(t, "GetCurrentThread")
    /\ Succeeds(t, isHook[t])
    /\ ApiGoto(t, "change")
    /\ UNCHANGED <<request, isHook, saved, hooked>>

\* The snapshot cannot be made: nothing is updated and the attach skipped.
SnapshotFails(t) ==
    /\ pc[t] = "client"
    /\ \/ AtApi(t, "update") /\ Hangs(t, TRUE)
       \/ AtApi(t, "again")
    /\ Succeeds(t, FALSE)
    /\ ApiGoto(t, "commit")
    /\ UNCHANGED <<vars, request, isHook, saved, hooked>>

\* The loop keeps the thread whose id is the caller's own, and opens a real
\* handle to it; a handle that cannot be opened is passed over.
UpdateAllThreads(t) ==
    /\ AtApi(t, "update")
    /\ Hangs(t, TRUE)
    /\ \/ UpdateThreadSuspends(t, t) /\ ApiGoto(t, "again") /\ UNCHANGED success
       \/ UpdateThreadFails(t) /\ ApiGoto(t, "commit") /\ Succeeds(t, FALSE)
       \/ ApiGoto(t, "again") /\ UNCHANGED <<vars, success>>
    /\ UNCHANGED <<request, isHook, saved, hooked>>

\* The next snapshot shows no thread that is not in tids.
NothingNew(t) ==
    /\ AtApi(t, "again")
    /\ pc[t] = "client"
    /\ Succeeds(t, TRUE)
    /\ ApiGoto(t, "change")
    /\ UNCHANGED <<vars, request, isHook, saved, hooked>>

\* "break" goes to the commit, whatever the result.
ReturnedEarly(t) == IF ret'[t] = "NO_ERROR" THEN "commit" ELSE "store"
AfterChange(t) == "commit"

\* A failed DetourAttach leaves success as DetourUpdateThreads set it.
AttachApi(t) ==
    /\ AtApi(t, "change")
    /\ isHook[t]
    /\ Attach(t, t, request[t][2])
    /\ ApiGoto(t, AfterChange(t))
    /\ UNCHANGED <<request, isHook, success, saved, hooked>>

DetachAssumed(t) == TRUE
DetachSucceeded(t) == ret'[t] = "NO_ERROR"

\* DetourCodeFromPointer(*ppPointer, NULL) and cbRestore read at the address.
DetachFaults(t) ==
    /\ AtApi(t, "change")
    /\ ~isHook[t]
    /\ Staging(t)
    /\ pointer[t] = Unmapped
    /\ ApiGoto(t, "faulted")
    /\ UNCHANGED <<vars, request, isHook, success, saved, hooked>>

DetachApi(t) ==
    /\ AtApi(t, "change")
    /\ ~isHook[t]
    /\ Detach(t, t, request[t][2])
    /\ Succeeds(t, DetachSucceeded(t))
    /\ ApiGoto(t, AfterChange(t))
    /\ UNCHANGED <<request, isHook, saved, hooked>>

CommitApi(t) ==
    /\ AtApi(t, "commit")
    /\ Commit(t)
    /\ ApiGoto(t, "committing")
    /\ UNCHANGED <<request, isHook, success, saved, hooked>>

\* The engine's steps inside a call; DetourTransactionCommit's value is not
\* looked at.
InsideCall(t) ==
    /\ Alive
    /\ CallNext(t)
    /\ IF api[t] = "committing" /\ pc'[t] = "client"
       THEN ApiGoto(t, "store")
       ELSE UNCHANGED api
    /\ UNCHANGED <<request, isHook, success, saved, hooked>>

\* "*(DWORD*)oldFuncAddr = (DWORD)dstFunc"
AsDword(p) == IF p \in Low THEN p ELSE Unmapped
StoredTarget(t) == AsDword(request[t][1])
StoredPointer(t) == AsDword(pointer[t])

\* HookFuncByName stores the pointer, whether or not it succeeded.
ReturnApi(t) ==
    /\ AtApi(t, "store")
    /\ LET h == request[t] IN
       /\ saved' = IF isHook[t] THEN [saved EXCEPT ![h] = StoredPointer(t)]
                   ELSE saved
       /\ hooked' = IF success[t] THEN [hooked EXCEPT ![h] = isHook[t]]
                    ELSE hooked
    /\ request' = [request EXCEPT ![t] = NoHook]
    /\ pointer' = [pointer EXCEPT ![t] = Null]
    /\ ApiGoto(t, "idle")
    /\ UNCHANGED <<statics, flags, regions, trampoline, code, protect,
                   suspended, hThread, control, ret, isHook, success>>

ApiStep(t) ==
    \/ BeginApi(t)
    \/ UpdateSelf(t)
    \/ SnapshotFails(t)
    \/ UpdateAllThreads(t)
    \/ NothingNew(t)
    \/ AttachApi(t)
    \/ DetachFaults(t)
    \/ DetachApi(t)
    \/ CommitApi(t)
    \/ InsideCall(t)
    \/ ReturnApi(t)

Ended == ~Alive /\ UNCHANGED allVars

ApiNext ==
    \/ \E t \in Threads :
        \/ \E h \in Hooks, hook \in BOOLEAN : CallApi(t, h, hook)
        \/ ApiStep(t)
    \/ Ended

ApiSpec == ApiInit /\ [][ApiNext]_allVars

\* Each thread goes on with its call unless it is suspended.
ApiFairSpec == ApiSpec /\ \A t \in Threads : WF_allVars(ApiStep(t))

-----------------------------------------------------------------------------
(* Properties.                                                             *)

ApiTypeOK ==
    /\ TypeOK
    /\ api \in [Threads -> ApiPlaces]
    /\ request \in [Threads -> Hooks \cup {NoHook}]
    /\ isHook \in [Threads -> BOOLEAN]
    /\ success \in [Threads -> BOOLEAN]
    /\ saved \in [Hooks -> Addresses]
    /\ hooked \in [Hooks -> BOOLEAN]

\* Calls of the function go to the detour.
InEffect(h) == \E s \in Trampolines :
                   code[h[1]] = s /\ trampoline[s].pbDetour = h[2]

\* A client that was told it has no hook, by a HookFuncByName that returned
\* false or an UnHookFunc that returned true, may unload the detour's code:
\* no call goes there.
NotInEffectUnlessTold ==
    \A h \in Hooks : Free(h) /\ ~hooked[h] => ~InEffect(h)

\* A hook that is in effect between two calls about it, and whose trampoline
\* lies below 4 GB (as every one does in a 32-bit build), can be removed, and
\* its detour can call the original: the client's variable is the trampoline.
\* (hook.cpp:141 keeps half of any other trampoline's address.)
InEffectIsRemovable ==
    \A h \in Hooks :
        Free(h) /\ InEffect(h) /\ code[h[1]] \in Low => saved[h] = code[h[1]]

\* "Silently (and safely) drop any attempt to suspend our own thread": the
\* owner of the transaction is never suspended.
OwnerKeepsRunning == s_nPendingThreadId \notin suspended

\* Every call of HookFuncByName and UnHookFunc returns while the process lives,
\* except one that has suspended its own thread; the other threads' calls do
\* not wait for it.
CallsReturn ==
    \A t \in Threads :
        api[t] # "idle" ~> api[t] = "idle" \/ t \in suspended \/ ~Alive

\* A transaction that Begin reported as open is ended by the call that opened
\* it, so that other threads can hook again.  (Not one whose Begin failed, and
\* not by a thread that has suspended itself, and not in a process that has
\* ended.)
BegunTransactionsEnd ==
    \A t \in Threads :
        api[t] = "update" ~> ~Owns(t) \/ t \in suspended \/ ~Alive
=============================================================================
