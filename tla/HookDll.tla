-------------------------------- MODULE HookDll --------------------------------
(***************************************************************************)
(* A process that a hook DLL is loaded into: the loader with its lock and  *)
(* its reference counts, DllMain with the mutex that admits one copy of    *)
(* the DLL, HookInit and HookUninit with their two hooks, and the thread   *)
(* that paints lyrics through them.  (test/hookLyric/dllmain.cpp and       *)
(* hook_dll.cpp; hook_dll_demo/dllmain.cpp is the same with empty hooks)   *)
(*                                                                         *)
(* DllMain runs on the thread that loads the DLL: one that was created in  *)
(* the process for that, or the painting thread when a window hook brings  *)
(* it.  HookFuncByName and UnHookFunc do what HookApi shows of them.  The  *)
(* loader and user32 are not part of the repository.                       *)
(***************************************************************************)
EXTENDS LyricShare

CONSTANTS
    Dlls,       \* copies of the DLL under different paths
    Remote,     \* the threads created in the process from outside
    MaxFrames,  \* how often the process paints
    Ui,         \* its painting thread
    Nobody

VARIABLES
    bits,       \* 32 or 64: of the process, and of what runs in it
    alive,      \* the process has not crashed or ended
    fault,      \* why its painting thread crashed, if it did
    lock,       \* the thread that holds the loader's lock
    refs,       \* the loader's count for each copy
    attached,   \* DllMain has returned TRUE
    mutex,      \* the copy has a mutex_handle
    lyric,      \* it has a hook_lyric
    old,        \* m_oldUpdateLayerdWindow and ...Indirect, as 1 and 2
    hooks,      \* the copies whose detours are in place, for each function
    load,       \* what each thread does for the loader
    painter,    \* where the painting thread is in a detour
    frame,      \* the frame painted last
    last        \* the frame captured last, while the memory lives

dllVars == <<bits, alive, fault, lock, refs, attached, mutex, lyric, old, hooks,
             load, painter, frame, last>>

Threads == Remote \cup {Ui}
Nothing == [pc |-> "none", dll |-> Nobody, by |-> Nobody, success |-> FALSE,
            pointer |-> "null"]
Functions == {1, 2}         \* UpdateLayeredWindow, UpdateLayeredWindowIndirect

ASSUME UiAssumption == Ui \notin Remote
ASSUME RemoteAssumption == IsFiniteSet(Remote)
ASSUME NobodyAssumption == Nobody \notin Remote \cup Dlls \cup {Ui}
ASSUME ViewerAssumption == TheViewer \notin Dlls

DllInit ==
    /\ ShareInit
    /\ alive = TRUE /\ fault = "none" /\ lock = Nobody
    /\ refs = [d \in Dlls |-> 0]
    /\ attached = [d \in Dlls |-> FALSE]
    /\ mutex = [d \in Dlls |-> FALSE]
    /\ lyric = [d \in Dlls |-> FALSE]
    /\ old = [d \in Dlls |-> [i \in Functions |-> "null"]]
    /\ hooks = [i \in Functions |-> {}]
    /\ load = [t \in Threads |-> Nothing]
    /\ painter = [pc |-> "idle", dll |-> Nobody, fn |-> 1]
    /\ frame = 0 /\ last = 0

\* The end of the process closes its handles and views.
Dies(why) ==
    /\ alive' = FALSE /\ fault' = why
    /\ section' = Leave(Dlls)
    /\ last' = IF section.holders \subseteq Dlls THEN 0 ELSE last
    /\ UNCHANGED <<viewer, bits, lock, refs, attached, mutex, lyric, old, hooks,
                   load, painter, frame>>
Ends == alive /\ Dies("none")

-----------------------------------------------------------------------------
(* The loader and DllMain.                                                 *)

At(t, place) == alive /\ load[t].pc = place
Go(t, place) == load' = [load EXCEPT ![t].pc = place]
others == <<viewer, bits, alive, fault, painter, frame>>
shared == <<section, last>>

\* LoadLibraryW reads the path before it waits for the lock.
ReadPath(t) ==
    /\ At(t, "read")
    /\ Go(t, "want")
    /\ UNCHANGED <<others, shared, lock, refs, attached, mutex, lyric, old, hooks>>

\* A DLL that is there is counted; another is mapped, and its DllMain called.
LoadLibrary(t) ==
    /\ At(t, "want") /\ lock = Nobody
    /\ LET d == load[t].dll
       IN  /\ refs' = [refs EXCEPT ![d] = @ + 1]
           /\ IF refs[d] > 0 THEN Go(t, "loaded") /\ UNCHANGED lock
              ELSE Go(t, "isInjected") /\ lock' = t
    /\ UNCHANGED <<others, shared, attached, mutex, lyric, old, hooks>>

\* The mutex has the process id in its name: any copy of the DLL finds it.
MutexExists == \E d \in Dlls : mutex[d]
NotFound == FALSE       \* a mutant of the next
Injected == MutexExists
\* DllMain(DLL_PROCESS_DETACH) returns at once when there is no mutex_handle.
IsInjected(t) ==
    /\ At(t, "isInjected")
    /\ \/ Injected /\ Go(t, "unload") /\ UNCHANGED mutex
       \/ ~Injected /\ Go(t, "unload") /\ UNCHANGED mutex   \* CreateMutex failed
       \/ /\ ~Injected /\ Go(t, "map")
          /\ mutex' = [mutex EXCEPT ![load[t].dll] = TRUE]
    /\ UNCHANGED <<others, shared, lock, refs, attached, lyric, old, hooks>>

\* HookInit; the viewer may not be there, which is no failure.
OpenFileMapping(t) ==
    /\ At(t, "map")
    /\ lyric' = [lyric EXCEPT ![load[t].dll] = TRUE]
    /\ section' = IF section.holders = {} THEN section ELSE Hold(load[t].dll)
    /\ load' = [load EXCEPT ![t].pc = "hook1", ![t].success = TRUE]
    /\ UNCHANGED <<others, last, lock, refs, attached, mutex, old, hooks>>

\* HookFuncByName: the hook is live and TRUE returned; or there is none, and
\* TRUE or FALSE is returned with the function's own address.
Hook == <<"hook1", "hook2">>
Store == <<"store1", "store2">>
HookFuncByName(t, i) ==
    /\ At(t, Hook[i])
    /\ \/ /\ hooks' = [hooks EXCEPT ![i] = @ \cup {load[t].dll}]
          /\ load' = [load EXCEPT ![t].pc = Store[i], ![t].pointer = "trampoline"]
       \/ /\ \E told \in BOOLEAN :
                 load' = [load EXCEPT ![t].pc = Store[i],
                              ![t].pointer = "function", ![t].success = @ /\ told]
          /\ UNCHANGED hooks
    /\ UNCHANGED <<others, shared, lock, refs, attached, mutex, lyric, old>>

\* "*(DWORD*)oldFuncAddr = (DWORD)dstFunc", after the commit.
AsDword(pointer) == IF bits = 64 THEN "truncated" ELSE pointer
AfterInit(t) == IF load[t].success THEN "pin" ELSE "unmap"
StoreOld(t, i) ==
    /\ At(t, Store[i])
    /\ old' = [old EXCEPT ![load[t].dll][i] = AsDword(load[t].pointer)]
    /\ Go(t, IF i = 1 THEN "hook2" ELSE AfterInit(t))
    /\ UNCHANGED <<others, shared, lock, refs, attached, mutex, lyric, hooks>>

\* "this prevents the library from being automatically unloaded"
WithoutPin(n) == n      \* a mutant of the next
Pinned(n) == n + 1
PinLibrary(t) ==
    /\ At(t, "pin")
    /\ refs' = [refs EXCEPT ![load[t].dll] = Pinned(@)]
    /\ Go(t, "thread")
    /\ UNCHANGED <<others, shared, lock, attached, mutex, lyric, old, hooks>>

StartWorkThread(t) ==
    /\ At(t, "thread")
    /\ \/ /\ attached' = [attached EXCEPT ![load[t].dll] = TRUE]
          /\ Go(t, "loaded") /\ lock' = Nobody
       \/ Go(t, "unmap") /\ UNCHANGED <<attached, lock>>
    /\ UNCHANGED <<others, shared, refs, mutex, lyric, old, hooks>>

-----------------------------------------------------------------------------
(* DLL_PROCESS_DETACH, when DllMain has returned FALSE or the count is 0.  *)

FreeLibrary(t, d) ==
    /\ alive /\ lock = Nobody
    /\ refs' = [refs EXCEPT ![d] = @ - 1]
    /\ IF refs[d] > 1 THEN load' = [load EXCEPT ![t] = Nothing] /\ UNCHANGED lock
       ELSE /\ lock' = t
            /\ load' = [load EXCEPT ![t] = [Nothing EXCEPT !.pc = "unmap", !.dll = d]]
    /\ UNCHANGED <<others, shared, attached, mutex, lyric, old, hooks>>

\* HookUninit: the view goes before the hooks.
UnmapView(t) ==
    /\ At(t, "unmap")
    /\ section' = Leave({load[t].dll})
    /\ last' = IF section.holders \subseteq {load[t].dll} THEN 0 ELSE last
    /\ Go(t, "unhook1")
    /\ UNCHANGED <<others, lock, refs, attached, mutex, lyric, old, hooks>>

\* UnHookFunc removes a live hook, refuses another address, and reads through
\* one that is none.
Unhook == <<"unhook1", "unhook2">>
LeftHooked(i, d) == hooks           \* a mutant of the next
Removed(i, d) == [hooks EXCEPT ![i] = @ \ {d}]
Unhooked(i, d) == Removed(i, d)
UnHookFunc(t, i) ==
    /\ At(t, Unhook[i])
    /\ LET d == load[t].dll
       IN  \/ /\ old[d][i] = "truncated" /\ Dies("unhook")
           \/ /\ old[d][i] # "truncated"
              /\ hooks' = IF old[d][i] = "trampoline" THEN Unhooked(i, d) ELSE hooks
              /\ Go(t, IF i = 1 THEN "unhook2" ELSE "reset")
              /\ UNCHANGED <<others, shared, lock, refs, attached, mutex, lyric, old>>

ResetHookLyric(t) ==
    /\ At(t, "reset")
    /\ lyric' = [lyric EXCEPT ![load[t].dll] = FALSE]
    /\ old' = [old EXCEPT ![load[t].dll] = [i \in Functions |-> "null"]]
    /\ mutex' = [mutex EXCEPT ![load[t].dll] = FALSE]
    /\ Go(t, "unload")
    /\ UNCHANGED <<others, shared, lock, refs, attached, hooks>>

Unload(t) ==
    /\ At(t, "unload")
    /\ refs' = [refs EXCEPT ![load[t].dll] = 0]
    /\ attached' = [attached EXCEPT ![load[t].dll] = FALSE]
    /\ lock' = Nobody
    /\ Go(t, IF t = Ui THEN "none" ELSE "failed")
    /\ UNCHANGED <<others, shared, mutex, lyric, old, hooks>>

LoaderStep(t) ==
    \/ ReadPath(t) \/ LoadLibrary(t) \/ IsInjected(t) \/ OpenFileMapping(t)
    \/ PinLibrary(t) \/ StartWorkThread(t)
    \/ UnmapView(t) \/ ResetHookLyric(t) \/ Unload(t)
    \/ \E i \in Functions : HookFuncByName(t, i) \/ StoreOld(t, i) \/ UnHookFunc(t, i)

-----------------------------------------------------------------------------
(* The painting thread.                                                    *)

unpainted == <<viewer, bits, lock, refs, attached, mutex, lyric, old, hooks, load>>
survives == <<alive, fault>>
In(place) == alive /\ painter.pc = place /\ refs[painter.dll] > 0
Paints(place) == painter' = [painter EXCEPT !.pc = place]
Returns == painter' = [painter EXCEPT !.pc = "idle", !.dll = Nobody]

UpdateLayeredWindow(i) ==
    /\ alive /\ painter.pc = "idle" /\ load[Ui].pc = "none"
    /\ frame < MaxFrames /\ frame' = frame + 1
    /\ IF hooks[i] = {} THEN UNCHANGED painter
       ELSE \E d \in hooks[i] : painter' = [pc |-> "detour", dll |-> d, fn |-> i]
    /\ UNCHANGED <<unpainted, survives, shared>>

\* "if (hook_lyric)": without one, the function is called by its name, which
\* leads here again while the hook is in place.
HookUpdateLayeredWindow ==
    /\ In("detour")
    /\ IF lyric[painter.dll] THEN Paints("capture") ELSE Returns
    /\ lyric[painter.dll] \/ painter.dll \notin hooks[painter.fn]
    /\ UNCHANGED <<unpainted, survives, frame, shared>>

\* GetDIBits fails where there is no memory, or for other reasons.
Mapped == painter.dll \in section.holders
CapturePixels ==
    /\ In("capture")
    /\ \/ /\ Mapped /\ section' = [section EXCEPT !.pixels = frame]
          /\ Paints("header")
       \/ Paints("call") /\ UNCHANGED section
    /\ UNCHANGED <<unpainted, survives, frame, last>>
CaptureHeader ==
    /\ In("header") /\ Mapped
    /\ section' = [section EXCEPT !.header = frame]
    /\ last' = frame
    /\ Paints("call")
    /\ UNCHANGED <<unpainted, survives, frame>>

CallOld ==
    /\ In("call")
    /\ lyric[painter.dll] /\ old[painter.dll][painter.fn] = "trampoline"
    /\ Returns
    /\ UNCHANGED <<unpainted, survives, frame, shared>>

\* No code, no memory, no address, no end of the calls.
PainterFaults ==
    /\ alive /\ painter.pc # "idle"
    /\ \/ refs[painter.dll] = 0 /\ Dies("unloaded")
       \/ In("detour") /\ ~lyric[painter.dll] /\ painter.dll \in hooks[painter.fn]
             /\ Dies("recursion")
       \/ In("header") /\ ~Mapped /\ Dies("unmapped")
       \/ In("call") /\ (~lyric[painter.dll] \/ old[painter.dll][painter.fn] # "trampoline")
             /\ Dies("null")

DetourStep ==
    \/ HookUpdateLayeredWindow \/ CapturePixels \/ CaptureHeader \/ CallOld
    \/ PainterFaults
=================================================================================
