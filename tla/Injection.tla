------------------------------- MODULE Injection -------------------------------
(***************************************************************************)
(* InjectTarget and its helper processes against the process of HookDll    *)
(* and the viewer of LyricShare.  A helper either creates a thread that    *)
(* loads the DLL and waits four seconds for it, or sets a window hook      *)
(* that makes the painting thread load it.  (utils/hook.cpp, proc.cpp and  *)
(* system.cpp; inject_helper.c and inject_library.c)                       *)
(***************************************************************************)
EXTENDS HookDll

CONSTANTS
    Systems,    \* the bitness of the system
    Callers     \* and of the program that calls InjectTarget

VARIABLES
    env,        \* the bitness of the system, and of who calls InjectTarget
    helper,     \* the helper processes, one for each thread of Remote
    winHooks,   \* the helpers whose window hook is set
    brought     \* those for which user32 holds the DLL in the process

vars == <<shareVars, dllVars, env, helper, winHooks, brought>>
injectVars == <<env, helper, winHooks, brought>>

INJECT_FAILED == -1
OPEN_PROCESS_FAIL == -3
UNLIKELY_FAIL == -4
LastError == 5          \* what GetLastError returns of SetWindowsHookEx
NoRet == 1000

Init ==
    /\ DllInit
    /\ bits \in {32, 64}
    /\ env \in [system : Systems, caller : Callers]
    /\ bits <= env.system /\ env.caller <= env.system
    /\ helper = [h \in Remote |-> [pc |-> "none", safe |-> FALSE, dll |-> Nobody,
                                   bits |-> 0, ret |-> NoRet]]
    /\ winHooks = {} /\ brought = {}

-----------------------------------------------------------------------------
(* The caller.                                                             *)

\* A 64-bit build answers TRUE, a 32-bit one what it finds of itself.
IsWow64(process) == process = 32 /\ env.system = 64
IsSystem64Bit == env.caller = 64 \/ ~IsWow64(env.caller)

\* The first of the tuple, which is all that is looked at.
IsProcess64Bit(opened) == opened /\ IsSystem64Bit /\ ~IsWow64(bits)

\* The helper's build and the DLL's are chosen alike; a 64-bit file does not
\* start on a 32-bit system.
InjectTarget(h) ==
    /\ helper[h].pc = "none"
    /\ \E safe \in BOOLEAN, d \in Dlls, opened \in BOOLEAN :
           LET build == IF IsProcess64Bit(opened) THEN 64 ELSE 32
           IN  helper' = [helper EXCEPT ![h] =
                   [pc |-> IF build <= env.system THEN "started" ELSE "refused",
                    safe |-> safe, dll |-> d, bits |-> build, ret |-> NoRet]]
    /\ UNCHANGED <<shareVars, dllVars, env, winHooks, brought>>

-----------------------------------------------------------------------------
(* inject_library_full.                                                    *)

AtHelper(h, place) == helper[h].pc = place
Exits(h, code) == helper' = [helper EXCEPT ![h].pc = "exited", ![h].ret = code]

OpenProcessFails(h) ==
    /\ AtHelper(h, "started") /\ ~helper[h].safe
    /\ Exits(h, OPEN_PROCESS_FAIL)
    /\ UNCHANGED <<shareVars, dllVars, env, winHooks, brought>>

\* No memory, no path in it, or no thread; there never is one in a process of
\* the other bitness.
InjectFails(h) ==
    /\ AtHelper(h, "started") /\ ~helper[h].safe
    /\ Exits(h, UNLIKELY_FAIL)
    /\ UNCHANGED <<shareVars, dllVars, env, winHooks, brought>>
CreateRemoteThread(h) ==
    /\ AtHelper(h, "started") /\ ~helper[h].safe
    /\ alive /\ helper[h].bits = bits
    /\ helper' = [helper EXCEPT ![h].pc = "waiting"]
    /\ load' = [load EXCEPT ![h] = [Nothing EXCEPT !.pc = "read", !.dll = helper[h].dll]]
    /\ UNCHANGED <<shareVars, bits, alive, fault, lock, refs, attached, mutex, lyric,
                   old, hooks, painter, frame, last, env, winHooks, brought>>

\* The exit code is the lower half of the handle, which may be 0 in 64 bits, or
\* that of the process when it ended.
ExitCodes(h) == IF ~alive THEN {0, 1}
                ELSE IF load[h].pc = "failed" THEN {0}
                ELSE IF bits = 64 THEN {0, 1} ELSE {1}
AnyEnd(code) == 0       \* a mutant of the next
LoadedOrNot(code) == IF code # 0 THEN 0 ELSE INJECT_FAILED
Ret(code) == LoadedOrNot(code)
ThreadEnds(h) ==
    /\ AtHelper(h, "waiting")
    /\ ~alive \/ load[h].pc \in {"loaded", "failed"}
    /\ \E code \in ExitCodes(h) : Exits(h, Ret(code))
    /\ UNCHANGED <<shareVars, dllVars, env, winHooks, brought>>

\* The thread needs the path no more: four seconds are enough to read it.
Infinite == FALSE       \* a mutant of the next
Limited == TRUE
WaitTimesOut(h) ==
    /\ AtHelper(h, "waiting") /\ Limited
    /\ alive /\ load[h].pc \notin {"read", "loaded", "failed"}
    /\ Exits(h, UNLIKELY_FAIL)
    /\ UNCHANGED <<shareVars, dllVars, env, winHooks, brought>>

-----------------------------------------------------------------------------
(* inject_library_safe_obf.                                                *)

\* In the helper itself DllMain sees an inject_helper and does nothing.
NoLibrary(h) ==
    /\ AtHelper(h, "started") /\ helper[h].safe
    /\ \E code \in {UNLIKELY_FAIL, LastError} : Exits(h, code)
    /\ UNCHANGED <<shareVars, dllVars, env, winHooks, brought>>
SetWindowsHookEx(h) ==
    /\ AtHelper(h, "started") /\ helper[h].safe /\ alive
    /\ winHooks' = winHooks \cup {h}
    /\ helper' = [helper EXCEPT ![h].pc = "poking"]
    /\ UNCHANGED <<shareVars, dllVars, env, brought>>

\* Eight messages later it returns 0, and its window hook goes with it.
PokesEnd(h) ==
    /\ AtHelper(h, "poking")
    /\ Exits(h, 0)
    /\ winHooks' = winHooks \ {h}
    /\ UNCHANGED <<shareVars, dllVars, env, brought>>

-----------------------------------------------------------------------------
(* user32 in the process: it loads the DLL of a window hook on a message,  *)
(* and frees it after the hook is gone.                                    *)

UiFree == alive /\ load[Ui].pc = "none" /\ painter.pc = "idle"
HookLoads(h) ==
    /\ UiFree
    /\ h \in winHooks \ brought /\ helper[h].bits = bits
    /\ load' = [load EXCEPT ![Ui] =
                   [Nothing EXCEPT !.pc = "want", !.dll = helper[h].dll, !.by = h]]
    /\ UNCHANGED <<shareVars, bits, alive, fault, lock, refs, attached, mutex, lyric,
                   old, hooks, painter, frame, last, injectVars>>
HookLoaded ==
    /\ At(Ui, "loaded")
    /\ brought' = brought \cup {load[Ui].by}
    /\ load' = [load EXCEPT ![Ui] = Nothing]
    /\ UNCHANGED <<shareVars, bits, alive, fault, lock, refs, attached, mutex, lyric,
                   old, hooks, painter, frame, last, env, helper, winHooks>>
HookFrees(h) ==
    /\ UiFree
    /\ h \in brought \ winHooks
    /\ FreeLibrary(Ui, helper[h].dll)
    /\ brought' = brought \ {h}
    /\ UNCHANGED <<env, helper, winHooks>>

-----------------------------------------------------------------------------
HelperStep(h) ==
    \/ OpenProcessFails(h) \/ InjectFails(h) \/ CreateRemoteThread(h)
    \/ ThreadEnds(h) \/ WaitTimesOut(h)
    \/ NoLibrary(h) \/ SetWindowsHookEx(h) \/ PokesEnd(h)

\* The frame in the memory is lost with it.
ViewerStep ==
    /\ ViewerNext
    /\ last' = IF section'.holders = {} THEN 0 ELSE last
    /\ UNCHANGED <<bits, alive, fault, lock, refs, attached, mutex, lyric, old, hooks,
                   load, painter, frame, injectVars>>
PainterStep == DetourStep /\ UNCHANGED injectVars
Loads(t) == LoaderStep(t) /\ UNCHANGED injectVars

Next ==
    \/ \E h \in Remote : InjectTarget(h) \/ HelperStep(h) \/ HookLoads(h) \/ HookFrees(h)
    \/ HookLoaded
    \/ \E t \in Threads : Loads(t)
    \/ \E i \in Functions : UpdateLayeredWindow(i) /\ UNCHANGED injectVars
    \/ PainterStep \/ ViewerStep
    \/ Ends /\ UNCHANGED injectVars

\* The scheduler runs every thread, the timer rings while the viewer is open,
\* and a wait of four seconds comes to its end.  Nobody has to start anything.
Fairness ==
    /\ \A h \in Remote : WF_vars(HelperStep(h)) /\ WF_vars(ReadPath(h) /\ UNCHANGED injectVars)
    /\ WF_vars(PainterStep)
    /\ WF_vars((WmTimer \/ WmPaint) /\ ViewerStep)

Spec == Init /\ [][Next]_vars /\ Fairness

-----------------------------------------------------------------------------
(* Properties.                                                             *)

\* The pointer to call for the original is there; in 32 bits it is a trampoline
\* exactly where the detour is in place, else the function's own address.
KnowsHook(d, i) ==
    /\ old[d][i] # "null"
    /\ bits = 32 => (d \in hooks[i] <=> old[d][i] = "trampoline")

\* A helper that waited for its thread and returned 0 has the DLL attached in the
\* process, with its hook_lyric, or there is no process any more.  It does not
\* say that the hooks are made: HookFuncByName returns TRUE when DetourAttach
\* fails, and then DllMain does too.  But the copy knows in 32 bits which of its
\* hooks are made, both, one or none, so that its calls and UnHookFunc are right.
ReportsTruth ==
    \A h \in Remote :
        ~helper[h].safe /\ helper[h].ret = 0 =>
            \/ ~alive
            \/ LET d == helper[h].dll
               IN  attached[d] /\ lyric[d] /\ \A i \in Functions : KnowsHook(d, i)

\* However many helpers bring however many copies, one copy has its detours in
\* place, and it is in memory as long as it has.
HookedOnce ==
    alive => /\ Cardinality(UNION {hooks[i] : i \in Functions}) <= 1
             /\ \A i \in Functions : \A d \in hooks[i] : refs[d] > 0

\* Once its DllMain has returned TRUE nothing that helpers and window hooks do
\* takes the DLL out of the process again.
HookedStaysLoaded == [][\A d \in Dlls : attached[d] => attached'[d]]_vars

\* Where window hooks alone bring the DLL, all of its DllMain runs on the thread
\* that paints: a 32-bit process never paints through half of a hook.
SafeInjectionIsSafe ==
    bits = 32 /\ (\A h \in Remote : helper[h].pc # "none" => helper[h].safe) =>
        fault = "none"

\* Every helper comes to its end, whatever the process does.
HelperAnswers ==
    \A h \in Remote : helper[h].pc = "started" ~> helper[h].pc = "exited"

\* A frame that was captured and remains the last is shown whole by a viewer
\* that stays open, started again or not.
LatestFrameShown ==
    \A n \in 1 .. MaxFrames :
        <>[](viewer.pc # "closed" /\ alive /\ painter.pc = "idle" /\ last = n
               /\ section.pixels = n)
            => <>[](viewer.shown = [header |-> n, pixels |-> n])

\* The first value that IsProcess64Bit returns tells whether the process is one
\* of 64 bits, as the comment at proc.h:12 says of it.
BitnessIsRight == IsProcess64Bit(TRUE) = (bits = 64)
================================================================================
