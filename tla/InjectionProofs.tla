---------------------------- MODULE InjectionProofs ----------------------------
(***************************************************************************)
(* What holds of a process that hook DLLs are injected into, for any       *)
(* number of helpers and copies of the DLL.                                *)
(***************************************************************************)
EXTENDS Injection, FiniteSetTheorems, TLAPS

\* Where a thread holds the loader's lock.
Starting == {"isInjected", "map", "hook1", "store1", "hook2", "store2", "pin", "thread"}
Stopping == {"unmap", "unhook1", "unhook2", "reset", "unload"}
InLoader == Starting \cup Stopping

LoadPlaces == InLoader \cup {"none", "read", "want", "loaded", "failed"}
LoadType ==
    [pc : LoadPlaces, dll : Dlls \cup {Nobody}, by : Remote \cup {Nobody},
     success : BOOLEAN, pointer : {"null", "trampoline", "function"}]
HelperType ==
    [pc : {"none", "refused", "started", "waiting", "poking", "exited"},
     safe : BOOLEAN, dll : Dlls \cup {Nobody}, bits : {0, 32, 64}, ret : Int]
FrameType == [header : Nat, pixels : Nat]

ShareTypeOK ==
    /\ section \in [holders : SUBSET (Dlls \cup {TheViewer}), header : Nat, pixels : Nat]
    /\ viewer \in [pc : {"closed", "idle", "painting"}, header : Nat,
                   shown : FrameType, starts : Nat]

DllTypeOK ==
    /\ bits \in {32, 64}
    /\ alive \in BOOLEAN
    /\ fault \in {"none", "unhook", "unloaded", "recursion", "unmapped", "null"}
    /\ lock \in Threads \cup {Nobody}
    /\ refs \in [Dlls -> Nat]
    /\ attached \in [Dlls -> BOOLEAN]
    /\ mutex \in [Dlls -> BOOLEAN]
    /\ lyric \in [Dlls -> BOOLEAN]
    /\ old \in [Dlls -> [Functions -> {"null", "trampoline", "function", "truncated"}]]
    /\ hooks \in [Functions -> SUBSET Dlls]
    /\ load \in [Threads -> LoadType]
    /\ painter \in [pc : {"idle", "detour", "capture", "header", "call"},
                    dll : Dlls \cup {Nobody}, fn : Functions]
    /\ frame \in Nat /\ last \in Nat

HelperTypeOK ==
    /\ helper \in [Remote -> HelperType]
    /\ winHooks \subseteq Remote /\ brought \subseteq Remote

TypeOK == ShareTypeOK /\ DllTypeOK /\ HelperTypeOK

-----------------------------------------------------------------------------
(* Who does what for the loader.                                           *)

\* The lock is held where the loader works, by one thread.
LockInv == \A t \in Threads : load[t].pc \in InLoader <=> lock = t

\* A remote thread works for the helper that created it, and painting thread
\* for a window hook that has not brought the DLL yet.
ThreadInv ==
    /\ \A h \in Remote :
        /\ helper[h].pc # "none" => helper[h].dll \in Dlls
        /\ helper[h].pc \in {"none", "refused", "started"} => load[h].pc = "none"
        /\ load[h].pc # "none" => load[h].dll = helper[h].dll /\ ~helper[h].safe
        /\ h \in winHooks \cup brought => helper[h].pc \in {"poking", "exited"}
        /\ helper[h].pc = "waiting" => ~helper[h].safe
        /\ helper[h].pc = "poking" => helper[h].safe
    /\ load[Ui].pc # "none" =>
        /\ load[Ui].by \in Remote \ brought
        /\ helper[load[Ui].by].pc \in {"poking", "exited"}
        /\ load[Ui].dll = helper[load[Ui].by].dll

\* The copy whose DllMain runs.
Loading(d) == \E t \in Threads : lock = t /\ load[t].dll = d

\* How often user32 holds a copy.
Bringers(d) == {h \in brought : helper[h].dll = d}
Arriving(d) == IF load[Ui].pc = "loaded" /\ load[Ui].dll = d THEN 1 ELSE 0

\* A copy is in memory because its DllMain runs or has succeeded, and then it
\* is pinned once more than user32 holds it.
CountInv ==
    /\ \A d \in Dlls : refs[d] > 0 => attached[d] \/ Loading(d)
    /\ \A d \in Dlls : attached[d] =>
           refs[d] >= 1 + Cardinality(Bringers(d)) + Arriving(d)
    /\ \A t \in Threads : load[t].pc = "loaded" => attached[load[t].dll]
    /\ \A h \in brought : attached[helper[h].dll]

\* What has a mutex_handle, a hook_lyric and a detour.
MutexInv ==
    /\ \A d, e \in Dlls : mutex[d] /\ mutex[e] => d = e
    /\ \A d \in Dlls : mutex[d] => attached[d] \/ Loading(d)
    /\ \A d \in Dlls : attached[d] => mutex[d] /\ lyric[d] /\ ~Loading(d)
    /\ \A i \in Functions : \A d \in hooks[i] : mutex[d]

\* A detour in place has its trampoline stored, or it is about to be.
Storing(t, d, i) == /\ load[t].dll = d
                    /\ load[t].pc = Store[i] /\ load[t].pointer = "trampoline"
OldInv ==
    /\ \A d \in Dlls, i \in Functions : old[d][i] = "truncated" => bits = 64
    /\ \A i \in Functions : \A d \in hooks[i] :
           \/ old[d][i] = AsDword("trampoline")
           \/ \E t \in Threads : lock = t /\ Storing(t, d, i)

\* What DllMain has done and not undone when it is at a place.
PlaceOK(t) ==
    LET d == load[t].dll
        place == load[t].pc
    IN  /\ refs[d] >= 1
        /\ place = "thread" => refs[d] >= 2
        /\ mutex[d] <=> place \notin {"isInjected", "unload"}
        /\ place \notin {"isInjected", "unload", "map"} => lyric[d]
        /\ place \in {"map", "hook1", "unhook2", "reset"} => d \notin hooks[1]
        /\ place \in {"map", "hook1", "store1", "hook2", "reset"} => d \notin hooks[2]
        /\ \A i \in Functions :
               place = Store[i] /\ load[t].pointer # "trampoline" => d \notin hooks[i]
PlaceInv == \A t \in Threads : lock = t => PlaceOK(t)

\* What a helper reported was true, and remains it.
ReportInv ==
    \A h \in Remote : ~helper[h].safe /\ helper[h].ret = 0 =>
        helper[h].pc = "exited" /\ (alive => attached[helper[h].dll])

\* The painting thread of a 32-bit process where window hooks alone bring the
\* DLL is in a detour only of a copy that is complete.
OnlySafe == bits = 32 /\ \A h \in Remote : helper[h].pc # "none" => helper[h].safe
PainterInv ==
    OnlySafe =>
        /\ fault = "none"
        /\ alive /\ painter.pc # "idle" =>
              /\ load[Ui].pc = "none"
              /\ painter.dll \in hooks[painter.fn]
              /\ painter.pc = "header" => painter.dll \in section.holders

InjectInv ==
    /\ TypeOK /\ LockInv /\ ThreadInv
    /\ CountInv /\ MutexInv /\ OldInv /\ PlaceInv
    /\ ReportInv /\ PainterInv

-----------------------------------------------------------------------------
(* The initial states, and what the threads of the loader have in common.  *)

LEMMA Names ==
    /\ Ui \in Threads /\ Remote \subseteq Threads /\ Nobody \notin Threads
    /\ Ui \notin Remote /\ Nobody \notin Dlls
BY UiAssumption, NobodyAssumption DEF Threads

LEMMA InitInject == Init => InjectInv
<1> SUFFICES ASSUME Init PROVE InjectInv
    OBVIOUS
<1> USE Names DEF Init, DllInit, ShareInit, EmptySection
<1>1. Nothing \in LoadType /\ Nothing.pc = "none"
  BY DEF Nothing, LoadType, LoadPlaces
<1>2. \A t \in Threads : load[t] = Nothing
  OBVIOUS
<1>3. TypeOK
  <2>1. ShareTypeOK
    BY DEF ShareTypeOK, FrameType
  <2>2. DllTypeOK
    BY <1>1 DEF DllTypeOK, Functions
  <2>3. HelperTypeOK
    BY DEF HelperTypeOK, HelperType, NoRet
  <2> QED
    BY <2>1, <2>2, <2>3 DEF TypeOK
<1>4. LockInv /\ ThreadInv
  BY <1>1, <1>2 DEF LockInv, ThreadInv, InLoader, Starting, Stopping
<1>5. CountInv /\ MutexInv
  BY <1>1, <1>2 DEF CountInv, MutexInv
<1>6. OldInv /\ PlaceInv
  BY DEF OldInv, PlaceInv
<1>7. ReportInv /\ PainterInv
  BY DEF ReportInv, PainterInv, NoRet
<1> QED
  BY <1>3, <1>4, <1>5, <1>6, <1>7 DEF InjectInv

\* The loader's part of the invariant, and what it is about.
LoaderInv == LockInv /\ CountInv /\ MutexInv /\ OldInv /\ PlaceInv
loaderVars == <<bits, lock, refs, attached, mutex, lyric, old, hooks, load>>

\* A helper that has begun keeps its DLL.
DllsKept == \A h \in Remote : helper[h].pc # "none" => helper'[h].dll = helper[h].dll

LEMMA BringersKept ==
    ASSUME InjectInv, DllsKept, UNCHANGED brought, NEW d PROVE Bringers(d)' = Bringers(d)
BY DEF InjectInv, ThreadInv, TypeOK, HelperTypeOK, DllsKept, Bringers

LEMMA LoaderQuiet ==
    ASSUME InjectInv, DllsKept, UNCHANGED <<loaderVars, brought>> PROVE LoaderInv'
<1> USE DEF loaderVars
<1>1. LockInv' /\ PlaceInv' /\ OldInv'
  BY DEF InjectInv, LockInv, PlaceInv, PlaceOK, OldInv, Storing, AsDword
<1>2. \A d : Loading(d)' <=> Loading(d)
  BY DEF Loading
<1>3. MutexInv'
  BY <1>2 DEF InjectInv, MutexInv
<1>4. CountInv'
  <2>1. \A d : Bringers(d)' = Bringers(d)
    BY BringersKept
  <2>2. \A d : Arriving(d)' = Arriving(d)
    BY DEF Arriving
  <2>3. \A h \in brought : helper'[h].dll = helper[h].dll
    BY DEF InjectInv, ThreadInv, TypeOK, HelperTypeOK, DllsKept
  <2> QED
    BY <1>2, <2>1, <2>2, <2>3 DEF InjectInv, CountInv
<1> QED
  BY <1>1, <1>3, <1>4 DEF LoaderInv

\* Where window hooks alone bring the DLL nobody holds the lock while the
\* painting thread paints, and every copy that is hooked is complete.
LEMMA PaintsWhole ==
    ASSUME InjectInv, OnlySafe, load[Ui].pc = "none", NEW i \in Functions, NEW d \in hooks[i]
    PROVE  /\ attached[d] /\ lyric[d] /\ refs[d] > 0 /\ old[d][i] = "trampoline"
           /\ \A h \in Remote : load[h].pc = "none"
           /\ lock = Nobody
<1> USE Names DEF InjectInv
<1>1. \A h \in Remote : load[h].pc = "none"
  BY DEF OnlySafe, ThreadInv
<1>2. \A t \in Threads : lock # t
  BY <1>1 DEF LockInv, Threads, InLoader, Starting, Stopping
<1>3. lock = Nobody
  BY <1>2 DEF TypeOK, DllTypeOK
<1>4. d \in Dlls /\ mutex[d] /\ ~Loading(d)
  BY <1>2 DEF TypeOK, DllTypeOK, MutexInv, Loading
<1>5. attached[d] /\ lyric[d]
  BY <1>4 DEF MutexInv
<1>6. refs[d] > 0
  <2>1. IsFiniteSet(Bringers(d))
    BY RemoteAssumption, FS_Subset DEF TypeOK, HelperTypeOK, Bringers
  <2>2. Cardinality(Bringers(d)) \in Nat
    BY <2>1, FS_CardinalityType
  <2> QED
    BY <1>4, <1>5, <2>2 DEF CountInv, Arriving, TypeOK, DllTypeOK
<1>7. old[d][i] = "trampoline"
  BY <1>2 DEF OldInv, AsDword, OnlySafe
<1> QED
  BY <1>1, <1>3, <1>5, <1>6, <1>7

-----------------------------------------------------------------------------
(* The caller and the helpers.                                             *)

\* A step of a helper that creates no thread.
Asks(h) ==
    \/ InjectTarget(h) \/ OpenProcessFails(h) \/ InjectFails(h) \/ ThreadEnds(h)
    \/ WaitTimesOut(h) \/ NoLibrary(h) \/ SetWindowsHookEx(h) \/ PokesEnd(h)

\* A helper comes to another place.
LEMMA HelperGoes ==
    ASSUME helper \in [Remote -> HelperType], NEW h \in Remote,
           NEW place \in {"waiting", "poking", "exited"}, NEW code \in Int,
           \/ helper' = [helper EXCEPT ![h].pc = place]
           \/ helper' = [helper EXCEPT ![h].pc = place, ![h].ret = code]
    PROVE  /\ helper' \in [Remote -> HelperType]
           /\ helper'[h].pc = place
           /\ helper'[h].safe = helper[h].safe /\ helper'[h].dll = helper[h].dll
           /\ helper'[h].bits = helper[h].bits
           /\ \A g \in Remote : g # h => helper'[g] = helper[g]
BY DEF HelperType

\* The steps of a helper, each by what it does to the helper's record.
LEMMA AsksHow ==
    ASSUME NEW h \in Remote, Asks(h), helper[h].pc # "none"
    PROVE  /\ helper[h].pc \in {"started", "waiting", "poking"}
           /\ \/ \E code \in Int : Exits(h, code)
              \/ helper[h].safe /\ helper' = [helper EXCEPT ![h].pc = "poking"]
           /\ helper[h].pc = "poking" => h \notin winHooks' /\ \E code \in Int : Exits(h, code)
           /\ h \in winHooks' \ winHooks => helper' = [helper EXCEPT ![h].pc = "poking"]
           /\ winHooks' \subseteq winHooks \cup {h}
           /\ UNCHANGED <<shareVars, dllVars, env, brought>>
<1> USE DEF AtHelper
<1>1. CASE OpenProcessFails(h)
  BY <1>1 DEF OpenProcessFails, OPEN_PROCESS_FAIL
<1>2. CASE InjectFails(h)
  BY <1>2 DEF InjectFails, UNLIKELY_FAIL
<1>3. CASE ThreadEnds(h)
  <2>1. \A code \in ExitCodes(h) : Ret(code) \in Int
    BY DEF ExitCodes, Ret, LoadedOrNot, INJECT_FAILED
  <2> QED
    BY <1>3, <2>1 DEF ThreadEnds
<1>4. CASE WaitTimesOut(h)
  BY <1>4 DEF WaitTimesOut, UNLIKELY_FAIL
<1>5. CASE NoLibrary(h)
  BY <1>5 DEF NoLibrary, UNLIKELY_FAIL, LastError
<1>6. CASE SetWindowsHookEx(h)
  BY <1>6 DEF SetWindowsHookEx
<1>7. CASE PokesEnd(h)
  BY <1>7 DEF PokesEnd
<1> QED
  BY <1>1, <1>2, <1>3, <1>4, <1>5, <1>6, <1>7 DEF Asks, InjectTarget

\* What the caller starts.
LEMMA CallerStarts ==
    ASSUME helper \in [Remote -> HelperType], NEW h \in Remote, InjectTarget(h)
    PROVE  /\ helper[h].pc = "none"
           /\ helper' \in [Remote -> HelperType]
           /\ helper'[h].pc \in {"started", "refused"} /\ helper'[h].dll \in Dlls
           /\ helper'[h].ret = NoRet
           /\ \A g \in Remote : g # h => helper'[g] = helper[g]
           /\ UNCHANGED <<shareVars, dllVars, env, winHooks, brought>>
<1>1. PICK safe \in BOOLEAN, d \in Dlls, opened \in BOOLEAN :
          helper' = [helper EXCEPT ![h] =
              [pc |-> IF (IF IsProcess64Bit(opened) THEN 64 ELSE 32) <= env.system
                      THEN "started" ELSE "refused",
               safe |-> safe, dll |-> d,
               bits |-> IF IsProcess64Bit(opened) THEN 64 ELSE 32, ret |-> NoRet]]
  BY DEF InjectTarget
<1> DEFINE build == IF IsProcess64Bit(opened) THEN 64 ELSE 32
           place == IF build <= env.system THEN "started" ELSE "refused"
<1>2. build \in {32, 64} /\ place \in {"started", "refused"}
  OBVIOUS
<1>3. helper' = [helper EXCEPT ![h] =
              [pc |-> place, safe |-> safe, dll |-> d, bits |-> build, ret |-> NoRet]]
  BY <1>1
<1> HIDE DEF build, place
<1> QED
  BY <1>2, <1>3 DEF InjectTarget, HelperType, NoRet

\* No step makes a helper that has begun safe, or a safe one unsafe: a step
\* that is not the painting thread's leaves it alone.
LEMMA PainterQuiet ==
    ASSUME PainterInv, UNCHANGED <<bits, fault, alive, painter, hooks>>,
           painter.pc # "idle" => UNCHANGED load,
           painter.dll \in section.holders => painter.dll \in section'.holders,
           \A h \in Remote : helper[h].pc # "none" =>
               helper'[h].pc # "none" /\ helper'[h].safe = helper[h].safe
    PROVE  PainterInv'
<1>1. OnlySafe' => OnlySafe
  BY DEF OnlySafe
<1> QED
  BY <1>1 DEF PainterInv

LEMMA CallerStep ==
    ASSUME InjectInv, NEW h \in Remote, InjectTarget(h) PROVE InjectInv'
<1> USE DEF InjectInv, TypeOK
<1>1. /\ helper[h].pc = "none"
      /\ helper' \in [Remote -> HelperType]
      /\ helper'[h].pc \in {"started", "refused"} /\ helper'[h].dll \in Dlls
      /\ helper'[h].ret = NoRet
      /\ \A g \in Remote : g # h => helper'[g] = helper[g]
      /\ UNCHANGED <<shareVars, dllVars, env, winHooks, brought>>
  BY CallerStarts DEF HelperTypeOK
<1>2. TypeOK'
  BY <1>1 DEF ShareTypeOK, DllTypeOK, HelperTypeOK, shareVars, dllVars
<1>3. LoaderInv'
  <2>1. DllsKept
    BY <1>1 DEF DllsKept
  <2> QED
    BY <1>1, <2>1, LoaderQuiet DEF dllVars, loaderVars
<1>4. ThreadInv'
  <2>1. UNCHANGED <<load, winHooks, brought>>
    BY <1>1 DEF dllVars
  <2>2. \A g \in winHooks \cup brought : g # h
    BY <1>1 DEF ThreadInv, HelperTypeOK
  <2>3. load[h].pc = "none"
    BY <1>1 DEF ThreadInv
  <2>4. load[Ui].pc # "none" => load[Ui].by # h
    BY <1>1 DEF ThreadInv
  <2> QED
    BY <1>1, <2>1, <2>2, <2>3, <2>4 DEF ThreadInv
<1>5. ReportInv'
  BY <1>1 DEF ReportInv, dllVars, NoRet
<1>6. PainterInv'
  BY <1>1, PainterQuiet DEF dllVars, shareVars
<1> QED
  BY <1>2, <1>3, <1>4, <1>5, <1>6 DEF LoaderInv

\* What a helper reports: it returns 0 without a window hook only when the
\* process has ended, or its thread has loaded the DLL.
LEMMA ReportedTrue ==
    ASSUME InjectInv, NEW h \in Remote, Asks(h), helper[h].pc # "none",
           ~helper[h].safe, helper'[h].ret = 0
    PROVE  helper'[h].pc = "exited" /\ (alive => attached[helper[h].dll])
<1> USE DEF AtHelper, Exits, InjectInv, TypeOK, HelperTypeOK, HelperType
<1>1. CASE OpenProcessFails(h)
  BY <1>1 DEF OpenProcessFails, OPEN_PROCESS_FAIL
<1>2. CASE InjectFails(h)
  BY <1>2 DEF InjectFails, UNLIKELY_FAIL
<1>3. CASE ThreadEnds(h)
  <2>1. PICK code \in ExitCodes(h) :
            helper' = [helper EXCEPT ![h].pc = "exited", ![h].ret = Ret(code)]
    BY <1>3 DEF ThreadEnds
  <2>2. Ret(code) = 0 /\ helper'[h].pc = "exited"
    BY <2>1
  <2>3. code # 0
    BY <2>2 DEF Ret, LoadedOrNot, INJECT_FAILED
  <2>4. alive => load[h].pc = "loaded"
    BY <1>3, <2>3 DEF ThreadEnds, ExitCodes
  <2>5. load[h].pc = "loaded" => attached[helper[h].dll]
    BY Names DEF CountInv, ThreadInv
  <2> QED
    BY <2>2, <2>4, <2>5
<1>4. CASE WaitTimesOut(h)
  BY <1>4 DEF WaitTimesOut, UNLIKELY_FAIL
<1>5. CASE NoLibrary(h) \/ SetWindowsHookEx(h)
  BY <1>5 DEF NoLibrary, SetWindowsHookEx
<1>6. CASE PokesEnd(h)
  BY <1>6 DEF PokesEnd, ThreadInv
<1> QED
  BY <1>1, <1>2, <1>3, <1>4, <1>5, <1>6 DEF Asks, InjectTarget

LEMMA AsksStep ==
    ASSUME InjectInv, NEW h \in Remote, Asks(h), helper[h].pc # "none" PROVE InjectInv'
<1> USE DEF InjectInv, TypeOK
<1>1. /\ helper[h].pc \in {"started", "waiting", "poking"}
      /\ UNCHANGED <<shareVars, dllVars, env, brought>>
      /\ winHooks' \subseteq winHooks \cup {h}
      /\ helper[h].pc = "poking" => h \notin winHooks'
  BY AsksHow
<1>2. PICK place \in {"poking", "exited"}, code \in Int :
          /\ \/ helper' = [helper EXCEPT ![h].pc = place]
             \/ helper' = [helper EXCEPT ![h].pc = place, ![h].ret = code]
          /\ helper[h].pc = "poking" => place = "exited"
          /\ h \in winHooks' \ winHooks => place = "poking"
          /\ place = "poking" => helper[h].safe
  <2>1. CASE helper[h].pc = "poking"
    BY <2>1, AsksHow DEF Exits
  <2>2. CASE helper[h].pc # "poking" /\ \E c \in Int : Exits(h, c)
    <3>1. PICK c \in Int : helper' = [helper EXCEPT ![h].pc = "exited", ![h].ret = c]
      BY <2>2 DEF Exits
    <3>2. helper[h].pc # "exited" /\ helper'[h].pc = "exited"
      BY <1>1, <3>1 DEF HelperTypeOK, HelperType
    <3>3. h \notin winHooks' \ winHooks
      BY <3>2, AsksHow DEF HelperTypeOK, HelperType
    <3> QED
      BY <2>2, <3>1, <3>3
  <2>3. CASE /\ helper' = [helper EXCEPT ![h].pc = "poking"]
             /\ helper[h].safe /\ helper[h].pc # "poking"
    BY <2>3, 0 \in Int
  <2> QED
    BY <2>1, <2>2, <2>3, AsksHow
<1>3. /\ helper' \in [Remote -> HelperType]
      /\ helper'[h].pc = place
      /\ helper'[h].safe = helper[h].safe /\ helper'[h].dll = helper[h].dll
      /\ \A g \in Remote : g # h => helper'[g] = helper[g]
  BY <1>2, HelperGoes DEF HelperTypeOK
<1>4. TypeOK'
  BY <1>1, <1>3 DEF ShareTypeOK, DllTypeOK, HelperTypeOK, shareVars, dllVars
<1>5. LoaderInv'
  <2>1. DllsKept
    BY <1>3 DEF DllsKept
  <2> QED
    BY <1>1, <2>1, LoaderQuiet DEF dllVars, loaderVars
<1>6. ThreadInv'
  <2>1. UNCHANGED <<load, brought>>
    BY <1>1 DEF dllVars
  <2>2. \A g \in Remote : helper'[g].safe = helper[g].safe /\ helper'[g].dll = helper[g].dll
    BY <1>3
  <2>3. \A g \in Remote : helper[g].pc = "none" <=> helper'[g].pc = "none"
    BY <1>1, <1>2, <1>3
  <2>4. \A g \in winHooks' \cup brought : g \in Remote /\ helper'[g].pc \in {"poking", "exited"}
    BY <1>1, <1>2, <1>3 DEF ThreadInv, HelperTypeOK
  <2>5. \A g \in Remote : helper[g].pc \in {"poking", "exited"} =>
                              helper'[g].pc \in {"poking", "exited"}
    BY <1>2, <1>3
  <2>6. \A g \in Remote : helper'[g].pc \in {"none", "refused", "started", "waiting"} =>
                              helper'[g].pc = helper[g].pc
    BY <1>2, <1>3
  <2>7. \A g \in Remote : helper'[g].pc = "poking" => helper'[g].safe
    BY <1>2, <1>3 DEF ThreadInv
  <2> QED
    BY <2>1, <2>2, <2>3, <2>4, <2>5, <2>6, <2>7 DEF ThreadInv
<1>7. ReportInv'
  <2>1. UNCHANGED <<alive, attached>>
    BY <1>1 DEF dllVars
  <2>2. ~helper'[h].safe /\ helper'[h].ret = 0 =>
            helper'[h].pc = "exited" /\ (alive => attached[helper'[h].dll])
    BY <1>3, ReportedTrue
  <2> QED
    BY <1>3, <2>1, <2>2 DEF ReportInv
<1>8. PainterInv'
  <2>1. \A g \in Remote : helper[g].pc # "none" =>
            helper'[g].pc # "none" /\ helper'[g].safe = helper[g].safe
    BY <1>2, <1>3
  <2> QED
    BY <1>1, <2>1, PainterQuiet DEF dllVars, shareVars
<1> QED
  BY <1>4, <1>5, <1>6, <1>7, <1>8 DEF LoaderInv

-----------------------------------------------------------------------------
(* The painting thread, the viewer, and the end of the process.            *)

\* Steps that are not the loader's leave what it keeps alone.
LEMMA NotLoader ==
    ASSUME InjectInv, UNCHANGED <<loaderVars, injectVars>>
    PROVE  LoaderInv' /\ ThreadInv' /\ HelperTypeOK'
<1>1. LoaderInv'
  <2>1. DllsKept
    BY DEF DllsKept, injectVars
  <2> QED
    BY <2>1, LoaderQuiet DEF injectVars
<1>2. ThreadInv' /\ HelperTypeOK'
  BY DEF InjectInv, TypeOK, HelperTypeOK, ThreadInv, loaderVars, injectVars
<1> QED
  BY <1>1, <1>2

SectionType == [holders : SUBSET (Dlls \cup {TheViewer}), header : Nat, pixels : Nat]

LEMMA LeaveType ==
    ASSUME section \in SectionType, NEW xs
    PROVE  /\ Leave(xs) \in SectionType
           /\ \A d \in section.holders \ xs : d \in Leave(xs).holders
BY DEF SectionType, Leave, EmptySection

LEMMA HoldType ==
    ASSUME section \in SectionType, NEW x \in Dlls \cup {TheViewer}
    PROVE  Hold(x) \in SectionType /\ section.holders \subseteq Hold(x).holders
BY DEF SectionType, Hold

LEMMA DiesStep ==
    ASSUME InjectInv, UNCHANGED injectVars,
           NEW why \in {"none", "unhook", "unloaded", "recursion", "unmapped", "null"},
           Dies(why), OnlySafe => why = "none"
    PROVE  InjectInv'
<1> USE DEF InjectInv, TypeOK, Dies
<1>1. LoaderInv' /\ ThreadInv' /\ HelperTypeOK'
  BY NotLoader DEF loaderVars
<1>2. ShareTypeOK' /\ DllTypeOK'
  <2>1. section' \in SectionType
    BY LeaveType DEF ShareTypeOK, SectionType
  <2> QED
    BY <2>1 DEF ShareTypeOK, DllTypeOK, SectionType
<1>3. ReportInv'
  BY DEF ReportInv, injectVars
<1>4. PainterInv'
  <2>1. OnlySafe' => OnlySafe
    BY DEF OnlySafe, injectVars
  <2> QED
    BY <2>1 DEF PainterInv
<1> QED
  BY <1>1, <1>2, <1>3, <1>4 DEF LoaderInv

\* A step of the painting thread or of the viewer.
LEMMA PaintsStep ==
    ASSUME InjectInv, UNCHANGED <<loaderVars, injectVars, alive, fault>>,
           ShareTypeOK',
           painter' \in [pc : {"idle", "detour", "capture", "header", "call"},
                         dll : Dlls \cup {Nobody}, fn : Functions],
           frame' \in Nat, last' \in Nat,
           OnlySafe /\ alive /\ painter'.pc # "idle" =>
               /\ load[Ui].pc = "none"
               /\ painter'.dll \in hooks[painter'.fn]
               /\ painter'.pc = "header" => painter'.dll \in section'.holders
    PROVE  InjectInv'
<1> USE DEF InjectInv, TypeOK
<1>1. LoaderInv' /\ ThreadInv' /\ HelperTypeOK'
  BY NotLoader
<1>2. DllTypeOK'
  BY DEF DllTypeOK, loaderVars
<1>3. ReportInv'
  BY DEF ReportInv, injectVars, loaderVars
<1>4. PainterInv'
  <2>1. OnlySafe' => OnlySafe
    BY DEF OnlySafe, injectVars, loaderVars
  <2> QED
    BY <2>1 DEF PainterInv, loaderVars
<1> QED
  BY <1>1, <1>2, <1>3, <1>4 DEF LoaderInv

PainterType ==
    [pc : {"idle", "detour", "capture", "header", "call"}, dll : Dlls \cup {Nobody},
     fn : Functions]

\* "painter" goes to a place, or back to the process.
LEMMA PainterGoes ==
    ASSUME painter \in PainterType,
           \/ \E place \in {"capture", "header", "call"} : Paints(place)
           \/ Returns
    PROVE  /\ painter' \in PainterType
           /\ painter'.pc # "idle" => painter'.dll = painter.dll /\ painter'.fn = painter.fn
BY DEF PainterType, Paints, Returns

LEMMA DetourStepInv ==
    ASSUME InjectInv, PainterStep PROVE InjectInv'
<1> USE DEF InjectInv, TypeOK
<1>1. painter \in PainterType /\ section \in SectionType /\ UNCHANGED injectVars
  BY DEF DllTypeOK, PainterType, ShareTypeOK, SectionType, PainterStep
<1>2. OnlySafe /\ alive /\ painter.pc # "idle" =>
          /\ load[Ui].pc = "none" /\ painter.fn \in Functions
          /\ painter.dll \in hooks[painter.fn]
          /\ painter.pc = "header" => painter.dll \in section.holders
  BY <1>1 DEF PainterInv, PainterType
<1>3. CASE HookUpdateLayeredWindow
  <2>1. UNCHANGED <<unpainted, survives, frame, shared>> /\ painter.pc # "idle" /\ alive
    BY <1>3 DEF HookUpdateLayeredWindow, In
  <2>2. Paints("capture") \/ Returns
    BY <1>3 DEF HookUpdateLayeredWindow
  <2>3. painter' \in PainterType /\ painter'.pc # "header"
        /\ (painter'.pc # "idle" => painter'.dll = painter.dll /\ painter'.fn = painter.fn)
    BY <1>1, <2>2, PainterGoes DEF Paints, Returns, PainterType
  <2> QED
    BY <1>1, <1>2, <2>1, <2>3, PaintsStep
    DEF unpainted, survives, shared, loaderVars, ShareTypeOK, PainterType, DllTypeOK
<1>4. CASE CapturePixels
  <2>1. UNCHANGED <<unpainted, survives, frame, last>> /\ painter.pc # "idle" /\ alive
    BY <1>4 DEF CapturePixels, In
  <2>2. \/ Mapped /\ section' = [section EXCEPT !.pixels = frame] /\ Paints("header")
        \/ Paints("call") /\ UNCHANGED section
    BY <1>4 DEF CapturePixels
  <2>3. painter' \in PainterType /\ painter'.dll = painter.dll /\ painter'.fn = painter.fn
    BY <1>1, <2>2 DEF Paints, PainterType
  <2>4. section' \in SectionType /\ section'.holders = section.holders
    BY <1>1, <2>2 DEF SectionType, DllTypeOK
  <2>5. painter'.pc = "header" => painter.dll \in section.holders
    BY <1>1, <2>2 DEF Paints, Mapped, PainterType
  <2> QED
    BY <1>1, <1>2, <2>1, <2>3, <2>4, <2>5, PaintsStep
    DEF unpainted, survives, loaderVars, ShareTypeOK, PainterType, DllTypeOK, SectionType
<1>5. CASE CaptureHeader
  <2>1. UNCHANGED <<unpainted, survives, frame>> /\ painter.pc # "idle" /\ alive
    BY <1>5 DEF CaptureHeader, In
  <2>2. section' = [section EXCEPT !.header = frame] /\ last' = frame /\ Paints("call")
    BY <1>5 DEF CaptureHeader
  <2>3. painter' \in PainterType /\ painter'.pc = "call"
        /\ painter'.dll = painter.dll /\ painter'.fn = painter.fn
    BY <1>1, <2>2 DEF Paints, PainterType
  <2>4. section' \in SectionType
    BY <1>1, <2>2 DEF SectionType, DllTypeOK
  <2> QED
    BY <1>1, <1>2, <2>1, <2>2, <2>3, <2>4, PaintsStep
    DEF unpainted, survives, loaderVars, ShareTypeOK, PainterType, DllTypeOK, SectionType
<1>6. CASE CallOld
  <2>1. UNCHANGED <<unpainted, survives, frame, shared>> /\ Returns
    BY <1>6 DEF CallOld
  <2>2. painter' \in PainterType /\ painter'.pc = "idle"
    BY <1>1, <2>1 DEF Returns, PainterType
  <2> QED
    BY <1>1, <2>1, <2>2, PaintsStep
    DEF unpainted, survives, shared, loaderVars, ShareTypeOK, PainterType, DllTypeOK
<1>7. CASE PainterFaults
  <2>1. ~OnlySafe
    <3> SUFFICES ASSUME OnlySafe PROVE FALSE
      OBVIOUS
    <3>1. alive /\ painter.pc # "idle"
      BY <1>7 DEF PainterFaults
    <3>2. /\ lyric[painter.dll] /\ refs[painter.dll] > 0
          /\ old[painter.dll][painter.fn] = "trampoline"
      BY <1>2, <3>1, PaintsWhole
    <3> QED
      BY <1>2, <1>7, <3>1, <3>2 DEF PainterFaults, Mapped, In
  <2>2. PICK why \in {"unloaded", "recursion", "unmapped", "null"} : Dies(why)
    BY <1>7 DEF PainterFaults
  <2> QED
    BY <1>1, <2>1, <2>2, DiesStep
<1> QED
  BY <1>3, <1>4, <1>5, <1>6, <1>7 DEF PainterStep, DetourStep

LEMMA UpdateStepInv ==
    ASSUME InjectInv, NEW i \in Functions, UpdateLayeredWindow(i), UNCHANGED injectVars
    PROVE  InjectInv'
<1> USE DEF InjectInv, TypeOK
<1>1. painter \in PainterType /\ hooks[i] \subseteq Dlls /\ frame \in Nat
  BY DEF DllTypeOK, PainterType
<1>2. /\ painter' \in PainterType /\ painter'.pc # "header"
      /\ painter'.pc # "idle" => painter'.dll \in hooks[painter'.fn]
  <2>1. CASE hooks[i] = {}
    BY <1>1, <2>1 DEF UpdateLayeredWindow
  <2>2. CASE hooks[i] # {}
    <3>1. PICK d \in hooks[i] : painter' = [pc |-> "detour", dll |-> d, fn |-> i]
      BY <2>2 DEF UpdateLayeredWindow
    <3> QED
      BY <1>1, <3>1 DEF PainterType
  <2> QED
    BY <2>1, <2>2
<1>3. /\ load[Ui].pc = "none" /\ frame' \in Nat
      /\ UNCHANGED <<unpainted, survives, shared>>
  BY <1>1 DEF UpdateLayeredWindow
<1> QED
  BY <1>2, <1>3, PaintsStep
  DEF unpainted, survives, shared, loaderVars, ShareTypeOK, PainterType, DllTypeOK

LEMMA ViewerStepInv ==
    ASSUME InjectInv, ViewerStep PROVE InjectInv'
<1> USE DEF InjectInv, TypeOK
<1>1. section \in SectionType
  BY DEF ShareTypeOK, SectionType
<1>2. ShareTypeOK' /\ \A d \in Dlls \cap section.holders : d \in section'.holders
  <2>1. CASE ViewerStarts
    <3>1. section' \in SectionType /\ section.holders \subseteq section'.holders
      BY <1>1, <2>1, HoldType DEF ViewerStarts
    <3>2. viewer' \in [pc : {"closed", "idle", "painting"}, header : Nat,
                       shown : FrameType, starts : Nat]
      <4> DEFINE nothing == [header |-> 0, pixels |-> 0]
      <4>1. nothing \in FrameType
        BY DEF FrameType
      <4>2. viewer.starts + 1 \in Nat
        BY DEF ShareTypeOK
      <4>3. viewer' = [viewer EXCEPT !.pc = "idle", !.starts = viewer.starts + 1,
                                     !.shown = nothing]
        BY <2>1 DEF ViewerStarts
      <4> HIDE DEF nothing
      <4> QED
        BY <4>1, <4>2, <4>3 DEF ShareTypeOK
    <3> QED
      BY <3>1, <3>2 DEF ShareTypeOK, SectionType
  <2>2. CASE WmTimer
    BY <1>1, <2>2 DEF WmTimer, ShareTypeOK, SectionType
  <2>3. CASE WmPaint
    BY <1>1, <2>3 DEF WmPaint, ShareTypeOK, SectionType, FrameType
  <2>4. CASE ViewerCloses
    <3>1. section' \in SectionType
          /\ \A d \in section.holders \ {TheViewer} : d \in section'.holders
      BY <1>1, <2>4, LeaveType DEF ViewerCloses
    <3> QED
      BY <2>4, <3>1, ViewerAssumption DEF ViewerCloses, ShareTypeOK, SectionType, FrameType
  <2> QED
    BY <2>1, <2>2, <2>3, <2>4 DEF ViewerStep, ViewerNext
<1>3. UNCHANGED <<loaderVars, injectVars, alive, fault, painter, frame>> /\ last' \in Nat
  BY DEF ViewerStep, loaderVars, DllTypeOK
<1>4. OnlySafe /\ alive /\ painter.pc # "idle" =>
          /\ load[Ui].pc = "none"
          /\ painter.dll \in hooks[painter.fn] /\ painter.dll \in Dlls
          /\ painter.pc = "header" => painter.dll \in section.holders
  BY DEF PainterInv, DllTypeOK
<1> QED
  BY <1>2, <1>3, <1>4, PaintsStep DEF DllTypeOK

-----------------------------------------------------------------------------
(* The loader's steps by the thread that holds the lock.                   *)

\* What the invariant says of it, and of the copy it works for.
LEMMA HolderFacts ==
    ASSUME InjectInv, NEW t \in Threads, lock = t
    PROVE  /\ load[t] \in LoadType /\ load[t].pc \in InLoader /\ load[t].dll \in Dlls
           /\ \A u \in Threads : u # t => load[u].pc \notin InLoader
           /\ \A d : Loading(d) <=> d = load[t].dll
           /\ ~attached[load[t].dll]
           /\ \A h \in brought : helper[h].dll # load[t].dll
           /\ \A u \in Threads : load[u].pc = "loaded" => load[u].dll # load[t].dll
<1> USE Names DEF InjectInv, TypeOK
<1>1. load[t] \in LoadType /\ load[t].pc \in InLoader
  BY DEF DllTypeOK, LockInv
<1>2. load[t].pc # "none"
  BY <1>1 DEF InLoader, Starting, Stopping
<1>3. load[t].dll \in Dlls
  <2>1. CASE t = Ui
    BY <2>1, <1>2 DEF ThreadInv, HelperTypeOK
  <2>2. CASE t \in Remote
    BY <2>2, <1>2 DEF ThreadInv
  <2> QED
    BY <2>1, <2>2 DEF Threads
<1>4. \A d : Loading(d) <=> d = load[t].dll
  BY DEF Loading
<1>5. ~attached[load[t].dll]
  BY <1>3, <1>4 DEF MutexInv
<1> QED
  BY <1>1, <1>3, <1>4, <1>5 DEF CountInv, LockInv

\* The thread changes only its own record, and keeps its copy in it.
Advances(t) ==
    /\ load' \in [Threads -> LoadType]
    /\ load'[t].dll = load[t].dll /\ load'[t].by = load[t].by
    /\ \A u \in Threads : u # t => load'[u] = load[u]

\* ThreadInv does not look at more.
LEMMA AdvancesThread ==
    ASSUME InjectInv, NEW t \in Threads, load[t].pc # "none", Advances(t),
           UNCHANGED injectVars
    PROVE  ThreadInv'
<1> USE Names DEF InjectInv, Advances, injectVars
<1>1. \A h \in Remote : load'[h].pc # "none" => load[h].pc # "none" /\ load'[h].dll = load[h].dll
  OBVIOUS
<1>2. load'[Ui].pc # "none" =>
          load[Ui].pc # "none" /\ load'[Ui].dll = load[Ui].dll /\ load'[Ui].by = load[Ui].by
  OBVIOUS
<1> QED
  BY <1>1, <1>2 DEF ThreadInv

\* The rest of the invariant, for a step of the loader by thread t.
LEMMA LoaderRest ==
    ASSUME InjectInv, NEW t \in Threads, load[t].pc # "none", Advances(t), alive,
           UNCHANGED <<bits, alive, fault, painter, injectVars>>,
           \A d \in Dlls : attached[d] => attached'[d]
    PROVE  ReportInv' /\ PainterInv' /\ HelperTypeOK'
<1> USE Names DEF InjectInv, TypeOK, injectVars
<1>1. HelperTypeOK'
  BY DEF HelperTypeOK
<1>2. ReportInv'
  <2>1. \A h \in Remote : ~helper[h].safe /\ helper[h].ret = 0 => helper[h].dll \in Dlls
    BY DEF ReportInv, ThreadInv
  <2> QED
    BY <2>1 DEF ReportInv
<1>3. PainterInv'
  <2> SUFFICES ASSUME OnlySafe' PROVE PainterInv'
    BY DEF PainterInv
  <2>1. OnlySafe
    BY DEF OnlySafe
  <2>2. t = Ui
    BY <2>1 DEF OnlySafe, ThreadInv, Threads
  <2>3. painter.pc = "idle" /\ fault = "none"
    BY <2>1, <2>2 DEF PainterInv
  <2> QED
    BY <2>3 DEF PainterInv
<1> QED
  BY <1>1, <1>2, <1>3

\* What such a step may do to the copies: it concerns only its own.
Concerns(d) ==
    /\ refs' \in [Dlls -> Nat] /\ mutex' \in [Dlls -> BOOLEAN]
    /\ lyric' \in [Dlls -> BOOLEAN]
    /\ old' \in [Dlls -> [Functions -> {"null", "trampoline", "function", "truncated"}]]
    /\ hooks' \in [Functions -> SUBSET Dlls]
    /\ \A e \in Dlls : e # d =>
           /\ refs'[e] = refs[e] /\ mutex'[e] = mutex[e]
           /\ lyric'[e] = lyric[e] /\ old'[e] = old[e]
           /\ \A i \in Functions : e \in hooks'[i] <=> e \in hooks[i]

HookOK(t, d) ==
    \A i \in Functions :
        /\ d \in hooks[i] =>
               mutex[d] /\ (old[d][i] = AsDword("trampoline") \/ Storing(t, d, i))
        /\ old[d][i] = "truncated" => bits = 64

ShareStays ==
    section' \in SectionType /\ last' \in Nat /\ UNCHANGED <<viewer, frame>>

LEMMA HolderTypes ==
    ASSUME InjectInv, NEW t \in Threads, lock' \in Threads \cup {Nobody},
           UNCHANGED <<bits, alive, fault, painter, injectVars>>,
           attached' \in [Dlls -> BOOLEAN],
           Advances(t), NEW d \in Dlls, Concerns(d), ShareStays
    PROVE  ShareTypeOK' /\ DllTypeOK'
BY DEF InjectInv, TypeOK, ShareTypeOK, DllTypeOK, Advances, Concerns, ShareStays, SectionType

\* A step in DllMain.
LEMMA HolderStep ==
    ASSUME InjectInv, NEW t \in Threads, lock = t, lock' = t, alive,
           UNCHANGED <<bits, alive, fault, painter, attached, injectVars>>,
           Advances(t), load'[t].pc \in InLoader, Concerns(load[t].dll), ShareStays,
           mutex'[load[t].dll] /\ ~mutex[load[t].dll] => ~MutexExists,
           HookOK(t, load[t].dll)', PlaceOK(t)'
    PROVE  InjectInv'
<1> DEFINE d == load[t].dll
<1> USE Names
<1>1. /\ load[t].pc \in InLoader /\ d \in Dlls
      /\ \A u \in Threads : u # t => load[u].pc \notin InLoader
      /\ \A e : Loading(e) <=> e = d
      /\ ~attached[d]
      /\ \A h \in brought : helper[h].dll # d
      /\ \A u \in Threads : load[u].pc = "loaded" => load[u].dll # d
  BY HolderFacts
<1>2. load[t].pc # "none" /\ load[t].pc # "loaded" /\ load'[t].pc # "loaded"
  BY <1>1 DEF InLoader, Starting, Stopping
<1>3. load'[t].dll = d /\ \A u \in Threads : u # t => load'[u] = load[u]
  BY DEF Advances
<1>4. ThreadInv'
  BY <1>2, AdvancesThread
<1>5. ReportInv' /\ PainterInv' /\ HelperTypeOK'
  BY <1>2, LoaderRest
<1>6. ShareTypeOK' /\ DllTypeOK'
  BY <1>1, HolderTypes DEF InjectInv, TypeOK, DllTypeOK
<1>7. LockInv'
  BY <1>1, <1>3 DEF LockInv
<1>8. PlaceInv'
  BY DEF PlaceInv
<1>9. \A e : Loading(e)' <=> e = d
  BY <1>3 DEF Loading
<1>10. \A e \in Dlls : e # d =>
           /\ refs'[e] = refs[e] /\ mutex'[e] = mutex[e]
           /\ lyric'[e] = lyric[e] /\ old'[e] = old[e]
           /\ \A i \in Functions : e \in hooks'[i] <=> e \in hooks[i]
  BY DEF Concerns
<1>11. CountInv'
  <2>1. \A e : Bringers(e)' = Bringers(e)
    BY DEF Bringers, injectVars
  <2>2. \A e : Arriving(e)' = Arriving(e)
    BY <1>2, <1>3 DEF Arriving
  <2>3. \A u \in Threads : load'[u].pc = "loaded" => load[u].pc = "loaded" /\ load'[u].dll = load[u].dll
    BY <1>2, <1>3
  <2>4. UNCHANGED <<attached, brought, helper>>
    BY DEF injectVars
  <2> QED
    BY <1>1, <1>9, <1>10, <2>1, <2>2, <2>3, <2>4 DEF InjectInv, CountInv
<1>12. MutexInv'
  <2>1. \A e, f \in Dlls : mutex'[e] /\ mutex'[f] => e = f
    <3>1. \A e, f \in Dlls : mutex[e] /\ mutex[f] => e = f
      BY DEF InjectInv, MutexInv
    <3>2. mutex'[d] => \A e \in Dlls : mutex[e] => e = d
      BY <1>1, <3>1 DEF MutexExists
    <3> QED
      BY <1>1, <1>10, <3>1, <3>2
  <2>2. \A e \in Dlls : e # d => (mutex[e] => attached[e])
    BY <1>1 DEF InjectInv, MutexInv
  <2>3. \A i \in Functions : \A e \in hooks'[i] : e \in Dlls /\ mutex'[e]
    <3>1. \A i \in Functions : \A e \in hooks'[i] : e \in Dlls
      BY DEF Concerns
    <3>2. \A i \in Functions : \A e \in hooks[i] : mutex[e]
      BY DEF InjectInv, MutexInv
    <3> QED
      BY <1>3, <1>10, <3>1, <3>2 DEF HookOK
  <2> QED
    BY <1>1, <1>9, <1>10, <2>1, <2>2, <2>3 DEF InjectInv, MutexInv
<1>13. OldInv'
  <2>1. \A e \in Dlls, i \in Functions : old'[e][i] = "truncated" => bits' = 64
    BY <1>3, <1>10 DEF InjectInv, OldInv, HookOK
  <2>2. ASSUME NEW i \in Functions, NEW e \in hooks'[i]
        PROVE  old'[e][i] = AsDword("trampoline")' \/ (lock' = t /\ Storing(t, e, i)')
    <3>1. CASE e = d
      BY <1>3, <2>2, <3>1 DEF HookOK
    <3>2. CASE e # d
      <4>1. e \in hooks[i] /\ e \in Dlls
        BY <1>10, <2>2, <3>2 DEF Concerns
      <4>2. old[e][i] = AsDword("trampoline")
        BY <3>2, <4>1 DEF InjectInv, OldInv, Storing
      <4> QED
        BY <1>10, <3>2, <4>1, <4>2 DEF AsDword
    <3> QED
      BY <3>1, <3>2
  <2> QED
    BY <2>1, <2>2 DEF OldInv
<1> QED
  BY <1>4, <1>5, <1>6, <1>7, <1>8, <1>11, <1>12, <1>13 DEF InjectInv, TypeOK

\* A thread's record is replaced by another for the same copy.
LEMMA ThreadGoes ==
    ASSUME InjectInv, NEW t \in Threads, NEW r \in LoadType,
           load' = [load EXCEPT ![t] = r],
           r.dll = load[t].dll, r.by = load[t].by
    PROVE  Advances(t) /\ load'[t] = r
<1>1. load \in [Threads -> LoadType]
  BY DEF InjectInv, TypeOK, DllTypeOK
<1>2. load' \in [Threads -> LoadType] /\ load'[t] = r
      /\ \A u \in Threads : u # t => load'[u] = load[u]
  BY <1>1
<1> QED
  BY <1>2 DEF Advances

\* The place that a step of DllMain leaves for another.
LEMMA Goes ==
    ASSUME InjectInv, NEW t \in Threads, NEW place \in LoadPlaces, Go(t, place)
    PROVE  Advances(t) /\ load'[t].pc = place /\ load'[t].dll = load[t].dll
           /\ load'[t].pointer = load[t].pointer
<1> DEFINE r == [load[t] EXCEPT !.pc = place]
<1>1. load' = [load EXCEPT ![t] = r]
  BY DEF Go
<1>2. load[t] \in LoadType
  BY DEF InjectInv, TypeOK, DllTypeOK
<1>3. /\ r \in LoadType /\ r.pc = place /\ r.dll = load[t].dll /\ r.by = load[t].by
      /\ r.pointer = load[t].pointer
  BY <1>2 DEF LoadType
<1> HIDE DEF r
<1> QED
  BY <1>1, <1>3, ThreadGoes

\* The record after HookFuncByName.
LEMMA HookGoes ==
    ASSUME load \in [Threads -> LoadType], NEW t \in Threads, NEW place \in LoadPlaces,
           NEW pointer \in {"null", "trampoline", "function"},
           load' = [load EXCEPT ![t].pc = place, ![t].pointer = pointer]
    PROVE  /\ Advances(t) /\ load'[t].pc = place /\ load'[t].dll = load[t].dll
           /\ load'[t].pointer = pointer
<1>1. load[t] \in LoadType
  OBVIOUS
<1>2. load'[t] = [load[t] EXCEPT !.pc = place, !.pointer = pointer]
      /\ \A u \in Threads : u # t => load'[u] = load[u]
  OBVIOUS
<1>3. load'[t] \in LoadType /\ load'[t].pc = place /\ load'[t].dll = load[t].dll
      /\ load'[t].pointer = pointer /\ load'[t].by = load[t].by
  BY <1>1, <1>2 DEF LoadType
<1>4. load' \in [Threads -> LoadType]
  <2>1. DOMAIN load' = Threads /\ load' = [u \in Threads |-> load'[u]]
    OBVIOUS
  <2> QED
    BY <1>1, <1>2, <1>3, <2>1
<1> QED
  BY <1>2, <1>3, <1>4 DEF Advances

LEMMA HookGoesOn ==
    ASSUME load \in [Threads -> LoadType], NEW t \in Threads, NEW place \in LoadPlaces,
           NEW pointer \in {"null", "trampoline", "function"}, NEW told \in BOOLEAN,
           load' = [load EXCEPT ![t].pc = place, ![t].pointer = pointer,
                                ![t].success = @ /\ told]
    PROVE  /\ Advances(t) /\ load'[t].pc = place /\ load'[t].dll = load[t].dll
           /\ load'[t].pointer = pointer
<1>1. \A b \in BOOLEAN : (b /\ told) \in BOOLEAN
  OBVIOUS
<1>2. load[t].success \in BOOLEAN
  BY DEF LoadType
<1>3. PICK success \in BOOLEAN :
            load' = [load EXCEPT ![t].pc = place, ![t].pointer = pointer,
                                 ![t].success = success]
  BY <1>1, <1>2
<1>4. load'[t] = [load[t] EXCEPT !.pc = place, !.pointer = pointer, !.success = success]
      /\ \A u \in Threads : u # t => load'[u] = load[u]
  BY <1>3
<1>5. load[t] \in LoadType
  OBVIOUS
<1>6. load'[t] \in LoadType /\ load'[t].pc = place /\ load'[t].dll = load[t].dll
      /\ load'[t].pointer = pointer /\ load'[t].by = load[t].by
  BY <1>4, <1>5 DEF LoadType
<1>7. load' \in [Threads -> LoadType]
  <2>1. DOMAIN load' = Threads /\ load' = [u \in Threads |-> load'[u]]
    BY <1>3
  <2> QED
    BY <1>4, <1>6, <2>1
<1> QED
  BY <1>4, <1>6, <1>7 DEF Advances

\* The thread at a place of DllMain holds the lock.
LEMMA HoldsLock ==
    ASSUME InjectInv, NEW t \in Threads, NEW place \in InLoader, At(t, place)
    PROVE  /\ lock = t /\ alive /\ load[t].pc = place /\ load[t].dll \in Dlls
           /\ HookOK(t, load[t].dll) /\ PlaceOK(t)
<1>1. lock = t /\ alive /\ load[t].pc = place
  BY DEF InjectInv, LockInv, At
<1>2. load[t].dll \in Dlls
  BY <1>1, HolderFacts
<1>3. HookOK(t, load[t].dll)
  BY <1>1, <1>2 DEF InjectInv, OldInv, MutexInv, HookOK
<1> QED
  BY <1>1, <1>2, <1>3 DEF InjectInv, PlaceInv

\* What the types say of the copies, and that a step may leave them.
LEMMA CopyTypes ==
    ASSUME InjectInv
    PROVE  /\ refs \in [Dlls -> Nat] /\ mutex \in [Dlls -> BOOLEAN]
           /\ lyric \in [Dlls -> BOOLEAN]
           /\ old \in [Dlls -> [Functions -> {"null", "trampoline", "function", "truncated"}]]
           /\ hooks \in [Functions -> SUBSET Dlls]
           /\ section \in SectionType /\ last \in Nat /\ bits \in {32, 64}
           /\ load \in [Threads -> LoadType]
BY DEF InjectInv, TypeOK, DllTypeOK, ShareTypeOK, SectionType

LEMMA IsInjectedStep ==
    ASSUME InjectInv, NEW t \in Threads, IsInjected(t), UNCHANGED injectVars
    PROVE  InjectInv'
<1> DEFINE d == load[t].dll
<1> USE CopyTypes
<1>1. /\ lock = t /\ alive /\ load[t].pc = "isInjected" /\ d \in Dlls
      /\ HookOK(t, d) /\ PlaceOK(t)
  BY HoldsLock DEF IsInjected, InLoader, Starting
<1>2. UNCHANGED <<others, shared, lock, refs, attached, lyric, old, hooks>>
  BY DEF IsInjected
<1>3. \/ Go(t, "unload") /\ UNCHANGED mutex
      \/ ~MutexExists /\ Go(t, "map") /\ mutex' = [mutex EXCEPT ![d] = TRUE]
  BY DEF IsInjected, Injected
<1>4. PICK place \in {"unload", "map"} :
          /\ Go(t, place)
          /\ \/ place = "unload" /\ UNCHANGED mutex
             \/ place = "map" /\ ~MutexExists /\ mutex' = [mutex EXCEPT ![d] = TRUE]
  BY <1>3
<1>5. Advances(t) /\ load'[t].pc = place /\ load'[t].dll = d
  BY <1>4, Goes DEF LoadPlaces, InLoader, Starting, Stopping, Advances
<1>6. Concerns(d) /\ ShareStays
  <2>1. mutex' \in [Dlls -> BOOLEAN] /\ \A e \in Dlls : e # d => mutex'[e] = mutex[e]
    <3>1. mutex \in [Dlls -> BOOLEAN]
      OBVIOUS
    <3> HIDE CopyTypes
    <3> QED
      BY <1>1, <1>4, <3>1
  <2> QED
    BY <1>1, <1>2, <2>1 DEF Concerns, ShareStays, others, shared
<1>7. \A i \in Functions : d \notin hooks[i]
  BY <1>1 DEF HookOK, PlaceOK
<1>8. HookOK(t, d)'
  BY <1>1, <1>2, <1>5, <1>7 DEF HookOK, others
<1>9. PlaceOK(t)'
  BY <1>1, <1>2, <1>4, <1>5, <1>7 DEF PlaceOK, Store, Functions
<1> QED
  BY <1>1, <1>2, <1>4, <1>5, <1>6, <1>8, <1>9, HolderStep
  DEF others, InLoader, Starting, Stopping

LEMMA OpenFileMappingStep ==
    ASSUME InjectInv, NEW t \in Threads, OpenFileMapping(t), UNCHANGED injectVars
    PROVE  InjectInv'
<1> DEFINE d == load[t].dll
<1> USE CopyTypes
<1>1. /\ lock = t /\ alive /\ load[t].pc = "map" /\ d \in Dlls
      /\ HookOK(t, d) /\ PlaceOK(t)
  BY HoldsLock DEF OpenFileMapping, InLoader, Starting
<1>2. /\ UNCHANGED <<others, last, lock, refs, attached, mutex, old, hooks>>
      /\ lyric' = [lyric EXCEPT ![d] = TRUE]
      /\ load' = [load EXCEPT ![t].pc = "hook1", ![t].success = TRUE]
  BY DEF OpenFileMapping
<1>3. section' \in SectionType
  BY <1>1, HoldType DEF OpenFileMapping
<1>4. Advances(t) /\ load'[t].pc = "hook1" /\ load'[t].dll = d
  <2>1. "hook1" \in LoadPlaces
    BY DEF LoadPlaces, InLoader, Starting
  <2>2. load[t] \in LoadType /\ DOMAIN load = Threads
    OBVIOUS
  <2>3. /\ load'[t] = [load[t] EXCEPT !.pc = "hook1", !.success = TRUE]
        /\ DOMAIN load' = Threads /\ load' = [u \in Threads |-> load'[u]]
        /\ \A u \in Threads : u # t => load'[u] = load[u]
    BY <1>2, <2>2
  <2>4. /\ load'[t] \in LoadType /\ load'[t].pc = "hook1"
        /\ load'[t].dll = load[t].dll /\ load'[t].by = load[t].by
    BY <2>1, <2>2, <2>3 DEF LoadType
  <2>5. load' \in [Threads -> LoadType]
    BY <2>3, <2>4
  <2> QED
    BY <2>3, <2>4, <2>5 DEF Advances
<1>5. Concerns(d) /\ ShareStays
  BY <1>1, <1>2, <1>3 DEF Concerns, ShareStays, others
<1>6. \A i \in Functions : d \notin hooks[i]
  BY <1>1 DEF PlaceOK, Functions
<1>7. HookOK(t, d)'
  BY <1>1, <1>2, <1>4, <1>6 DEF HookOK, others
<1>8. PlaceOK(t)'
  BY <1>1, <1>2, <1>4, <1>6 DEF PlaceOK, Functions
<1> QED
  BY <1>1, <1>2, <1>4, <1>5, <1>7, <1>8, HolderStep DEF others, InLoader, Starting

LEMMA HookFuncByNameStep ==
    ASSUME InjectInv, NEW t \in Threads, NEW i \in Functions, HookFuncByName(t, i),
           UNCHANGED injectVars
    PROVE  InjectInv'
<1> DEFINE d == load[t].dll
<1> USE CopyTypes
<1>0. /\ i \in {1, 2} /\ Hook[1] = "hook1" /\ Hook[2] = "hook2"
      /\ Store[1] = "store1" /\ Store[2] = "store2"
  BY DEF Functions, Hook, Store
<1>1. /\ lock = t /\ alive /\ load[t].pc = Hook[i] /\ d \in Dlls
      /\ HookOK(t, d) /\ PlaceOK(t)
  BY <1>0, HoldsLock DEF HookFuncByName, InLoader, Starting
<1>2. UNCHANGED <<others, shared, lock, refs, attached, mutex, lyric, old>>
  BY DEF HookFuncByName
<1>3. PICK pointer \in {"trampoline", "function"} :
          /\ Advances(t) /\ load'[t].pc = Store[i] /\ load'[t].dll = d
          /\ load'[t].pointer = pointer
          /\ \/ pointer = "trampoline" /\ hooks' = [hooks EXCEPT ![i] = @ \cup {d}]
             \/ pointer = "function" /\ UNCHANGED hooks
  <2>1. Store[i] \in LoadPlaces
    BY <1>0 DEF LoadPlaces, InLoader, Starting
  <2>2. CASE /\ hooks' = [hooks EXCEPT ![i] = @ \cup {d}]
             /\ load' = [load EXCEPT ![t].pc = Store[i], ![t].pointer = "trampoline"]
    BY <2>1, <2>2, HookGoes
  <2>3. CASE /\ UNCHANGED hooks
             /\ \E told \in BOOLEAN :
                   load' = [load EXCEPT ![t].pc = Store[i],
                              ![t].pointer = "function", ![t].success = @ /\ told]
    <3>1. PICK told \in BOOLEAN :
              load' = [load EXCEPT ![t].pc = Store[i],
                              ![t].pointer = "function", ![t].success = @ /\ told]
      BY <2>3
    <3>2. /\ Advances(t) /\ load'[t].pc = Store[i] /\ load'[t].dll = d
          /\ load'[t].pointer = "function"
      BY <2>1, <3>1, HookGoesOn
    <3> QED
      BY <2>3, <3>2
  <2> QED
    BY <2>2, <2>3 DEF HookFuncByName
<1>4. /\ Advances(t) /\ load'[t].pc = Store[i] /\ load'[t].dll = d
      /\ load'[t].pointer = pointer
  BY <1>3
<1>5. Concerns(d) /\ ShareStays
  <2>1. hooks' \in [Functions -> SUBSET Dlls]
        /\ \A e \in Dlls : e # d => \A j \in Functions : e \in hooks'[j] <=> e \in hooks[j]
    <3>1. hooks \in [Functions -> SUBSET Dlls]
      OBVIOUS
    <3>2. hooks' = [hooks EXCEPT ![i] = @ \cup {d}] \/ hooks' = hooks
      BY <1>3
    <3> HIDE CopyTypes
    <3> HIDE DEF d
    <3> QED
      BY <1>1, <3>1, <3>2
  <2> QED
    BY <1>1, <1>2, <2>1 DEF Concerns, ShareStays, others, shared
<1>6. d \notin hooks[i] /\ mutex[d] /\ lyric[d] /\ refs[d] >= 1
  BY <1>0, <1>1 DEF PlaceOK
<1>7. \A j \in Functions : j # i => (d \in hooks'[j] <=> d \in hooks[j])
  BY <1>3
<1>8. HookOK(t, d)'
  <2>1. \A j \in Functions : j # i => ~Storing(t, d, j)
    BY <1>0, <1>1 DEF Storing, Functions
  <2> QED
    BY <1>1, <1>2, <1>3, <1>4, <1>6, <1>7, <2>1 DEF HookOK, Storing, AsDword, others
<1>9. PlaceOK(t)'
  <2>1. i = 1 => d \notin hooks'[2]
    BY <1>0, <1>1, <1>7 DEF PlaceOK, Functions
  <2>2. pointer # "trampoline" => d \notin hooks'[i]
    BY <1>3, <1>6
  <2> QED
    BY <1>0, <1>2, <1>4, <1>6, <2>1, <2>2 DEF PlaceOK, Functions
<1>10. load'[t].pc \in InLoader
  BY <1>0, <1>4 DEF InLoader, Starting
<1> QED
  BY <1>1, <1>2, <1>4, <1>5, <1>8, <1>9, <1>10, HolderStep DEF others

LEMMA StoreOldStep ==
    ASSUME InjectInv, NEW t \in Threads, NEW i \in Functions, StoreOld(t, i),
           UNCHANGED injectVars
    PROVE  InjectInv'
<1> DEFINE d == load[t].dll
           place == IF i = 1 THEN "hook2" ELSE AfterInit(t)
           new == AsDword(load[t].pointer)
<1> USE CopyTypes
<1>0. /\ i \in {1, 2} /\ Store[1] = "store1" /\ Store[2] = "store2"
  BY DEF Functions, Store
<1>1. /\ lock = t /\ alive /\ load[t].pc = Store[i] /\ d \in Dlls
      /\ HookOK(t, d) /\ PlaceOK(t)
  BY <1>0, HoldsLock DEF StoreOld, InLoader, Starting
<1>2. /\ UNCHANGED <<others, shared, lock, refs, attached, mutex, lyric, hooks>>
      /\ old' = [old EXCEPT ![d][i] = new] /\ Go(t, place)
  BY DEF StoreOld
<1>3. place \in {"hook2", "pin", "unmap"} /\ (place = "hook2" <=> i = 1)
  BY <1>0 DEF AfterInit
<1>4. /\ new \in {"null", "trampoline", "function", "truncated"}
      /\ new = "truncated" => bits = 64
      /\ load[t].pointer = "trampoline" => new = AsDword("trampoline")
  BY DEF AsDword, LoadType
<1> HIDE DEF place, new
<1>5. Advances(t) /\ load'[t].pc = place /\ load'[t].dll = d
  BY <1>2, <1>3, Goes DEF Advances, LoadPlaces, InLoader, Starting, Stopping
<1>6. Concerns(d) /\ ShareStays
  BY <1>1, <1>2, <1>4 DEF Concerns, ShareStays, others, shared
<1>7. HookOK(t, d)'
  <2>1. \A j \in Functions : old'[d][j] = IF j = i THEN new ELSE old[d][j]
    BY <1>1, <1>2
  <2>2. \A j \in Functions : j # i => ~Storing(t, d, j)
    BY <1>0, <1>1 DEF Storing, Functions
  <2>3. d \in hooks[i] => load[t].pointer = "trampoline"
    BY <1>1 DEF PlaceOK
  <2>4. AsDword("trampoline")' = AsDword("trampoline")
    BY <1>2 DEF AsDword, others
  <2> QED
    BY <1>1, <1>2, <1>4, <1>5, <2>1, <2>2, <2>3, <2>4 DEF HookOK, others
<1>8. PlaceOK(t)'
  <2>1. i = 1 => d \notin hooks[2]
    BY <1>0, <1>1 DEF PlaceOK
  <2>2. mutex[d] /\ lyric[d] /\ refs[d] >= 1
    BY <1>0, <1>1 DEF PlaceOK
  <2> QED
    BY <1>0, <1>2, <1>3, <1>5, <2>1, <2>2 DEF PlaceOK, Functions
<1>9. load'[t].pc \in InLoader
  BY <1>3, <1>5 DEF InLoader, Starting, Stopping
<1> QED
  BY <1>1, <1>2, <1>5, <1>6, <1>7, <1>8, <1>9, HolderStep DEF others

LEMMA PinLibraryStep ==
    ASSUME InjectInv, NEW t \in Threads, PinLibrary(t), UNCHANGED injectVars
    PROVE  InjectInv'
<1> DEFINE d == load[t].dll
<1> USE CopyTypes
<1>1. /\ lock = t /\ alive /\ load[t].pc = "pin" /\ d \in Dlls
      /\ HookOK(t, d) /\ PlaceOK(t)
  BY HoldsLock DEF PinLibrary, InLoader, Starting
<1>2. /\ UNCHANGED <<others, shared, lock, attached, mutex, lyric, old, hooks>>
      /\ refs' = [refs EXCEPT ![d] = @ + 1]
  BY DEF PinLibrary, Pinned
<1>3. Advances(t) /\ load'[t].pc = "thread" /\ load'[t].dll = d
  BY Goes DEF PinLibrary, LoadPlaces, InLoader, Starting
<1>4. Concerns(d) /\ ShareStays
  <2>1. refs' \in [Dlls -> Nat] /\ \A e \in Dlls : e # d => refs'[e] = refs[e]
    BY <1>1, <1>2
  <2> QED
    BY <1>2, <2>1 DEF Concerns, ShareStays, others, shared
<1>5. HookOK(t, d)'
  <2>1. \A i \in Functions : ~Storing(t, d, i)
    BY <1>1 DEF Storing, Store, Functions
  <2> QED
    BY <1>1, <1>2, <1>3, <2>1 DEF HookOK, AsDword, others
<1>6. PlaceOK(t)'
  BY <1>1, <1>2, <1>3 DEF PlaceOK, Store, Functions
<1> QED
  BY <1>1, <1>2, <1>3, <1>4, <1>5, <1>6, HolderStep DEF others, InLoader, Starting

LEMMA ThreadFailsStep ==
    ASSUME InjectInv, NEW t \in Threads, At(t, "thread"), Go(t, "unmap"),
           UNCHANGED <<attached, lock>>,
           UNCHANGED <<others, shared, refs, mutex, lyric, old, hooks>>, UNCHANGED injectVars
    PROVE  InjectInv'
<1> DEFINE d == load[t].dll
<1> USE CopyTypes
<1>1. /\ lock = t /\ alive /\ load[t].pc = "thread" /\ d \in Dlls
      /\ HookOK(t, d) /\ PlaceOK(t)
  BY HoldsLock DEF InLoader, Starting
<1>2. Advances(t) /\ load'[t].pc = "unmap" /\ load'[t].dll = d
  BY Goes DEF LoadPlaces, InLoader, Stopping
<1>3. Concerns(d) /\ ShareStays
  BY DEF Concerns, ShareStays, others, shared
<1>4. HookOK(t, d)'
  <2>1. \A i \in Functions : ~Storing(t, d, i)
    BY <1>1 DEF Storing, Store, Functions
  <2> QED
    BY <1>1, <1>2, <2>1 DEF HookOK, AsDword, others
<1>5. PlaceOK(t)'
  BY <1>1, <1>2 DEF PlaceOK, Store, Functions
<1> QED
  BY <1>1, <1>2, <1>3, <1>4, <1>5, HolderStep DEF others, InLoader, Stopping

LEMMA UnmapViewStep ==
    ASSUME InjectInv, NEW t \in Threads, UnmapView(t), UNCHANGED injectVars
    PROVE  InjectInv'
<1> DEFINE d == load[t].dll
<1> USE CopyTypes
<1>1. /\ lock = t /\ alive /\ load[t].pc = "unmap" /\ d \in Dlls
      /\ HookOK(t, d) /\ PlaceOK(t)
  BY HoldsLock DEF UnmapView, InLoader, Stopping
<1>2. UNCHANGED <<others, lock, refs, attached, mutex, lyric, old, hooks>>
  BY DEF UnmapView
<1>3. section' \in SectionType /\ last' \in Nat
  BY LeaveType DEF UnmapView
<1>4. Advances(t) /\ load'[t].pc = "unhook1" /\ load'[t].dll = d
  BY Goes DEF UnmapView, LoadPlaces, InLoader, Stopping
<1>5. Concerns(d) /\ ShareStays
  BY <1>2, <1>3 DEF Concerns, ShareStays, others
<1>6. HookOK(t, d)'
  <2>1. \A i \in Functions : ~Storing(t, d, i)
    BY <1>1 DEF Storing, Store, Functions
  <2> QED
    BY <1>1, <1>2, <1>4, <2>1 DEF HookOK, AsDword, others
<1>7. PlaceOK(t)'
  BY <1>1, <1>2, <1>4 DEF PlaceOK, Store, Functions
<1> QED
  BY <1>1, <1>2, <1>4, <1>5, <1>6, <1>7, HolderStep DEF others, InLoader, Stopping

LEMMA UnHookFuncStep ==
    ASSUME InjectInv, NEW t \in Threads, NEW i \in Functions, UnHookFunc(t, i),
           UNCHANGED injectVars
    PROVE  InjectInv'
<1> DEFINE d == load[t].dll
           place == IF i = 1 THEN "unhook2" ELSE "reset"
<1> USE CopyTypes
<1>0. i \in {1, 2} /\ Unhook[1] = "unhook1" /\ Unhook[2] = "unhook2"
  BY DEF Functions, Unhook
<1>1. /\ lock = t /\ alive /\ load[t].pc = Unhook[i] /\ d \in Dlls
      /\ HookOK(t, d) /\ PlaceOK(t)
  BY <1>0, HoldsLock DEF UnHookFunc, InLoader, Stopping
<1>2. CASE old[d][i] = "truncated" /\ Dies("unhook")
  <2>1. ~OnlySafe
    BY <1>1, <1>2 DEF HookOK, OnlySafe
  <2> QED
    BY <1>2, <2>1, DiesStep
<1>3. CASE /\ old[d][i] # "truncated"
           /\ hooks' = IF old[d][i] = "trampoline" THEN Unhooked(i, d) ELSE hooks
           /\ Go(t, place)
           /\ UNCHANGED <<others, shared, lock, refs, attached, mutex, lyric, old>>
  <2>1. place \in {"unhook2", "reset"} /\ (place = "unhook2" <=> i = 1)
    BY <1>0
  <2> HIDE DEF place
  <2>2. Advances(t) /\ load'[t].pc = place /\ load'[t].dll = d
    BY <1>3, <2>1, Goes DEF LoadPlaces, InLoader, Stopping
  <2>3. \A j \in Functions : ~Storing(t, d, j)
    BY <1>0, <1>1 DEF Storing, Store, Functions
  <2>4. /\ hooks' \in [Functions -> SUBSET Dlls] /\ d \notin hooks'[i]
        /\ \A j \in Functions : \A e \in Dlls :
               j # i \/ e # d => (e \in hooks'[j] <=> e \in hooks[j])
    <3>1. d \in hooks[i] => old[d][i] = "trampoline"
      BY <1>1, <1>3, <2>3 DEF HookOK, AsDword
    <3>2. hooks' = [hooks EXCEPT ![i] = @ \ {d}] \/ (hooks' = hooks /\ d \notin hooks[i])
      BY <1>3, <3>1 DEF Unhooked, Removed
    <3>3. hooks \in [Functions -> SUBSET Dlls]
      OBVIOUS
    <3> HIDE CopyTypes
    <3> HIDE DEF d
    <3> QED
      BY <3>2, <3>3
  <2>5. Concerns(d) /\ ShareStays
    BY <1>3, <2>4 DEF Concerns, ShareStays, others, shared
  <2>6. HookOK(t, d)'
    BY <1>1, <1>3, <2>2, <2>3, <2>4 DEF HookOK, AsDword, others
  <2>7. PlaceOK(t)'
    <3>1. mutex[d] /\ lyric[d] /\ refs[d] >= 1
      BY <1>0, <1>1 DEF PlaceOK
    <3>2. i = 2 => d \notin hooks'[1] /\ d \notin hooks'[2]
      BY <1>0, <1>1, <2>4 DEF PlaceOK, Functions
    <3> QED
      BY <1>0, <1>3, <2>1, <2>2, <2>4, <3>1, <3>2 DEF PlaceOK, Store, Functions
  <2>8. load'[t].pc \in InLoader
    BY <2>1, <2>2 DEF InLoader, Stopping
  <2> QED
    BY <1>1, <1>3, <2>2, <2>5, <2>6, <2>7, <2>8, HolderStep DEF others
<1> QED
  BY <1>2, <1>3 DEF UnHookFunc

LEMMA ResetHookLyricStep ==
    ASSUME InjectInv, NEW t \in Threads, ResetHookLyric(t), UNCHANGED injectVars
    PROVE  InjectInv'
<1> DEFINE d == load[t].dll
           nulls == [i \in Functions |-> "null"]
<1> USE CopyTypes
<1>1. /\ lock = t /\ alive /\ load[t].pc = "reset" /\ d \in Dlls
      /\ HookOK(t, d) /\ PlaceOK(t)
  BY HoldsLock DEF ResetHookLyric, InLoader, Stopping
<1>2. /\ UNCHANGED <<others, shared, lock, refs, attached, hooks>>
      /\ lyric' = [lyric EXCEPT ![d] = FALSE] /\ mutex' = [mutex EXCEPT ![d] = FALSE]
      /\ old' = [old EXCEPT ![d] = nulls]
  BY DEF ResetHookLyric
<1>3. Advances(t) /\ load'[t].pc = "unload" /\ load'[t].dll = d
  BY Goes DEF ResetHookLyric, LoadPlaces, InLoader, Stopping
<1>4. nulls \in [Functions -> {"null", "trampoline", "function", "truncated"}]
      /\ \A i \in Functions : nulls[i] = "null"
  OBVIOUS
<1> HIDE DEF nulls
<1>5. /\ lyric' \in [Dlls -> BOOLEAN] /\ mutex' \in [Dlls -> BOOLEAN] /\ ~mutex'[d]
      /\ old' \in [Dlls -> [Functions -> {"null", "trampoline", "function", "truncated"}]]
      /\ old'[d] = nulls
      /\ \A e \in Dlls : e # d =>
             lyric'[e] = lyric[e] /\ mutex'[e] = mutex[e] /\ old'[e] = old[e]
  BY <1>1, <1>2, <1>4
<1>6. Concerns(d) /\ ShareStays
  BY <1>2, <1>5 DEF Concerns, ShareStays, others, shared
<1>7. \A i \in Functions : d \notin hooks[i]
  BY <1>1 DEF PlaceOK, Functions
<1>8. HookOK(t, d)'
  BY <1>2, <1>3, <1>4, <1>5, <1>7 DEF HookOK
<1>9. PlaceOK(t)'
  BY <1>1, <1>2, <1>3, <1>5, <1>7 DEF PlaceOK, Store, Functions
<1> QED
  BY <1>1, <1>2, <1>3, <1>5, <1>6, <1>8, <1>9, HolderStep DEF others, InLoader, Stopping

-----------------------------------------------------------------------------
(* The lock is given back, or taken.                                       *)

LEMMA BringersFinite ==
    ASSUME InjectInv, NEW d
    PROVE  IsFiniteSet(Bringers(d)) /\ Cardinality(Bringers(d)) \in Nat
           /\ (Bringers(d) = {} => Cardinality(Bringers(d)) = 0)
           /\ (Bringers(d) # {} => Cardinality(Bringers(d)) >= 1)
<1>1. IsFiniteSet(Bringers(d))
  BY RemoteAssumption, FS_Subset DEF InjectInv, TypeOK, HelperTypeOK, Bringers
<1> QED
  BY <1>1, FS_CardinalityType, FS_EmptySet

LEMMA ArrivingIs == \A d : Arriving(d) \in {0, 1}
BY DEF Arriving

LEMMA ThreadStartsStep ==
    ASSUME InjectInv, NEW t \in Threads, At(t, "thread"),
           attached' = [attached EXCEPT ![load[t].dll] = TRUE],
           Go(t, "loaded"), lock' = Nobody,
           UNCHANGED <<others, shared, refs, mutex, lyric, old, hooks>>, UNCHANGED injectVars
    PROVE  InjectInv'
<1> DEFINE d == load[t].dll
<1> USE Names
<1>1. /\ lock = t /\ alive /\ load[t].pc = "thread" /\ d \in Dlls
      /\ HookOK(t, d) /\ PlaceOK(t)
  BY HoldsLock DEF InLoader, Starting
<1>2. /\ \A u \in Threads : u # t => load[u].pc \notin InLoader
      /\ \A e : Loading(e) <=> e = d
      /\ \A h \in brought : helper[h].dll # d
      /\ \A u \in Threads : load[u].pc = "loaded" => load[u].dll # d
  BY <1>1, HolderFacts
<1>3. Advances(t) /\ load'[t].pc = "loaded" /\ load'[t].dll = d
  BY Goes DEF LoadPlaces
<1>4. \A u \in Threads : u # t => load'[u] = load[u]
  BY <1>3 DEF Advances
<1>5. attached \in [Dlls -> BOOLEAN]
      /\ attached' \in [Dlls -> BOOLEAN] /\ attached'[d]
      /\ \A e \in Dlls : e # d => attached'[e] = attached[e]
  BY <1>1 DEF InjectInv, TypeOK, DllTypeOK
<1>6. ThreadInv'
  BY <1>1, <1>3, AdvancesThread
<1>7. ReportInv' /\ PainterInv' /\ HelperTypeOK'
  BY <1>1, <1>3, <1>5, LoaderRest DEF others
<1>8. ShareTypeOK' /\ DllTypeOK'
  <2>1. Concerns(d) /\ ShareStays
    BY CopyTypes DEF Concerns, ShareStays, others, shared
  <2> QED
    BY <1>1, <1>3, <1>5, <2>1, HolderTypes DEF others
<1>9. LockInv' /\ \A e : ~Loading(e)'
  <2>1. "loaded" \notin InLoader
    BY DEF InLoader, Starting, Stopping
  <2> QED
    BY <1>2, <1>3, <1>4, <2>1 DEF LockInv, Loading
<1>10. PlaceInv'
  BY DEF PlaceInv
<1>11. CountInv'
  <2>1. \A e : Bringers(e)' = Bringers(e)
    BY DEF Bringers, injectVars
  <2>2. \A e : e # d => Arriving(e)' = Arriving(e)
    BY <1>1, <1>3, <1>4 DEF Arriving
  <2>3. PICK c \in Dlls : c = d
    BY <1>1
  <2>4. Bringers(d) = {} /\ Cardinality(Bringers(d)) = 0
    BY <1>2, BringersFinite DEF Bringers
  <2>5. refs[d] >= 2
    BY <1>1 DEF PlaceOK
  <2>6. \A e \in Dlls : attached'[e] =>
            refs[e] >= 1 + Cardinality(Bringers(e)) + Arriving(e)'
    <3>1. refs[c] >= 1 + Cardinality(Bringers(c)) + Arriving(c)'
      <4>1. Arriving(c)' \in {0, 1} /\ refs[c] \in Nat
        BY CopyTypes DEF Arriving
      <4> QED
        BY <2>3, <2>4, <2>5, <4>1
    <3>2. \A e \in Dlls : attached[e] => refs[e] >= 1 + Cardinality(Bringers(e)) + Arriving(e)
      BY DEF InjectInv, CountInv
    <3> QED
      BY <1>5, <2>2, <2>3, <3>1, <3>2
  <2>7. \A u \in Threads : load'[u].pc = "loaded" => attached'[load'[u].dll]
    <3>1. \A u \in Threads : load[u].pc = "loaded" => load[u].dll \in Dlls
      BY DEF InjectInv, ThreadInv, TypeOK, HelperTypeOK, Threads
    <3> QED
      BY <1>2, <1>3, <1>4, <1>5, <3>1 DEF InjectInv, CountInv
  <2>8. \A h \in brought : attached'[helper[h].dll]
    <3>1. \A h \in brought : helper[h].dll \in Dlls
      BY DEF InjectInv, ThreadInv, TypeOK, HelperTypeOK
    <3> QED
      BY <1>2, <1>5, <3>1 DEF InjectInv, CountInv
  <2>9. \A e \in Dlls : refs[e] > 0 => attached'[e]
    BY <1>2, <1>5 DEF InjectInv, CountInv
  <2> QED
    BY <2>1, <2>6, <2>7, <2>8, <2>9 DEF CountInv, injectVars
<1>12. MutexInv'
  <2>1. mutex[d] /\ lyric[d]
    BY <1>1 DEF PlaceOK
  <2> QED
    BY <1>2, <1>5, <1>9, <2>1 DEF InjectInv, MutexInv
<1>13. OldInv'
  <2>1. \A i \in Functions, e \in Dlls : ~Storing(t, e, i)
    BY <1>1 DEF Storing, Store, Functions
  <2>2. \A i \in Functions : \A e \in hooks[i] : e \in Dlls
    BY CopyTypes
  <2>3. \A i \in Functions : \A e \in hooks[i] : old[e][i] = AsDword("trampoline")
    BY <1>1, <2>1, <2>2 DEF InjectInv, OldInv
  <2> QED
    BY <2>3 DEF InjectInv, OldInv, AsDword, others
<1> QED
  BY <1>6, <1>7, <1>8, <1>9, <1>10, <1>11, <1>12, <1>13 DEF InjectInv, TypeOK

LEMMA UnloadStep ==
    ASSUME InjectInv, NEW t \in Threads, Unload(t), UNCHANGED injectVars
    PROVE  InjectInv'
<1> DEFINE d == load[t].dll
           place == IF t = Ui THEN "none" ELSE "failed"
<1> USE Names
<1>1. /\ lock = t /\ alive /\ load[t].pc = "unload" /\ d \in Dlls
      /\ HookOK(t, d) /\ PlaceOK(t)
  BY HoldsLock DEF Unload, InLoader, Stopping
<1>2. /\ \A u \in Threads : u # t => load[u].pc \notin InLoader
      /\ \A e : Loading(e) <=> e = d
      /\ ~attached[d]
      /\ \A h \in brought : helper[h].dll # d
      /\ \A u \in Threads : load[u].pc = "loaded" => load[u].dll # d
  BY <1>1, HolderFacts
<1>3. /\ UNCHANGED <<others, shared, mutex, lyric, old, hooks>>
      /\ refs' = [refs EXCEPT ![d] = 0] /\ lock' = Nobody /\ Go(t, place)
      /\ attached' = [attached EXCEPT ![d] = FALSE]
  BY DEF Unload
<1>4. place \in {"none", "failed"}
  OBVIOUS
<1> HIDE DEF place
<1>5. Advances(t) /\ load'[t].pc = place /\ load'[t].dll = d
  BY <1>3, <1>4, Goes DEF LoadPlaces
<1>6. \A u \in Threads : u # t => load'[u] = load[u]
  BY <1>5 DEF Advances
<1>7. attached' = attached
  BY <1>1, <1>2, <1>3 DEF InjectInv, TypeOK, DllTypeOK
<1>8. refs' \in [Dlls -> Nat] /\ refs'[d] = 0 /\ \A e \in Dlls : e # d => refs'[e] = refs[e]
  BY <1>1, <1>3 DEF InjectInv, TypeOK, DllTypeOK
<1>9. ThreadInv'
  BY <1>1, <1>5, AdvancesThread
<1>10. ReportInv' /\ PainterInv' /\ HelperTypeOK'
  BY <1>1, <1>3, <1>5, <1>7, LoaderRest DEF others
<1>11. ShareTypeOK' /\ DllTypeOK'
  <2>1. Concerns(d) /\ ShareStays
    BY <1>3, <1>8, CopyTypes DEF Concerns, ShareStays, others, shared
  <2>2. attached' \in [Dlls -> BOOLEAN]
    BY <1>7 DEF InjectInv, TypeOK, DllTypeOK
  <2> QED
    BY <1>1, <1>3, <1>5, <2>1, <2>2, HolderTypes DEF others
<1>12. LockInv' /\ \A e : ~Loading(e)'
  <2>1. place \notin InLoader
    BY <1>4 DEF InLoader, Starting, Stopping
  <2> QED
    BY <1>2, <1>3, <1>5, <1>6, <2>1 DEF LockInv, Loading
<1>13. PlaceInv'
  BY <1>3 DEF PlaceInv
<1>14. CountInv'
  <2>1. \A e : Bringers(e)' = Bringers(e)
    BY DEF Bringers, injectVars
  <2>2. \A e : Arriving(e)' = Arriving(e)
    BY <1>1, <1>4, <1>5, <1>6 DEF Arriving
  <2>3. \A u \in Threads : load'[u].pc = "loaded" => u # t /\ load'[u] = load[u]
    BY <1>4, <1>5, <1>6
  <2> QED
    BY <1>2, <1>7, <1>8, <2>1, <2>2, <2>3 DEF InjectInv, CountInv, injectVars
<1>15. MutexInv'
  <2>1. ~mutex[d]
    BY <1>1 DEF PlaceOK
  <2> QED
    BY <1>2, <1>3, <1>7, <1>12, <2>1 DEF InjectInv, MutexInv
<1>16. OldInv'
  <2>1. \A i \in Functions, e \in Dlls : ~Storing(t, e, i)
    BY <1>1 DEF Storing, Store, Functions
  <2>2. \A i \in Functions : \A e \in hooks[i] : e \in Dlls
    BY CopyTypes
  <2>3. \A i \in Functions : \A e \in hooks[i] : old[e][i] = AsDword("trampoline")
    BY <1>1, <2>1, <2>2 DEF InjectInv, OldInv
  <2> QED
    BY <1>3, <2>3 DEF InjectInv, OldInv, AsDword, others
<1> QED
  BY <1>9, <1>10, <1>11, <1>12, <1>13, <1>14, <1>15, <1>16 DEF InjectInv, TypeOK

\* A change of what a thread does outside the loader.
LEMMA OutsideStep ==
    ASSUME InjectInv, NEW t \in Threads, load' \in [Threads -> LoadType],
           \A u \in Threads : u # t => load'[u] = load[u],
           load[t].pc \notin InLoader \cup {"loaded"},
           load'[t].pc \notin InLoader \cup {"loaded"},
           UNCHANGED <<bits, lock, refs, attached, mutex, lyric, old, hooks, brought>>,
           DllsKept
    PROVE  LoaderInv'
<1> USE Names
<1>1. lock # t
  BY DEF InjectInv, LockInv
<1>2. \A e : Loading(e)' <=> Loading(e)
  BY <1>1 DEF Loading
<1>3. LockInv'
  BY DEF InjectInv, LockInv
<1>4. PlaceInv'
  BY <1>1 DEF InjectInv, PlaceInv, PlaceOK
<1>5. OldInv'
  BY <1>1 DEF InjectInv, OldInv, Storing, AsDword
<1>6. MutexInv'
  BY <1>2 DEF InjectInv, MutexInv
<1>7. CountInv'
  <2>1. \A e : Bringers(e)' = Bringers(e)
    BY BringersKept
  <2>2. \A e : Arriving(e)' = Arriving(e)
    BY DEF Arriving
  <2>3. \A h \in brought : helper'[h].dll = helper[h].dll
    BY DEF InjectInv, ThreadInv, TypeOK, HelperTypeOK, DllsKept
  <2>4. \A u \in Threads : load'[u].pc = "loaded" => load'[u] = load[u]
    OBVIOUS
  <2> QED
    BY <1>2, <2>1, <2>2, <2>3, <2>4 DEF InjectInv, CountInv
<1> QED
  BY <1>3, <1>4, <1>5, <1>6, <1>7 DEF LoaderInv

LEMMA ReadPathStep ==
    ASSUME InjectInv, NEW t \in Threads, ReadPath(t), UNCHANGED injectVars
    PROVE  InjectInv'
<1>1. /\ alive /\ load[t].pc = "read"
      /\ UNCHANGED <<others, shared, lock, refs, attached, mutex, lyric, old, hooks>>
  BY DEF ReadPath, At
<1>2. Advances(t) /\ load'[t].pc = "want"
  BY Goes DEF ReadPath, LoadPlaces
<1>3. LoaderInv'
  <2>1. DllsKept
    BY DEF DllsKept, injectVars
  <2> QED
    BY <1>1, <1>2, <2>1, OutsideStep
    DEF Advances, InLoader, Starting, Stopping, others, injectVars
<1>4. ThreadInv'
  BY <1>1, <1>2, AdvancesThread
<1>5. ReportInv' /\ PainterInv' /\ HelperTypeOK'
  BY <1>1, <1>2, LoaderRest DEF others
<1>6. ShareTypeOK' /\ DllTypeOK'
  BY <1>1, <1>2 DEF InjectInv, TypeOK, ShareTypeOK, DllTypeOK, Advances, others, shared
<1> QED
  BY <1>3, <1>4, <1>5, <1>6 DEF InjectInv, TypeOK, LoaderInv

\* LoadLibrary of a copy that is there.
LEMMA CountedStep ==
    ASSUME InjectInv, NEW t \in Threads, LoadLibrary(t), refs[load[t].dll] > 0,
           UNCHANGED injectVars
    PROVE  InjectInv'
<1> USE Names
<1>1. /\ alive /\ load[t].pc = "want" /\ lock = Nobody
      /\ UNCHANGED <<others, shared, attached, mutex, lyric, old, hooks, lock>>
      /\ Go(t, "loaded")
  BY DEF LoadLibrary, At
<1>2. PICK d \in Dlls : d = load[t].dll
  BY <1>1 DEF InjectInv, ThreadInv, TypeOK, HelperTypeOK, Threads
<1>3. refs' = [refs EXCEPT ![d] = @ + 1]
  BY <1>2 DEF LoadLibrary
<1>4. Advances(t) /\ load'[t].pc = "loaded" /\ load'[t].dll = d
  BY <1>1, <1>2, Goes DEF LoadPlaces
<1>5. \A u \in Threads : u # t => load'[u] = load[u]
  BY <1>4 DEF Advances
<1>6. (\A e : ~Loading(e)) /\ (\A e : ~Loading(e)') /\ attached[d]
  BY <1>1, <1>2 DEF Loading, InjectInv, CountInv
<1>7. refs' \in [Dlls -> Nat] /\ \A e \in Dlls : refs'[e] = IF e = d THEN refs[e] + 1 ELSE refs[e]
  BY <1>2, <1>3 DEF InjectInv, TypeOK, DllTypeOK
<1>8. ThreadInv'
  BY <1>1, <1>4, AdvancesThread
<1>9. ReportInv' /\ PainterInv' /\ HelperTypeOK'
  BY <1>1, <1>4, LoaderRest DEF others
<1>10. ShareTypeOK' /\ DllTypeOK'
  <2>1. Concerns(d) /\ ShareStays
    BY <1>1, <1>7, CopyTypes DEF Concerns, ShareStays, others, shared
  <2> QED
    BY <1>1, <1>4, <2>1, HolderTypes DEF InjectInv, TypeOK, DllTypeOK, others
<1>11. LockInv' /\ PlaceInv' /\ OldInv' /\ MutexInv'
  <2>1. "loaded" \notin InLoader /\ "want" \notin InLoader
    BY DEF InLoader, Starting, Stopping
  <2>2. LockInv'
    BY <1>1, <1>4, <1>5, <2>1 DEF InjectInv, LockInv
  <2>3. PlaceInv' /\ OldInv'
    BY <1>1 DEF InjectInv, PlaceInv, OldInv, AsDword, others
  <2>4. MutexInv'
    BY <1>1, <1>6 DEF InjectInv, MutexInv
  <2> QED
    BY <2>2, <2>3, <2>4
<1>12. CountInv'
  <2>1. \A e : Bringers(e)' = Bringers(e)
    BY DEF Bringers, injectVars
  <2>2. \A e : Arriving(e)' <= Arriving(e) + (IF e = d THEN 1 ELSE 0)
    BY <1>1, <1>4, <1>5 DEF Arriving
  <2>3. \A e : Arriving(e)' \in {0, 1} /\ Arriving(e) \in {0, 1}
    BY DEF Arriving
  <2>4. ASSUME NEW e \in Dlls, attached[e]
        PROVE  refs'[e] >= 1 + Cardinality(Bringers(e)) + Arriving(e)'
    <3>1. refs[e] >= 1 + Cardinality(Bringers(e)) + Arriving(e)
      BY <2>4 DEF InjectInv, CountInv
    <3>2. refs[e] \in Nat /\ Cardinality(Bringers(e)) \in Nat
      BY CopyTypes, BringersFinite
    <3> QED
      BY <1>7, <2>2, <2>3, <3>1, <3>2
  <2>5. \A u \in Threads : load'[u].pc = "loaded" => attached[load'[u].dll]
    BY <1>4, <1>5, <1>6 DEF InjectInv, CountInv
  <2>6. \A e \in Dlls : refs'[e] > 0 => attached[e]
    BY <1>6, <1>7 DEF InjectInv, CountInv
  <2> QED
    BY <1>1, <2>1, <2>4, <2>5, <2>6 DEF InjectInv, CountInv, injectVars
<1> QED
  BY <1>8, <1>9, <1>10, <1>11, <1>12 DEF InjectInv, TypeOK

\* LoadLibrary of a copy that is mapped for it.
LEMMA MappedStep ==
    ASSUME InjectInv, NEW t \in Threads, LoadLibrary(t), ~(refs[load[t].dll] > 0),
           UNCHANGED injectVars
    PROVE  InjectInv'
<1> USE Names
<1>1. /\ alive /\ load[t].pc = "want" /\ lock = Nobody /\ lock' = t
      /\ UNCHANGED <<others, shared, attached, mutex, lyric, old, hooks>>
      /\ Go(t, "isInjected")
  BY DEF LoadLibrary, At
<1>2. PICK d \in Dlls : d = load[t].dll
  BY <1>1 DEF InjectInv, ThreadInv, TypeOK, HelperTypeOK, Threads
<1>3. refs' = [refs EXCEPT ![d] = @ + 1] /\ ~(refs[d] > 0)
  BY <1>2 DEF LoadLibrary
<1>4. Advances(t) /\ load'[t].pc = "isInjected" /\ load'[t].dll = d
  BY <1>1, <1>2, Goes DEF LoadPlaces, InLoader, Starting
<1>5. \A u \in Threads : u # t => load'[u] = load[u]
  BY <1>4 DEF Advances
<1>6. refs' \in [Dlls -> Nat] /\ refs'[d] = 1 /\ \A e \in Dlls : e # d => refs'[e] = refs[e]
  BY <1>2, <1>3 DEF InjectInv, TypeOK, DllTypeOK
<1>7. (\A e : ~Loading(e)) /\ (\A e : Loading(e)' <=> e = d)
  BY <1>1, <1>4 DEF Loading
<1>8. ~attached[d]
  <2>1. refs[d] \in Nat /\ Cardinality(Bringers(d)) \in Nat /\ Arriving(d) \in {0, 1}
    BY CopyTypes, BringersFinite, ArrivingIs
  <2>2. attached[d] => refs[d] >= 1 + Cardinality(Bringers(d)) + Arriving(d)
    BY DEF InjectInv, CountInv
  <2> QED
    BY <1>3, <2>1, <2>2
<1>9. ~mutex[d] /\ \A i \in Functions : d \notin hooks[i]
  BY <1>7, <1>8 DEF InjectInv, MutexInv
<1>10. ThreadInv'
  BY <1>1, <1>4, AdvancesThread
<1>11. ReportInv' /\ PainterInv' /\ HelperTypeOK'
  BY <1>1, <1>4, LoaderRest DEF others
<1>12. ShareTypeOK' /\ DllTypeOK'
  <2>1. Concerns(d) /\ ShareStays
    BY <1>1, <1>6, CopyTypes DEF Concerns, ShareStays, others, shared
  <2> QED
    BY <1>1, <1>4, <2>1, HolderTypes DEF InjectInv, TypeOK, DllTypeOK, others
<1>13. LockInv'
  <2>1. "isInjected" \in InLoader
    BY DEF InLoader, Starting
  <2>2. \A u \in Threads : load[u].pc \notin InLoader
    BY <1>1 DEF InjectInv, LockInv
  <2> QED
    BY <1>1, <1>4, <1>5, <2>1, <2>2 DEF LockInv
<1>14. PlaceInv'
  <2>1. PlaceOK(t)'
    BY <1>1, <1>4, <1>6, <1>9 DEF PlaceOK, Store, Functions
  <2> QED
    BY <1>1, <2>1 DEF PlaceInv
<1>15. OldInv' /\ MutexInv'
  <2>1. OldInv'
    BY <1>1 DEF InjectInv, OldInv, AsDword, others
  <2>2. MutexInv'
    BY <1>1, <1>7, <1>8 DEF InjectInv, MutexInv
  <2> QED
    BY <2>1, <2>2
<1>16. CountInv'
  <2>1. \A e : Bringers(e)' = Bringers(e)
    BY DEF Bringers, injectVars
  <2>2. \A e : Arriving(e)' = Arriving(e)
    BY <1>1, <1>4, <1>5 DEF Arriving
  <2>3. \A u \in Threads : load'[u].pc = "loaded" => u # t /\ load'[u] = load[u]
    BY <1>4, <1>5
  <2> QED
    BY <1>1, <1>6, <1>7, <1>8, <2>1, <2>2, <2>3 DEF InjectInv, CountInv, injectVars
<1> QED
  BY <1>10, <1>11, <1>12, <1>13, <1>14, <1>15, <1>16 DEF InjectInv, TypeOK

LEMMA LoadsStep ==
    ASSUME InjectInv, NEW t \in Threads, Loads(t) PROVE InjectInv'
<1>1. UNCHANGED injectVars /\ LoaderStep(t)
  BY DEF Loads
<1>2. CASE ReadPath(t)
  BY <1>1, <1>2, ReadPathStep
<1>3. CASE LoadLibrary(t)
  BY <1>1, <1>3, CountedStep, MappedStep
<1>4. CASE IsInjected(t)
  BY <1>1, <1>4, IsInjectedStep
<1>5. CASE OpenFileMapping(t)
  BY <1>1, <1>5, OpenFileMappingStep
<1>6. CASE PinLibrary(t)
  BY <1>1, <1>6, PinLibraryStep
<1>7. CASE StartWorkThread(t)
  BY <1>1, <1>7, ThreadStartsStep, ThreadFailsStep DEF StartWorkThread
<1>8. CASE UnmapView(t)
  BY <1>1, <1>8, UnmapViewStep
<1>9. CASE ResetHookLyric(t)
  BY <1>1, <1>9, ResetHookLyricStep
<1>10. CASE Unload(t)
  BY <1>1, <1>10, UnloadStep
<1>11. CASE \E i \in Functions : HookFuncByName(t, i) \/ StoreOld(t, i) \/ UnHookFunc(t, i)
  BY <1>1, <1>11, HookFuncByNameStep, StoreOldStep, UnHookFuncStep
<1> QED
  BY <1>1, <1>2, <1>3, <1>4, <1>5, <1>6, <1>7, <1>8, <1>9, <1>10, <1>11 DEF LoaderStep

-----------------------------------------------------------------------------
(* Window hooks, and the thread that a helper creates.                     *)

LEMMA CreateRemoteThreadStep ==
    ASSUME InjectInv, NEW h \in Remote, CreateRemoteThread(h) PROVE InjectInv'
<1> USE Names
<1>1. /\ helper[h].pc = "started" /\ ~helper[h].safe /\ alive
      /\ helper' = [helper EXCEPT ![h].pc = "waiting"]
      /\ load' = [load EXCEPT ![h] = [Nothing EXCEPT !.pc = "read", !.dll = helper[h].dll]]
      /\ UNCHANGED <<shareVars, bits, alive, fault, lock, refs, attached, mutex, lyric,
                     old, hooks, painter, frame, last, env, winHooks, brought>>
  BY DEF CreateRemoteThread, AtHelper
<1>2. /\ helper' \in [Remote -> HelperType]
      /\ helper'[h].pc = "waiting"
      /\ helper'[h].safe = helper[h].safe /\ helper'[h].dll = helper[h].dll
      /\ helper'[h].ret = helper[h].ret
      /\ \A g \in Remote : g # h => helper'[g] = helper[g]
  BY <1>1 DEF InjectInv, TypeOK, HelperTypeOK, HelperType
<1>3. /\ helper[h].dll \in Dlls /\ load[h].pc = "none"
      /\ h \notin winHooks \cup brought
  BY <1>1 DEF InjectInv, ThreadInv
<1>4. PICK r : /\ r = [Nothing EXCEPT !.pc = "read", !.dll = helper[h].dll]
               /\ r \in LoadType /\ r.pc = "read" /\ r.dll = helper[h].dll
  <2> DEFINE rec == [Nothing EXCEPT !.pc = "read", !.dll = helper[h].dll]
  <2>1. rec \in LoadType /\ rec.pc = "read" /\ rec.dll = helper[h].dll
    BY <1>3 DEF Nothing, LoadType, LoadPlaces
  <2> QED
    BY <2>1
<1>5. /\ load \in [Threads -> LoadType] /\ load' = [load EXCEPT ![h] = r]
  BY <1>1, <1>4 DEF InjectInv, TypeOK, DllTypeOK
<1>6. /\ load' \in [Threads -> LoadType] /\ load'[h] = r
      /\ \A u \in Threads : u # h => load'[u] = load[u]
  BY <1>4, <1>5
<1>7. TypeOK'
  <2>1. ShareTypeOK' /\ DllTypeOK'
    BY <1>1, <1>6 DEF InjectInv, TypeOK, ShareTypeOK, DllTypeOK, shareVars
  <2>2. HelperTypeOK'
    BY <1>1, <1>2 DEF InjectInv, TypeOK, HelperTypeOK
  <2> QED
    BY <2>1, <2>2 DEF TypeOK
<1>8. LoaderInv'
  <2>1. DllsKept
    BY <1>2 DEF DllsKept
  <2> QED
    BY <1>1, <1>3, <1>4, <1>6, <2>1, OutsideStep DEF InLoader, Starting, Stopping
<1>9. ThreadInv'
  <2>1. \A g \in Remote : g # h => load'[g] = load[g]
    BY <1>6
  <2>2. load'[Ui] = load[Ui]
    BY <1>6
  <2>3. load[Ui].pc # "none" => load[Ui].by # h
    BY <1>1 DEF InjectInv, ThreadInv
  <2> QED
    BY <1>1, <1>2, <1>3, <1>4, <1>6, <2>1, <2>2, <2>3 DEF InjectInv, ThreadInv
<1>10. ReportInv'
  <2>1. ~(helper[h].ret = 0)
    BY <1>1 DEF InjectInv, ReportInv
  <2> QED
    BY <1>1, <1>2, <2>1 DEF InjectInv, ReportInv
<1>11. PainterInv'
  BY <1>1, <1>2 DEF PainterInv, OnlySafe
<1> QED
  BY <1>7, <1>8, <1>9, <1>10, <1>11 DEF InjectInv, LoaderInv

\* The painting thread of the process does something for user32: nothing that
\* it paints is under way.
LEMMA UiRest ==
    ASSUME InjectInv, UiFree \/ load[Ui].pc # "none",
           UNCHANGED <<shareVars, bits, alive, fault, painter, last, attached>>,
           UNCHANGED helper
    PROVE  ReportInv' /\ PainterInv'
<1>1. ReportInv'
  BY DEF InjectInv, ReportInv
<1>2. OnlySafe' => OnlySafe
  BY DEF OnlySafe
<1>3. OnlySafe /\ alive => painter.pc = "idle"
  BY DEF InjectInv, PainterInv, UiFree
<1> QED
  BY <1>1, <1>2, <1>3 DEF InjectInv, PainterInv

LEMMA HookLoadsStep ==
    ASSUME InjectInv, NEW h \in Remote, HookLoads(h) PROVE InjectInv'
<1> USE Names
<1>1. /\ UiFree /\ h \in winHooks \ brought
      /\ load' = [load EXCEPT ![Ui] =
                     [Nothing EXCEPT !.pc = "want", !.dll = helper[h].dll, !.by = h]]
      /\ UNCHANGED <<shareVars, bits, alive, fault, lock, refs, attached, mutex, lyric,
                     old, hooks, painter, frame, last, injectVars>>
  BY DEF HookLoads
<1>2. helper[h].pc \in {"poking", "exited"} /\ helper[h].dll \in Dlls
  BY <1>1 DEF InjectInv, ThreadInv
<1>3. PICK r : /\ r = [Nothing EXCEPT !.pc = "want", !.dll = helper[h].dll, !.by = h]
               /\ r \in LoadType /\ r.pc = "want" /\ r.dll = helper[h].dll /\ r.by = h
  <2> DEFINE rec == [Nothing EXCEPT !.pc = "want", !.dll = helper[h].dll, !.by = h]
  <2>1. rec \in LoadType /\ rec.pc = "want" /\ rec.dll = helper[h].dll /\ rec.by = h
    BY <1>2 DEF Nothing, LoadType, LoadPlaces
  <2> QED
    BY <2>1
<1>4. /\ load \in [Threads -> LoadType] /\ load' = [load EXCEPT ![Ui] = r]
  BY <1>1, <1>3 DEF InjectInv, TypeOK, DllTypeOK
<1>5. /\ load' \in [Threads -> LoadType] /\ load'[Ui] = r
      /\ \A u \in Threads : u # Ui => load'[u] = load[u]
  BY <1>3, <1>4
<1>6. TypeOK'
  <2>1. ShareTypeOK' /\ DllTypeOK' /\ HelperTypeOK'
    BY <1>1, <1>5
    DEF InjectInv, TypeOK, ShareTypeOK, DllTypeOK, HelperTypeOK, shareVars, injectVars
  <2> QED
    BY <2>1 DEF TypeOK
<1>7. LoaderInv'
  <2>1. DllsKept /\ UNCHANGED brought
    BY <1>1 DEF DllsKept, injectVars
  <2> QED
    BY <1>1, <1>3, <1>5, <2>1, OutsideStep DEF UiFree, InLoader, Starting, Stopping
<1>8. ThreadInv'
  <2>1. \A g \in Remote : load'[g] = load[g]
    BY <1>5
  <2>2. UNCHANGED <<helper, winHooks, brought>>
    BY <1>1 DEF injectVars
  <2> QED
    BY <1>1, <1>2, <1>3, <1>5, <2>1, <2>2 DEF InjectInv, ThreadInv
<1>9. ReportInv' /\ PainterInv'
  BY <1>1, UiRest DEF injectVars
<1> QED
  BY <1>6, <1>7, <1>8, <1>9 DEF InjectInv, LoaderInv

\* What an idle painting thread becomes when user32 is done.
LEMMA UiRests ==
    ASSUME InjectInv, load' = [load EXCEPT ![Ui] = Nothing]
    PROVE  /\ load' \in [Threads -> LoadType] /\ load'[Ui] = Nothing
           /\ load'[Ui].pc = "none" /\ load'[Ui].pc \notin InLoader \cup {"loaded"}
           /\ \A u \in Threads : u # Ui => load'[u] = load[u]
<1>1. /\ Nothing \in LoadType /\ Nothing.pc = "none"
      /\ "none" \notin InLoader \cup {"loaded"}
  BY DEF Nothing, LoadType, LoadPlaces, InLoader, Starting, Stopping
<1>2. load \in [Threads -> LoadType]
  BY DEF InjectInv, TypeOK, DllTypeOK
<1> QED
  BY Names, <1>1, <1>2

LEMMA HookLoadedStep ==
    ASSUME InjectInv, HookLoaded PROVE InjectInv'
<1> USE Names
<1>1. /\ alive /\ load[Ui].pc = "loaded"
      /\ brought' = brought \cup {load[Ui].by}
      /\ load' = [load EXCEPT ![Ui] = Nothing]
      /\ UNCHANGED <<shareVars, bits, alive, fault, lock, refs, attached, mutex, lyric,
                     old, hooks, painter, frame, last, env, helper, winHooks>>
  BY DEF HookLoaded, At
<1>2. PICK h \in Remote \ brought : h = load[Ui].by
  BY <1>1 DEF InjectInv, ThreadInv
<1>3. /\ helper[h].pc \in {"poking", "exited"} /\ helper[h].dll \in Dlls
      /\ load[Ui].dll = helper[h].dll /\ attached[helper[h].dll]
      /\ lock # Ui
  BY <1>1, <1>2
  DEF InjectInv, ThreadInv, CountInv, LockInv, InLoader, Starting, Stopping
<1>4. PICK d \in Dlls : d = helper[h].dll
  BY <1>3
<1>5. /\ load' \in [Threads -> LoadType] /\ load'[Ui].pc = "none"
      /\ load'[Ui].pc \notin InLoader \cup {"loaded"}
      /\ \A u \in Threads : u # Ui => load'[u] = load[u]
  BY <1>1, UiRests
<1>6. TypeOK'
  <2>1. ShareTypeOK' /\ DllTypeOK'
    BY <1>1, <1>5 DEF InjectInv, TypeOK, ShareTypeOK, DllTypeOK, shareVars
  <2>2. HelperTypeOK'
    BY <1>1, <1>2 DEF InjectInv, TypeOK, HelperTypeOK
  <2> QED
    BY <2>1, <2>2 DEF TypeOK
<1>7. \A e : Loading(e)' <=> Loading(e)
  BY <1>1, <1>3, <1>5 DEF Loading
<1>8. LockInv' /\ PlaceInv' /\ OldInv' /\ MutexInv'
  <2>1. LockInv'
    BY <1>1, <1>3, <1>5 DEF InjectInv, LockInv
  <2>2. PlaceInv'
    BY <1>1, <1>3, <1>5 DEF InjectInv, PlaceInv, PlaceOK
  <2>3. OldInv'
    BY <1>1, <1>3, <1>5 DEF InjectInv, OldInv, Storing, AsDword
  <2>4. MutexInv'
    BY <1>1, <1>7 DEF InjectInv, MutexInv
  <2> QED
    BY <2>1, <2>2, <2>3, <2>4
<1>9. ThreadInv'
  BY <1>1, <1>2, <1>3, <1>5 DEF InjectInv, ThreadInv
<1>10. CountInv'
  <2>1. \A e : e # d => Bringers(e)' = Bringers(e)
    BY <1>1, <1>2, <1>4 DEF Bringers
  <2>2. Bringers(d)' = Bringers(d) \cup {h} /\ h \notin Bringers(d)
    BY <1>1, <1>2, <1>4 DEF Bringers
  <2>3. Cardinality(Bringers(d)') = Cardinality(Bringers(d)) + 1
    BY <2>2, BringersFinite, FS_AddElement
  <2>4. Arriving(d) = 1 /\ Arriving(d)' = 0
    BY <1>1, <1>3, <1>4, <1>5 DEF Arriving
  <2>5. \A e : e # d => Arriving(e)' = Arriving(e)
    BY <1>1, <1>3, <1>4, <1>5 DEF Arriving
  <2>6. ASSUME NEW e \in Dlls, attached[e]
        PROVE  refs[e] >= 1 + Cardinality(Bringers(e)') + Arriving(e)'
    <3>1. refs[e] >= 1 + Cardinality(Bringers(e)) + Arriving(e)
      BY <2>6 DEF InjectInv, CountInv
    <3>2. CASE e # d
      BY <2>1, <2>5, <3>1, <3>2
    <3>3. CASE e = d
      <4>1. refs[d] \in Nat /\ Cardinality(Bringers(d)) \in Nat
        BY CopyTypes, BringersFinite
      <4> QED
        BY <2>3, <2>4, <3>1, <3>3, <4>1
    <3> QED
      BY <3>2, <3>3
  <2>7. \A u \in Threads : load'[u].pc = "loaded" => load'[u] = load[u]
    BY <1>5
  <2>8. \A g \in brought' : attached[helper[g].dll]
    BY <1>1, <1>2, <1>3 DEF InjectInv, CountInv
  <2> QED
    BY <1>1, <1>7, <2>6, <2>7, <2>8 DEF InjectInv, CountInv
<1>11. ReportInv' /\ PainterInv'
  BY <1>1, UiRest
<1> QED
  BY <1>6, <1>8, <1>9, <1>10, <1>11 DEF InjectInv

\* user32 gives back what it holds: the copy stays, for it is pinned.
LEMMA HookFreesHow ==
    ASSUME InjectInv, NEW h \in Remote, HookFrees(h)
    PROVE  /\ UiFree /\ h \in brought \ winHooks /\ lock = Nobody
           /\ helper[h].dll \in Dlls
           /\ refs[helper[h].dll] > 1
           /\ refs' = [refs EXCEPT ![helper[h].dll] = @ - 1]
           /\ load' = [load EXCEPT ![Ui] = Nothing]
           /\ brought' = brought \ {h}
           /\ UNCHANGED <<others, shared, lock, attached, mutex, lyric, old, hooks,
                          env, helper, winHooks>>
<1>1. UiFree /\ h \in brought \ winHooks /\ FreeLibrary(Ui, helper[h].dll)
  BY DEF HookFrees
<1>2. helper[h].dll \in Dlls /\ attached[helper[h].dll]
  BY <1>1 DEF InjectInv, ThreadInv, CountInv
<1>3. PICK d \in Dlls : d = helper[h].dll
  BY <1>2
<1>4. refs[d] > 1
  <2>1. h \in Bringers(d)
    BY <1>1, <1>3 DEF Bringers
  <2>2. Cardinality(Bringers(d)) \in Nat /\ Cardinality(Bringers(d)) >= 1
    BY <2>1, BringersFinite
  <2>3. refs[d] \in Nat /\ Arriving(d) \in {0, 1}
    BY CopyTypes, ArrivingIs
  <2>4. refs[d] >= 1 + Cardinality(Bringers(d)) + Arriving(d)
    BY <1>2, <1>3 DEF InjectInv, CountInv
  <2> QED
    BY <2>2, <2>3, <2>4
<1> QED
  BY <1>1, <1>2, <1>3, <1>4 DEF HookFrees, FreeLibrary

LEMMA HookFreesStep ==
    ASSUME InjectInv, NEW h \in Remote, HookFrees(h) PROVE InjectInv'
<1> USE Names
<1>1. /\ UiFree /\ h \in brought \ winHooks /\ lock = Nobody /\ lock' = Nobody
      /\ load' = [load EXCEPT ![Ui] = Nothing]
      /\ brought' = brought \ {h}
      /\ UNCHANGED <<others, shared, lock, attached, mutex, lyric, old, hooks,
                     env, helper, winHooks>>
  BY HookFreesHow
<1>2. PICK d \in Dlls : /\ d = helper[h].dll /\ refs[d] > 1
                        /\ refs' = [refs EXCEPT ![d] = @ - 1]
  BY HookFreesHow
<1>3. /\ refs' \in [Dlls -> Nat] /\ refs'[d] = refs[d] - 1
      /\ \A e \in Dlls : e # d => refs'[e] = refs[e]
  BY <1>2 DEF InjectInv, TypeOK, DllTypeOK
<1>4. /\ load' \in [Threads -> LoadType] /\ load'[Ui].pc = "none"
      /\ load'[Ui].pc \notin InLoader \cup {"loaded"}
      /\ \A u \in Threads : u # Ui => load'[u] = load[u]
  BY <1>1, UiRests
<1>5. load[Ui].pc = "none"
  BY <1>1 DEF UiFree
<1>6. (\A e : ~Loading(e)) /\ (\A e : ~Loading(e)')
  BY <1>1 DEF Loading
<1>7. TypeOK'
  <2>1. ShareTypeOK' /\ DllTypeOK'
    BY <1>1, <1>3, <1>4
    DEF InjectInv, TypeOK, ShareTypeOK, DllTypeOK, others, shared
  <2>2. HelperTypeOK'
    BY <1>1 DEF InjectInv, TypeOK, HelperTypeOK
  <2> QED
    BY <2>1, <2>2 DEF TypeOK
<1>8. LockInv' /\ PlaceInv' /\ OldInv' /\ MutexInv'
  <2>1. LockInv'
    BY <1>1, <1>4 DEF InjectInv, LockInv
  <2>2. PlaceInv'
    BY <1>1 DEF PlaceInv
  <2>3. OldInv'
    BY <1>1 DEF InjectInv, OldInv, AsDword, others
  <2>4. MutexInv'
    BY <1>1, <1>6 DEF InjectInv, MutexInv
  <2> QED
    BY <2>1, <2>2, <2>3, <2>4
<1>9. ThreadInv'
  BY <1>1, <1>4 DEF InjectInv, ThreadInv
<1>10. CountInv'
  <2>1. \A e : e # d => Bringers(e)' = Bringers(e)
    BY <1>1, <1>2 DEF Bringers
  <2>2. Bringers(d)' = Bringers(d) \ {h} /\ h \in Bringers(d)
    BY <1>1, <1>2 DEF Bringers
  <2>3. Cardinality(Bringers(d)') = Cardinality(Bringers(d)) - 1
    BY <2>2, BringersFinite, FS_RemoveElement
  <2>4. \A e : Arriving(e)' = Arriving(e)
    BY <1>4, <1>5 DEF Arriving
  <2>5. ASSUME NEW e \in Dlls, attached[e]
        PROVE  refs'[e] >= 1 + Cardinality(Bringers(e)') + Arriving(e)'
    <3>1. refs[e] >= 1 + Cardinality(Bringers(e)) + Arriving(e)
      BY <2>5 DEF InjectInv, CountInv
    <3>2. CASE e # d
      BY <1>3, <2>1, <2>4, <3>1, <3>2
    <3>3. CASE e = d
      <4>1. /\ refs[d] \in Nat /\ Cardinality(Bringers(d)) \in Nat
            /\ Arriving(d) \in {0, 1}
        BY CopyTypes, BringersFinite, ArrivingIs
      <4> QED
        BY <1>3, <2>3, <2>4, <3>1, <3>3, <4>1
    <3> QED
      BY <3>2, <3>3
  <2>6. \A u \in Threads : load'[u].pc = "loaded" => load'[u] = load[u]
    BY <1>4
  <2>7. \A e \in Dlls : refs'[e] > 0 => attached[e]
    <3>1. \A e \in Dlls : refs[e] > 0 => attached[e]
      BY <1>6 DEF InjectInv, CountInv
    <3>2. refs[d] > 0
      BY <1>2, CopyTypes
    <3> QED
      BY <1>3, <3>1, <3>2
  <2> QED
    BY <1>1, <2>5, <2>6, <2>7 DEF InjectInv, CountInv
<1>11. ReportInv' /\ PainterInv'
  <2>1. ReportInv'
    BY <1>1 DEF InjectInv, ReportInv, others
  <2>2. OnlySafe' => OnlySafe
    BY <1>1 DEF OnlySafe, others
  <2> QED
    BY <1>1, <2>1, <2>2 DEF InjectInv, PainterInv, others, UiFree
<1> QED
  BY <1>7, <1>8, <1>9, <1>10, <1>11 DEF InjectInv

-----------------------------------------------------------------------------
(* Every step.                                                             *)

\* Every step keeps the invariant.
LEMMA InjectStep == InjectInv /\ [Next]_vars => InjectInv'
<1> SUFFICES ASSUME InjectInv, [Next]_vars PROVE InjectInv'
    OBVIOUS
<1>1. CASE \E h \in Remote : InjectTarget(h)
  BY <1>1, CallerStep
<1>2. CASE \E h \in Remote : HelperStep(h)
  <2>1. PICK h \in Remote : HelperStep(h)
    BY <1>2
  <2>2. CASE CreateRemoteThread(h)
    BY <2>2, CreateRemoteThreadStep
  <2>3. CASE ~CreateRemoteThread(h)
    <3>1. Asks(h)
      BY <2>1, <2>3 DEF HelperStep, Asks
    <3>2. helper[h].pc # "none"
      BY <2>1 DEF HelperStep, AtHelper, OpenProcessFails, InjectFails, CreateRemoteThread,
                  ThreadEnds, WaitTimesOut, NoLibrary, SetWindowsHookEx, PokesEnd
    <3> QED
      BY <3>1, <3>2, AsksStep
  <2> QED
    BY <2>2, <2>3
<1>3. CASE \E h \in Remote : HookLoads(h) \/ HookFrees(h)
  BY <1>3, HookLoadsStep, HookFreesStep
<1>4. CASE HookLoaded
  BY <1>4, HookLoadedStep
<1>5. CASE \E t \in Threads : Loads(t)
  BY <1>5, LoadsStep
<1>6. CASE \E i \in Functions : UpdateLayeredWindow(i) /\ UNCHANGED injectVars
  BY <1>6, UpdateStepInv
<1>7. CASE PainterStep
  BY <1>7, DetourStepInv
<1>8. CASE ViewerStep
  BY <1>8, ViewerStepInv
<1>9. CASE Ends /\ UNCHANGED injectVars
  BY <1>9, DiesStep DEF Ends
<1>10. CASE UNCHANGED vars
  <2>1. UNCHANGED <<shareVars, dllVars, injectVars>>
    BY <1>10 DEF vars, injectVars
  <2>2. LoaderInv' /\ ThreadInv' /\ HelperTypeOK'
    BY <2>1, NotLoader DEF dllVars, loaderVars
  <2>3. ShareTypeOK' /\ DllTypeOK' /\ ReportInv' /\ PainterInv'
    BY <2>1 DEF InjectInv, TypeOK, ShareTypeOK, DllTypeOK, ReportInv, PainterInv, OnlySafe,
                shareVars, dllVars, injectVars
  <2> QED
    BY <2>2, <2>3 DEF InjectInv, LoaderInv, TypeOK
<1> QED
  BY <1>1, <1>2, <1>3, <1>4, <1>5, <1>6, <1>7, <1>8, <1>9, <1>10 DEF Next

LEMMA InjectInvariant == Spec => []InjectInv
BY InitInject, InjectStep, PTL DEF Spec

-----------------------------------------------------------------------------
(* What a copy that is attached knows of its hooks.                        *)

\* The places of DllMain after the pointer of a function is stored.
Behind(i) == IF i = 1 THEN {"hook2", "store2", "pin", "thread"} ELSE {"pin", "thread"}

\* HookFuncByName has returned, and its pointer tells whether the hook is made.
ToStore(t, i) ==
    /\ load[t].pointer \in {"trampoline", "function"}
    /\ load[t].pointer = "trampoline" => load[t].dll \in hooks[i]
StoredBy(t) ==
    \A i \in Functions :
        /\ load[t].pc \in Behind(i) => KnowsHook(load[t].dll, i)
        /\ load[t].pc = Store[i] => ToStore(t, i)
StoredInv ==
    /\ \A t \in Threads : StoredBy(t)
    /\ \A d \in Dlls : attached[d] => \A i \in Functions : KnowsHook(d, i)

\* A step that no pointer and no hook takes part in keeps it, where the threads
\* that it moves are not between their calls of HookFuncByName.
Between == {"store1", "hook2", "store2", "pin", "thread"}
LEMMA StoredQuiet ==
    ASSUME StoredInv, UNCHANGED <<bits, old, hooks>>,
           \A d \in Dlls : attached'[d] => attached[d],
           \A t \in Threads : load'[t] = load[t] \/ load'[t].pc \notin Between
    PROVE  StoredInv'
<1>1. ASSUME NEW t \in Threads PROVE StoredBy(t)'
  <2>1. CASE load'[t] = load[t]
    BY <2>1 DEF StoredInv, StoredBy, ToStore, KnowsHook
  <2>2. CASE load'[t].pc \notin Between
    BY <2>2 DEF StoredBy, Behind, Between, Store, Functions
  <2> QED
    BY <2>1, <2>2
<1> QED
  BY <1>1 DEF StoredInv, KnowsHook

\* A step of DllMain is about its own copy, which is not attached yet.
LEMMA StoredHolder ==
    ASSUME InjectInv, StoredInv, NEW t \in Threads, lock = t, bits' = bits, Advances(t),
           NEW d \in Dlls, d = load[t].dll,
           \A e \in Dlls : e # d =>
               /\ old'[e] = old[e] /\ (attached'[e] => attached[e])
               /\ \A i \in Functions : e \in hooks'[i] <=> e \in hooks[i],
           StoredBy(t)',
           attached'[d] => \A i \in Functions : KnowsHook(d, i)'
    PROVE  StoredInv'
<1>1. \A e \in Dlls : e # d =>
          \A i \in Functions : KnowsHook(e, i) => KnowsHook(e, i)'
  BY DEF KnowsHook
<1>2. ASSUME NEW u \in Threads, u # t PROVE StoredBy(u)'
  <2>1. load'[u] = load[u] /\ load[u].pc \notin InLoader
    BY <1>2, HolderFacts DEF Advances
  <2> QED
    BY <2>1 DEF StoredBy, Behind, Store, Functions, InLoader, Starting
<1>3. ASSUME NEW e \in Dlls, attached'[e], NEW i \in Functions PROVE KnowsHook(e, i)'
  <2>1. CASE e = d
    BY <1>3, <2>1
  <2>2. CASE e # d
    BY <1>1, <1>3, <2>2 DEF StoredInv
  <2> QED
    BY <2>1, <2>2
<1> QED
  BY <1>2, <1>3 DEF StoredInv

\* HookFuncByName: a hook is made exactly where a trampoline is to be stored.
LEMMA StoredHook ==
    ASSUME InjectInv, StoredInv, NEW t \in Threads, NEW i \in Functions,
           HookFuncByName(t, i), UNCHANGED injectVars
    PROVE  StoredInv'
<1>1. Hook[i] \in InLoader /\ Store[i] \in LoadPlaces
  BY DEF Hook, Store, Functions, InLoader, Starting, LoadPlaces
<1>2. lock = t /\ load[t].pc = Hook[i] /\ load[t].dll \in Dlls
  BY <1>1, HoldsLock DEF HookFuncByName
<1>d. PICK d \in Dlls : d = load[t].dll
  BY <1>2
<1>3. UNCHANGED <<bits, old, attached>>
  BY DEF HookFuncByName, others
<1>4. PICK pointer \in {"trampoline", "function"} :
          /\ Advances(t) /\ load'[t].pc = Store[i] /\ load'[t].dll = d
          /\ load'[t].pointer = pointer
          /\ hooks' = IF pointer = "trampoline" THEN [hooks EXCEPT ![i] = @ \cup {d}]
                      ELSE hooks
  <2>1. CASE /\ hooks' = [hooks EXCEPT ![i] = @ \cup {load[t].dll}]
             /\ load' = [load EXCEPT ![t].pc = Store[i], ![t].pointer = "trampoline"]
    BY <1>1, <1>d, <2>1, CopyTypes, HookGoes
  <2>2. ASSUME NEW told \in BOOLEAN, hooks' = hooks,
               load' = [load EXCEPT ![t].pc = Store[i], ![t].pointer = "function",
                                    ![t].success = @ /\ told]
        PROVE  Advances(t) /\ load'[t].pc = Store[i] /\ load'[t].dll = d
               /\ load'[t].pointer = "function"
    BY <1>1, <1>d, <2>2, CopyTypes, HookGoesOn
  <2> QED
    BY <2>1, <2>2 DEF HookFuncByName
<1>5. \A e \in Dlls : e # d => \A j \in Functions : e \in hooks'[j] <=> e \in hooks[j]
  BY <1>4, CopyTypes
<1>6. \A j \in Functions : j # i => hooks'[j] = hooks[j]
  BY <1>4, CopyTypes
<1>7. StoredBy(t)'
  <2>1. ASSUME NEW j \in Functions, load'[t].pc \in Behind(j)
        PROVE  KnowsHook(d, j)'
    <3>1. i = 2 /\ j = 1
      BY <1>4, <2>1 DEF Behind, Store, Functions
    <3>2. KnowsHook(d, j)
      BY <1>2, <1>d, <3>1 DEF StoredInv, StoredBy, Behind, Hook
    <3> QED
      BY <1>3, <1>6, <3>1, <3>2 DEF KnowsHook
  <2>2. ASSUME NEW j \in Functions, load'[t].pc = Store[j] PROVE ToStore(t, j)'
    <3>1. j = i
      BY <1>4, <2>2 DEF Store, Functions
    <3>2. pointer = "trampoline" => d \in hooks'[i]
      BY <1>4, CopyTypes
    <3> QED
      BY <1>4, <3>1, <3>2 DEF ToStore
  <2> QED
    BY <1>4, <2>1, <2>2 DEF StoredBy
<1>8. ~attached[d]
  BY <1>2, <1>d, HolderFacts
<1> QED
  BY <1>2, <1>d, <1>3, <1>4, <1>5, <1>7, <1>8, StoredHolder

\* "*(DWORD*)oldFuncAddr": the pointer stored tells of the hook, in 32 bits.
LEMMA StoredOld ==
    ASSUME InjectInv, StoredInv, NEW t \in Threads, NEW i \in Functions,
           StoreOld(t, i), UNCHANGED injectVars
    PROVE  StoredInv'
<1> DEFINE place == IF i = 1 THEN "hook2" ELSE AfterInit(t)
<1>1. Store[i] \in InLoader /\ place \in LoadPlaces
  BY DEF Store, Functions, InLoader, Starting, Stopping, LoadPlaces, AfterInit
<1>2. lock = t /\ load[t].pc = Store[i] /\ load[t].dll \in Dlls /\ PlaceOK(t)
  BY <1>1, HoldsLock DEF StoreOld
<1>d. PICK d \in Dlls : d = load[t].dll
  BY <1>2
<1>3. UNCHANGED <<bits, hooks, attached>>
  BY DEF StoreOld, others
<1>4. Advances(t) /\ load'[t].pc = place /\ load'[t].dll = d
  BY <1>1, <1>d, Goes DEF StoreOld
<1>5. old' = [old EXCEPT ![d][i] = AsDword(load[t].pointer)]
  BY <1>d DEF StoreOld
<1>6. /\ \A e \in Dlls : e # d => old'[e] = old[e]
      /\ \A j \in Functions : j # i => old'[d][j] = old[d][j]
      /\ old'[d][i] = AsDword(load[t].pointer)
  BY <1>2, <1>5, CopyTypes
<1>7. KnowsHook(d, i)'
  <2>1. ToStore(t, i)
    BY <1>2 DEF StoredInv, StoredBy
  <2>2. load[t].pointer # "trampoline" => d \notin hooks[i]
    BY <1>2, <1>d DEF PlaceOK
  <2> QED
    BY <1>d, <1>3, <1>6, <2>1, <2>2, CopyTypes DEF ToStore, KnowsHook, AsDword
<1>8. StoredBy(t)'
  <2>1. ASSUME NEW j \in Functions, load'[t].pc \in Behind(j) PROVE KnowsHook(d, j)'
    <3>1. CASE j = i
      BY <1>7, <3>1
    <3>2. CASE j # i
      <4>1. j = 1 /\ i = 2
        BY <1>4, <2>1, <3>2 DEF Behind, Functions
      <4>2. KnowsHook(d, j)
        BY <1>2, <1>d, <4>1 DEF StoredInv, StoredBy, Behind, Store
      <4> QED
        BY <1>3, <1>6, <3>2, <4>2 DEF KnowsHook
    <3> QED
      BY <3>1, <3>2
  <2>2. \A j \in Functions : load'[t].pc # Store[j]
    BY <1>4 DEF Store, Functions, AfterInit
  <2> QED
    BY <1>4, <2>1, <2>2 DEF StoredBy
<1>9. ~attached[d]
  BY <1>2, <1>d, HolderFacts
<1> QED
  BY <1>2, <1>d, <1>3, <1>4, <1>6, <1>8, <1>9, StoredHolder

\* PinLibrary goes on with both pointers stored, StartWorkThread attaches it.
LEMMA StoredPin ==
    ASSUME InjectInv, StoredInv, NEW t \in Threads, PinLibrary(t), UNCHANGED injectVars
    PROVE  StoredInv'
<1>1. "pin" \in InLoader /\ "thread" \in LoadPlaces
  BY DEF InLoader, Starting, LoadPlaces
<1>2. lock = t /\ load[t].dll \in Dlls /\ load[t].pc = "pin"
  BY <1>1, HoldsLock DEF PinLibrary
<1>d. PICK d \in Dlls : d = load[t].dll
  BY <1>2
<1>3. UNCHANGED <<bits, old, hooks, attached>>
  BY DEF PinLibrary, others
<1>4. Advances(t) /\ load'[t].pc = "thread" /\ load'[t].dll = d
  BY <1>1, <1>d, Goes DEF PinLibrary
<1>5. \A i \in Functions : KnowsHook(d, i) /\ KnowsHook(d, i)'
  BY <1>2, <1>d, <1>3 DEF KnowsHook, StoredInv, StoredBy, Behind
<1>6. StoredBy(t)'
  BY <1>3, <1>4, <1>5 DEF StoredBy, KnowsHook, Store, Functions
<1> QED
  BY <1>2, <1>d, <1>3, <1>4, <1>5, <1>6, StoredHolder
LEMMA StoredStart ==
    ASSUME InjectInv, StoredInv, NEW t \in Threads, StartWorkThread(t), UNCHANGED injectVars
    PROVE  StoredInv'
<1>1. "thread" \in InLoader /\ "loaded" \in LoadPlaces /\ "unmap" \in LoadPlaces
  BY DEF InLoader, Starting, Stopping, LoadPlaces
<1>2. lock = t /\ load[t].dll \in Dlls /\ load[t].pc = "thread"
  BY <1>1, HoldsLock DEF StartWorkThread
<1>d. PICK d \in Dlls : d = load[t].dll
  BY <1>2
<1>3. UNCHANGED <<bits, old, hooks>>
  BY DEF StartWorkThread, others
<1>4. Advances(t) /\ load'[t].pc \in {"loaded", "unmap"} /\ load'[t].dll = d
  BY <1>1, <1>d, Goes DEF StartWorkThread
<1>5. \A i \in Functions : KnowsHook(d, i) /\ KnowsHook(d, i)'
  BY <1>2, <1>d, <1>3 DEF KnowsHook, StoredInv, StoredBy, Behind
<1>6. StoredBy(t)'
  BY <1>4 DEF StoredBy, Behind, Store, Functions
<1>7. \A e \in Dlls : e # d => attached'[e] = attached[e]
  BY <1>d DEF StartWorkThread, InjectInv, TypeOK, DllTypeOK
<1> QED
  BY <1>2, <1>d, <1>3, <1>4, <1>5, <1>6, <1>7, StoredHolder

\* UnHookFunc and ResetHookLyric, of a copy that is not attached.
LEMMA StoredUndone ==
    ASSUME InjectInv, StoredInv, NEW t \in Threads, UNCHANGED injectVars,
           ResetHookLyric(t) \/ \E i \in Functions : UnHookFunc(t, i)
    PROVE  StoredInv'
<1> DEFINE d == load[t].dll
<1>1. CASE ResetHookLyric(t)
  <2>1. "reset" \in InLoader /\ "unload" \in LoadPlaces
    BY DEF InLoader, Stopping, LoadPlaces
  <2>2. lock = t /\ d \in Dlls
    BY <1>1, <2>1, HoldsLock DEF ResetHookLyric
  <2>3. UNCHANGED <<bits, hooks, attached>>
    BY <1>1 DEF ResetHookLyric, others
  <2>4. Advances(t) /\ load'[t].pc = "unload"
    BY <1>1, <2>1, Goes DEF ResetHookLyric
  <2>5. \A e \in Dlls : e # d => old'[e] = old[e]
    BY <1>1, CopyTypes DEF ResetHookLyric
  <2>6. StoredBy(t)'
    BY <2>4 DEF StoredBy, Behind, Store, Functions
  <2>7. ~attached[d]
    BY <2>2, HolderFacts
  <2> QED
    BY <2>2, <2>3, <2>4, <2>5, <2>6, <2>7, StoredHolder
<1>2. ASSUME NEW i \in Functions, UnHookFunc(t, i) PROVE StoredInv'
  <2> DEFINE place == IF i = 1 THEN "unhook2" ELSE "reset"
  <2>1. Unhook[i] \in InLoader /\ place \in LoadPlaces
    BY DEF Unhook, Functions, InLoader, Stopping, LoadPlaces
  <2>2. lock = t /\ d \in Dlls
    BY <1>2, <2>1, HoldsLock DEF UnHookFunc
  <2>3. CASE Dies("unhook")
    BY <2>3, StoredQuiet DEF Dies
  <2>4. CASE ~Dies("unhook")
    <3>1. UNCHANGED <<bits, old, attached>> /\ Go(t, place)
          /\ (hooks' = Unhooked(i, d) \/ hooks' = hooks)
      BY <1>2, <2>4 DEF UnHookFunc, others
    <3>2. Advances(t) /\ load'[t].pc = place
      BY <2>1, <3>1, Goes
    <3>3. \A e \in Dlls : e # d => \A j \in Functions : e \in hooks'[j] <=> e \in hooks[j]
      BY <3>1, CopyTypes DEF Unhooked, Removed
    <3>4. StoredBy(t)'
      BY <3>2 DEF StoredBy, Behind, Store, Functions
    <3>5. ~attached[d]
      BY <2>2, HolderFacts
    <3> QED
      BY <2>2, <3>1, <3>2, <3>3, <3>4, <3>5, StoredHolder
  <2> QED
    BY <2>3, <2>4
<1> QED
  BY <1>1, <1>2

\* The steps of the loader that leave pointers and hooks alone.
LEMMA StoredLoads ==
    ASSUME InjectInv, StoredInv, NEW t \in Threads, Loads(t) PROVE StoredInv'
<1>1. LoaderStep(t) /\ UNCHANGED injectVars
  BY DEF Loads
<1>2. CASE \/ ReadPath(t) \/ LoadLibrary(t) \/ IsInjected(t) \/ OpenFileMapping(t)
           \/ UnmapView(t) \/ Unload(t)
  <2>1. UNCHANGED <<bits, old, hooks>> /\ \A d \in Dlls : attached'[d] => attached[d]
    BY <1>2 DEF ReadPath, LoadLibrary, IsInjected, OpenFileMapping, UnmapView, Unload, others,
                InjectInv, TypeOK, DllTypeOK
  <2>2. PICK r : load' = [load EXCEPT ![t] = r] /\ (r.pc \notin Between)
    <3>1. \A p \in {"want", "loaded", "isInjected", "unload", "map", "unhook1", "none", "failed"} :
              [load[t] EXCEPT !.pc = p].pc = p /\ p \notin Between
      BY CopyTypes DEF LoadType, Between
    <3>2. [load[t] EXCEPT !.pc = "hook1", !.success = TRUE].pc \notin Between
      BY CopyTypes DEF LoadType, Between
    <3>3. CASE OpenFileMapping(t)
      BY <3>2, <3>3 DEF OpenFileMapping
    <3>4. CASE ~OpenFileMapping(t)
      <4>1. PICK p \in {"want", "loaded", "isInjected", "unload", "map", "unhook1",
                        "none", "failed"} : Go(t, p)
        BY <1>2, <3>4 DEF ReadPath, LoadLibrary, IsInjected, UnmapView, Unload
      <4> QED
        BY <3>1, <4>1 DEF Go
    <3> QED
      BY <3>3, <3>4
  <2>3. \A u \in Threads : load'[u] = load[u] \/ load'[u].pc \notin Between
    BY <2>2, CopyTypes
  <2> QED
    BY <2>1, <2>3, StoredQuiet
<1>3. CASE PinLibrary(t) \/ StartWorkThread(t)
  BY <1>1, <1>3, StoredPin, StoredStart
<1>4. CASE ResetHookLyric(t) \/ \E i \in Functions : UnHookFunc(t, i)
  BY <1>1, <1>4, StoredUndone
<1>5. CASE \E i \in Functions : HookFuncByName(t, i) \/ StoreOld(t, i)
  BY <1>1, <1>5, StoredHook, StoredOld
<1> QED
  BY <1>1, <1>2, <1>3, <1>4, <1>5 DEF LoaderStep

\* Everything else that changes a thread of the loader starts or ends a load.
LEMMA StoredStep == InjectInv /\ StoredInv /\ [Next]_vars => StoredInv'
<1> SUFFICES ASSUME InjectInv, StoredInv, [Next]_vars PROVE StoredInv'
    OBVIOUS
<1>1. CASE \E t \in Threads : Loads(t)
  BY <1>1, StoredLoads
<1>2. CASE \E h \in Remote : CreateRemoteThread(h) \/ HookLoads(h) \/ HookFrees(h)
  <2>1. UNCHANGED <<bits, old, hooks, attached>>
    BY <1>2, HookFreesHow DEF CreateRemoteThread, HookLoads, others
  <2>2. PICK h \in Remote : CreateRemoteThread(h) \/ HookLoads(h) \/ HookFrees(h)
    BY <1>2
  <2>3. /\ Nothing.pc \notin Between
        /\ \A d : [Nothing EXCEPT !.pc = "read", !.dll = d].pc \notin Between
        /\ \A d, e : [Nothing EXCEPT !.pc = "want", !.dll = d, !.by = e].pc \notin Between
    BY DEF Nothing, Between
  <2>4. PICK t, r : load' = [load EXCEPT ![t] = r] /\ r.pc \notin Between
    <3>1. CASE CreateRemoteThread(h)
      BY <2>3, <3>1 DEF CreateRemoteThread
    <3>2. CASE HookLoads(h)
      BY <2>3, <3>2 DEF HookLoads
    <3>3. CASE HookFrees(h)
      BY <2>3, <3>3, HookFreesHow
    <3> QED
      BY <2>2, <3>1, <3>2, <3>3
  <2>5. \A u \in Threads : load'[u] = load[u] \/ load'[u].pc \notin Between
    BY <2>4, CopyTypes
  <2> QED
    BY <2>1, <2>5, StoredQuiet
<1>3. CASE HookLoaded
  BY <1>3, StoredQuiet, CopyTypes DEF HookLoaded, Nothing, Between
<1>4. CASE UNCHANGED <<bits, old, hooks, attached, load>>
  BY <1>4, StoredQuiet
<1>5. CASE \E h \in Remote : InjectTarget(h) \/ (HelperStep(h) /\ ~CreateRemoteThread(h))
  <2>1. UNCHANGED <<bits, old, hooks, attached, load>>
    BY <1>5 DEF InjectTarget, HelperStep, OpenProcessFails, InjectFails, ThreadEnds,
                WaitTimesOut, NoLibrary, SetWindowsHookEx, PokesEnd, dllVars
  <2> QED
    BY <1>4, <2>1
<1>6. CASE \E i \in Functions : UpdateLayeredWindow(i) /\ UNCHANGED injectVars
  BY <1>4, <1>6 DEF UpdateLayeredWindow, unpainted
<1>7. CASE PainterStep
  <2>1. UNCHANGED <<bits, old, hooks, attached, load>>
    BY <1>7 DEF PainterStep, DetourStep, HookUpdateLayeredWindow, CapturePixels,
                CaptureHeader, CallOld, PainterFaults, Dies, unpainted
  <2> QED
    BY <1>4, <2>1
<1>8. CASE ViewerStep \/ (Ends /\ UNCHANGED injectVars) \/ UNCHANGED vars
  BY <1>4, <1>8 DEF ViewerStep, Ends, Dies, vars, dllVars
<1> QED
  BY <1>1, <1>2, <1>3, <1>5, <1>6, <1>7, <1>8 DEF Next

-----------------------------------------------------------------------------
(* The theorems.                                                           *)

\* A helper that waited for its thread and returned 0 tells the truth: the DLL
\* is attached with its hook_lyric, or the process is gone.  It does not tell
\* that the hooks are made: HookFuncByName may return TRUE with none.  But in 32
\* bits each pointer that DllMain stored tells whether its hook is: a trampoline
\* where it is, the function itself where it is not (inject_library_full, the
\* DllMain of hookLyric and HookFuncByName).
THEOREM ReportsAreTrue == Spec => []ReportsTruth
<1>1. Init => StoredInv
  BY DEF Init, DllInit, StoredInv, StoredBy, Behind, Store, Functions, Nothing
<1>2. InjectInv /\ StoredInv => ReportsTruth
  <2> SUFFICES ASSUME InjectInv, StoredInv,
                      NEW h \in Remote, ~helper[h].safe, helper[h].ret = 0, alive
               PROVE  /\ attached[helper[h].dll] /\ lyric[helper[h].dll]
                      /\ \A i \in Functions : KnowsHook(helper[h].dll, i)
    BY DEF ReportsTruth
  <2>1. helper[h].pc = "exited" /\ attached[helper[h].dll]
    BY DEF InjectInv, ReportInv
  <2>2. helper[h].dll \in Dlls
    BY <2>1 DEF InjectInv, ThreadInv
  <2> QED
    BY <2>1, <2>2 DEF InjectInv, MutexInv, StoredInv
<1>3. Spec => []StoredInv
  BY <1>1, StoredStep, InjectInvariant, PTL DEF Spec
<1> QED
  BY <1>2, <1>3, InjectInvariant, PTL

\* One copy of the DLL at most has its detours in place, and it is in memory
\* as long as it has, however many helpers bring however many copies (IsInjected
\* and the mutex that CreateMutex names after the process).
THEOREM OneCopyHooks == Spec => []HookedOnce
<1>1. InjectInv => HookedOnce
  <2> SUFFICES ASSUME InjectInv
               PROVE  /\ Cardinality(UNION {hooks[i] : i \in Functions}) <= 1
                      /\ \A i \in Functions : \A d \in hooks[i] : refs[d] > 0
    BY DEF HookedOnce
  <2>1. \A i \in Functions : hooks[i] \subseteq Dlls /\ \A d \in hooks[i] : mutex[d]
    BY DEF InjectInv, TypeOK, DllTypeOK, MutexInv
  <2>2. Cardinality(UNION {hooks[i] : i \in Functions}) <= 1
    <3> DEFINE hooked == UNION {hooks[i] : i \in Functions}
    <3>1. \A d, e \in hooked : d = e
      BY <2>1 DEF InjectInv, MutexInv
    <3> HIDE DEF hooked
    <3>2. Cardinality(hooked) <= 1
      <4>1. CASE hooked = {}
        BY <4>1, FS_EmptySet
      <4>2. CASE hooked # {}
        <5>1. PICK d : hooked = {d}
          BY <3>1, <4>2
        <5> QED
          BY <5>1, FS_Singleton
      <4> QED
        BY <4>1, <4>2
    <3> QED
      BY <3>2 DEF hooked
  <2>3. ASSUME NEW i \in Functions, NEW d \in hooks[i] PROVE refs[d] > 0
    <3>1. d \in Dlls /\ mutex[d]
      BY <2>1
    <3>2. refs[d] \in Nat /\ Cardinality(Bringers(d)) \in Nat /\ Arriving(d) \in {0, 1}
      BY <3>1, CopyTypes, BringersFinite, ArrivingIs
    <3>3. CASE attached[d]
      <4>1. refs[d] >= 1 + Cardinality(Bringers(d)) + Arriving(d)
        BY <3>1, <3>3 DEF InjectInv, CountInv
      <4> QED
        BY <3>2, <4>1
    <3>4. CASE Loading(d)
      <4>1. refs[d] >= 1
        BY <3>4 DEF Loading, InjectInv, PlaceInv, PlaceOK
      <4> QED
        BY <3>2, <4>1
    <3> QED
      BY <3>1, <3>3, <3>4 DEF InjectInv, MutexInv
  <2> QED
    BY <2>2, <2>3
<1> QED
  BY <1>1, InjectInvariant, PTL

\* Where window hooks alone bring the DLL, a 32-bit process never paints
\* through half of a hook: all of DllMain runs on the thread that paints
\* (inject_library_safe_obf).
THEOREM SafeInjectionStaysSafe == Spec => []SafeInjectionIsSafe
<1>1. InjectInv => SafeInjectionIsSafe
  BY DEF InjectInv, PainterInv, OnlySafe, SafeInjectionIsSafe
<1> QED
  BY <1>1, InjectInvariant, PTL

\* The only step that clears "attached" is the end of a DllMain that did not
\* succeed, whose copy was not attached; user32 never takes the last count.
LEMMA StaysAttached ==
    ASSUME InjectInv, [Next]_vars, NEW d \in Dlls, attached[d] PROVE attached'[d]
<1> USE DEF injectVars
<1>1. CASE \E h \in Remote : InjectTarget(h)
  BY <1>1 DEF InjectTarget, dllVars
<1>2. CASE \E h \in Remote : HelperStep(h)
  BY <1>2 DEF HelperStep, OpenProcessFails, InjectFails, CreateRemoteThread, ThreadEnds,
              WaitTimesOut, NoLibrary, SetWindowsHookEx, PokesEnd, dllVars
<1>3. CASE \E h \in Remote : HookLoads(h) \/ HookFrees(h)
  BY <1>3, HookFreesHow DEF HookLoads
<1>4. CASE HookLoaded
  BY <1>4 DEF HookLoaded
<1>5. CASE \E t \in Threads : Loads(t)
  <2>1. PICK t \in Threads : LoaderStep(t)
    BY <1>5 DEF Loads
  <2>2. CASE Unload(t)
    <3>1. load[t].pc = "unload" /\ attached' = [attached EXCEPT ![load[t].dll] = FALSE]
      BY <2>2 DEF Unload, At
    <3>2. lock = t
      BY <3>1 DEF InjectInv, LockInv, InLoader, Stopping
    <3>3. load[t].dll # d
      BY <3>2, HolderFacts
    <3> QED
      BY <3>1, <3>3 DEF InjectInv, TypeOK, DllTypeOK
  <2>3. CASE StartWorkThread(t)
    <3>1. \/ attached' = [attached EXCEPT ![load[t].dll] = TRUE]
          \/ UNCHANGED attached
      BY <2>3 DEF StartWorkThread
    <3> QED
      BY <3>1 DEF InjectInv, TypeOK, DllTypeOK
  <2>4. CASE \/ ReadPath(t) \/ LoadLibrary(t) \/ IsInjected(t) \/ OpenFileMapping(t)
             \/ PinLibrary(t) \/ UnmapView(t) \/ ResetHookLyric(t)
    BY <2>4 DEF ReadPath, LoadLibrary, IsInjected, OpenFileMapping, PinLibrary, UnmapView,
                ResetHookLyric
  <2>5. CASE \E i \in Functions : HookFuncByName(t, i) \/ StoreOld(t, i) \/ UnHookFunc(t, i)
    BY <2>5 DEF HookFuncByName, StoreOld, UnHookFunc, Dies
  <2> QED
    BY <2>1, <2>2, <2>3, <2>4, <2>5 DEF LoaderStep
<1>6. CASE \E i \in Functions : UpdateLayeredWindow(i) /\ UNCHANGED injectVars
  BY <1>6 DEF UpdateLayeredWindow, unpainted
<1>7. CASE PainterStep
  BY <1>7 DEF PainterStep, DetourStep, HookUpdateLayeredWindow, CapturePixels, CaptureHeader,
              CallOld, PainterFaults, Dies, unpainted
<1>8. CASE ViewerStep \/ Ends \/ UNCHANGED vars
  BY <1>8 DEF ViewerStep, Ends, Dies, vars, dllVars
<1> QED
  BY <1>1, <1>2, <1>3, <1>4, <1>5, <1>6, <1>7, <1>8 DEF Next

\* Once its DllMain has returned TRUE the DLL stays in the process, whatever
\* helpers, window hooks and other copies do ("this prevents the library from
\* being automatically unloaded", dllmain.cpp of hookLyric).
THEOREM HookedCopyStays == Spec => HookedStaysLoaded
<1>1. InjectInv /\ [Next]_vars => [\A d \in Dlls : attached[d] => attached'[d]]_vars
  BY StaysAttached
<1> QED
  BY <1>1, InjectInvariant, PTL DEF Spec, HookedStaysLoaded

================================================================================
