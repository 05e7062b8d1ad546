------------------------ MODULE DetourTransactionProofs ------------------------
(***************************************************************************)
(* The transaction engine, for any number of threads, functions, pages,    *)
(* pointers and trampoline slots.  First what holds whatever its clients   *)
(* do.  Then the hooks of disciplined clients: which slots are hooked in,  *)
(* what jumps to them and which pointers lead to them, at every step of a  *)
(* transaction; the call of a hooked function, whose chain of jumps comes  *)
(* to the function's own code; and that the engine implements              *)
(* HookTransactions: every step of it is a step of the promise or leaves   *)
(* it alone.                                                               *)
(***************************************************************************)
EXTENDS DetourTransaction, DetourRefinement, Inductions, FiniteSetTheorems

-----------------------------------------------------------------------------
(* Whatever the clients do.                                                *)

\* The places of a call that only the owner of the transaction is in.
OwnerPlaces == {"push", "patch", "restore", "abort", "resume", "release"}

\* What the place of a thread says of the engine.
ControlOK ==
    /\ \A t \in Threads : pc[t] \in OwnerPlaces => Owns(t)
    /\ \A t \in Threads : pc[t] = "push" => hThread \in Threads
    /\ \A t \in Threads : pc[t] = "patch" => cursor > 0

TypeInv == TypeOK /\ ControlOK

LEMMA InitType == Init => TypeInv
<1> SUFFICES ASSUME Init PROVE TypeInv
    OBVIOUS
<1> USE DEF Init
<1>1. TypeOK
  <2>1. trampoline \in [Trampolines -> Trampoline]
    BY DEF Trampoline, FreeBlock
  <2>2. pointer \in [Pointers -> Addresses]
    BY TargetOfAssumption DEF Addresses
  <2>3. s_pPendingOperations \in Seq(Operation)
    OBVIOUS
  <2> QED
    BY <2>1, <2>2, <2>3 DEF TypeOK, Results, Perms, Places
<1>2. ControlOK
  BY DEF ControlOK, OwnerPlaces
<1> QED
  BY <1>1, <1>2 DEF TypeInv

\* The calls that leave the process's memory and the lists as they are.
Quiet(t) ==
    \/ BeginBusy(t)
    \/ UpdateThreadNothing(t, "GetCurrentThread")
    \/ StageRefused(t)
    \/ FinishRefused(t)
    \/ CommitReturns(t)

LEMMA QuietType ==
    ASSUME TypeInv, NEW t \in Threads, Quiet(t) PROVE TypeInv'
<1> USE DEF TypeInv, TypeOK, ControlOK, OwnerPlaces, statics, flags, memory,
            control, Owns, Return, Goto, Results, Errors, Places
<1>1. CASE BeginBusy(t)
  BY <1>1 DEF BeginBusy
<1>2. CASE UpdateThreadNothing(t, "GetCurrentThread")
  BY <1>2 DEF UpdateThreadNothing
<1>3. CASE StageRefused(t)
  BY <1>3 DEF StageRefused
<1>4. CASE FinishRefused(t)
  BY <1>4 DEF FinishRefused
<1>5. CASE CommitReturns(t)
  BY <1>5 DEF CommitReturns
<1> QED
  BY <1>1, <1>2, <1>3, <1>4, <1>5 DEF Quiet

\* The operations list stays a list of operations.
LEMMA ListedType ==
    ASSUME TypeInv, NEW o \in Operation PROVE Listed(o) \in Seq(Operation)
BY DEF TypeInv, TypeOK, Listed

\* A call of a transaction's owner that only fails, or gives up.
LEMMA StageFailsType ==
    ASSUME TypeInv, NEW t \in Threads, NEW error \in Results,
           StageFails(t, error) \/ FailsOrStops(t, error),
           regions' = regions \/ regions' = "RWX",
           UNCHANGED <<flags, trampoline, code, protect, pointer, suspended,
                       hThread, control>>
    PROVE  TypeInv'
<1> USE DEF TypeInv, TypeOK, ControlOK, OwnerPlaces, flags, control, Owns,
            Return, Places, Perms
<1>1. CASE StageFails(t, error)
  BY <1>1 DEF StageFails
<1>2. CASE StageStops(t, error)
  BY <1>2 DEF StageStops, statics
<1> QED
  BY <1>1, <1>2 DEF FailsOrStops

LEMMA AttachType ==
    ASSUME TypeInv, NEW t \in Threads, NEW p \in Pointers, NEW d \in Detours,
           Attach(t, p, d)
    PROVE  TypeInv'
<1> USE DEF memory, Results, Errors
<1>1. CASE StageRefused(t)
  BY <1>1, QuietType DEF Quiet
<1>2. CASE StageNullPointer(t, p)
  BY <1>2, StageFailsType DEF StageNullPointer
<1>3. CASE AttachStub(t, p, d)
  BY <1>3, StageFailsType DEF AttachStub
<1>4. CASE AttachNoMemory(t, p, d)
  BY <1>4, StageFailsType DEF AttachNoMemory
<1>5. CASE AttachTooSmall(t, p, d)
  BY <1>5, StageFailsType DEF AttachTooSmall, AllocTrampoline
<1>6. CASE AttachProtectFails(t, p, d)
  BY <1>6, StageFailsType DEF AttachProtectFails, AllocTrampoline
<1>7. CASE AttachStages(t, p, d)
  <2> DEFINE f == pointer[p]
             g == PageOf[f]
  <2>1. PICK s \in Trampolines :
            LET o == [fIsRemove |-> FALSE, ppbPointer |-> p, pbTarget |-> f,
                      pTrampoline |-> s, dwPerm |-> protect[g]]
            IN  /\ AllocTrampoline(s)
                /\ trampoline' = [trampoline EXCEPT ![s] =
                       [pbTarget |-> f, pbDetour |-> d,
                        rbRestore |-> CopiedBytes(f, s)]]
                /\ protect' = [protect EXCEPT ![g] = "RWX"]
                /\ PushOperation(t, o)
    BY <1>7 DEF AttachStages
  <2> DEFINE o == [fIsRemove |-> FALSE, ppbPointer |-> p, pbTarget |-> f,
                   pTrampoline |-> s, dwPerm |-> protect[g]]
  <2>2. /\ f \in Funcs
        /\ UNCHANGED <<flags, code, pointer, suspended, hThread, control>>
    BY <1>7 DEF AttachStages
  <2>3. o \in Operation
    BY <2>2, PageOfAssumption DEF Operation, TypeInv, TypeOK
  <2>4. trampoline' \in [Trampolines -> Trampoline]
    BY <2>1, <2>2 DEF TypeInv, TypeOK, Trampoline, CopiedBytes
  <2>5. s_pPendingOperations' \in Seq(Operation)
    BY <2>1, <2>3, ListedType DEF PushOperation
  <2>6. /\ protect' \in [Pages -> Perms]
        /\ regions' \in Perms \cup {"none"}
    BY <2>1 DEF TypeInv, TypeOK, AllocTrampoline, Perms
  <2> QED
    BY <2>1, <2>2, <2>4, <2>5, <2>6
    DEF TypeInv, TypeOK, ControlOK, OwnerPlaces, flags, control, Owns,
        PushOperation, Return
<1> QED
  BY <1>1, <1>2, <1>3, <1>4, <1>5, <1>6, <1>7 DEF Attach

LEMMA DetachType ==
    ASSUME TypeInv, NEW t \in Threads, NEW p \in Pointers, NEW d \in Detours,
           Detach(t, p, d)
    PROVE  TypeInv'
<1> USE DEF memory, Results, Errors
<1>1. CASE StageRefused(t)
  BY <1>1, QuietType DEF Quiet
<1>2. CASE StageNullPointer(t, p)
  BY <1>2, StageFailsType DEF StageNullPointer
<1>3. CASE DetachNoMemory(t, p)
  BY <1>3, StageFailsType DEF DetachNoMemory
<1>4. CASE DetachNotInPlace(t, p, d)
  BY <1>4, StageFailsType DEF DetachNotInPlace
<1>5. CASE DetachProtectFails(t, p, d)
  BY <1>5, StageFailsType DEF DetachProtectFails
<1>6. CASE DetachStages(t, p, d)
  <2> DEFINE s == pointer[p]
             f == trampoline[s].pbTarget
             g == PageOf[f]
             o == [fIsRemove |-> TRUE, ppbPointer |-> p, pbTarget |-> f,
                   pTrampoline |-> s, dwPerm |-> protect[g]]
  <2>1. /\ protect' = [protect EXCEPT ![g] = "RWX"]
        /\ PushOperation(t, o)
        /\ UNCHANGED <<flags, regions, trampoline, code, pointer, suspended,
                       hThread, control>>
    BY <1>6 DEF DetachStages
  <2>2. s \in Trampolines /\ f \in Funcs
    BY <1>6 DEF DetachStages, LooksInPlace, InUse, TypeInv, TypeOK, Trampoline
  <2>3. o \in Operation
    BY <2>2, PageOfAssumption DEF Operation, TypeInv, TypeOK
  <2>4. s_pPendingOperations' \in Seq(Operation)
    BY <2>1, <2>3, ListedType DEF PushOperation
  <2>5. protect' \in [Pages -> Perms]
    BY <2>1 DEF TypeInv, TypeOK, Perms
  <2> QED
    BY <2>1, <2>4, <2>5
    DEF TypeInv, TypeOK, ControlOK, OwnerPlaces, flags, control, Owns,
        PushOperation, Return
<1> QED
  BY <1>1, <1>2, <1>3, <1>4, <1>5, <1>6 DEF Detach

LEMMA ClientType ==
    ASSUME TypeInv, NEW t \in Threads, ClientNext(t) PROVE TypeInv'
<1> USE DEF TypeInv, TypeOK, ControlOK, OwnerPlaces, statics, flags, memory,
            control, Owns, Return, Goto, Calls, Results, Errors, Places, Perms
<1>1. CASE Begin(t)
  <2>1. CASE BeginBusy(t)
    BY <2>1, QuietType DEF Quiet
  <2>2. CASE BeginOwner(t)
    <3>1. s_pPendingOperations' \in Seq(Operation)
      BY <2>2 DEF BeginOwner
    <3> QED
      BY <2>2, <3>1, NoThreadAssumption DEF BeginOwner, WritableRegions
  <2> QED
    BY <1>1, <2>1, <2>2 DEF Begin
<1>2. CASE \E b \in BOOLEAN : SetIgnoreTooSmall(t, b) \/ SetRetainRegions(t, b)
  BY <1>2 DEF SetIgnoreTooSmall, SetRetainRegions
<1>3. CASE UpdateThreadNothing(t, "GetCurrentThread")
  BY <1>3, QuietType DEF Quiet
<1>4. CASE UpdateThreadFails(t)
  BY <1>4 DEF UpdateThreadFails
<1>5. CASE \E u \in Threads : MaySuspend(t, u) /\ UpdateThreadSuspends(t, u)
  BY <1>5 DEF UpdateThreadSuspends, MaySuspend
<1>6. CASE \E p \in Pointers, d \in Detours : Attach(t, p, d) \/ Detach(t, p, d)
  BY <1>6, AttachType, DetachType
<1>7. CASE Commit(t) \/ Abort(t)
  <2>1. CASE FinishRefused(t)
    BY <2>1, QuietType DEF Quiet
  <2>2. CASE CommitStarts(t)
    BY <2>2 DEF CommitStarts
  <2>3. CASE CommitRollsBack(t)
    BY <2>3 DEF CommitRollsBack
  <2>4. CASE AbortStarts(t)
    BY <2>4 DEF AbortStarts
  <2> QED
    BY <1>7, <2>1, <2>2, <2>3, <2>4 DEF Commit, Abort
<1> QED
  BY <1>1, <1>2, <1>3, <1>4, <1>5, <1>6, <1>7 DEF ClientNext

\* The operation a step of a commit or an abort works on.
LEMMA HeadType ==
    ASSUME TypeInv, s_pPendingOperations # <<>>
    PROVE  /\ Head(s_pPendingOperations) \in Operation
           /\ Tail(s_pPendingOperations) \in Seq(Operation)
BY DEF TypeInv, TypeOK

LEMMA RestorePageType ==
    ASSUME TypeInv, NEW t \in Threads, NEW frees \in BOOLEAN,
           RestorePage(t, frees), freed' \in BOOLEAN
    PROVE  TypeInv'
<1> DEFINE o == Head(s_pPendingOperations)
<1>1. o \in Operation /\ Tail(s_pPendingOperations) \in Seq(Operation)
  BY HeadType DEF RestorePage
<1>2. protect' \in [Pages -> Perms]
  BY <1>1, PageOfAssumption DEF RestorePage, TypeInv, TypeOK, Operation
<1>3. trampoline' \in [Trampolines -> Trampoline]
  BY <1>1 DEF RestorePage, TypeInv, TypeOK, Operation, Trampoline, FreeBlock
<1> QED
  BY <1>1, <1>2, <1>3
  DEF RestorePage, TypeInv, TypeOK, ControlOK, OwnerPlaces, flags, Owns

LEMMA PatchOperationType ==
    ASSUME TypeInv, NEW t \in Threads, PatchOperation(t) PROVE TypeInv'
<1> DEFINE o == s_pPendingOperations[cursor]
<1>1. cursor \in 1 .. Len(s_pPendingOperations)
  BY DEF PatchOperation, At, TypeInv, TypeOK, ControlOK
<1>2. o \in Operation
  BY <1>1 DEF TypeInv, TypeOK
<1>3. code' \in [Funcs -> Trampolines \cup {Original}]
  BY <1>2 DEF PatchOperation, PatchedCode, TypeInv, TypeOK, Operation,
              Trampoline
<1>4. pointer' \in [Pointers -> Addresses]
  BY <1>2 DEF PatchOperation, PatchedPointer, TypeInv, TypeOK, Operation, Addresses
<1> QED
  BY <1>3, <1>4
  DEF PatchOperation, TypeInv, TypeOK, ControlOK, OwnerPlaces, statics, flags,
      Owns

LEMMA CallType ==
    ASSUME TypeInv, NEW t \in Threads, CallNext(t) PROVE TypeInv'
<1> USE DEF TypeInv, TypeOK, ControlOK, OwnerPlaces, statics, flags, memory,
            control, Owns, Return, Goto, At, Results, Errors, Places, Perms
<1>1. CASE PushThread(t)
  BY <1>1 DEF PushThread
<1>2. CASE PatchOperation(t)
  BY <1>2, PatchOperationType
<1>3. CASE PatchingDone(t)
  BY <1>3 DEF PatchingDone
<1>4. CASE RestoreOperation(t)
  <2>1. freed' \in BOOLEAN
    BY <1>4 DEF RestoreOperation
  <2> QED
    BY <1>4, <2>1, RestorePageType DEF RestoreOperation
<1>5. CASE AbortOperation(t)
  BY <1>5, RestorePageType DEF AbortOperation
<1>6. CASE SettleRegions(t)
  BY <1>6 DEF SettleRegions, RunnableRegions
<1>7. CASE ResumeThreads(t)
  BY <1>7 DEF ResumeThreads, StillSuspended
<1>8. CASE Release(t)
  <2>1. \A u \in Threads : pc'[u] \in OwnerPlaces => u # t /\ pc[u] = pc'[u]
    BY <1>8 DEF Release
  <2>2. \A u \in Threads : pc'[u] \notin OwnerPlaces
    BY <1>8, <2>1 DEF Release
  <2> QED
    BY <1>8, <2>2 DEF Release
<1>9. CASE CommitReturns(t)
  BY <1>9, QuietType DEF Quiet
<1> QED
  BY <1>1, <1>2, <1>3, <1>4, <1>5, <1>6, <1>7, <1>8, <1>9 DEF CallNext

\* The types are right at all times, and a thread is inside an owner's call
\* only when it owns the transaction: DetourTransactionBegin lets one thread in.
THEOREM TypeCorrect == Spec => []TypeInv
<1>1. Init => TypeInv
  BY InitType
<1>2. TypeInv /\ [Next]_vars => TypeInv'
  <2> SUFFICES ASSUME TypeInv, [Next]_vars PROVE TypeInv'
      OBVIOUS
  <2>1. CASE Next
    BY <2>1, ClientType, CallType DEF Next
  <2>2. CASE UNCHANGED vars
    BY <2>2 DEF vars, statics, flags, memory, control, TypeInv, TypeOK,
                ControlOK, OwnerPlaces, Owns
  <2> QED
    BY <2>1, <2>2
<1> QED
  BY <1>1, <1>2, PTL DEF Spec

\* TypeOK, the invariant the runs check.
THEOREM TypesHold == Spec => []TypeOK
<1>1. TypeInv => TypeOK
  BY DEF TypeInv
<1> QED
  BY <1>1, TypeCorrect, PTL

-----------------------------------------------------------------------------
(* Page protections.  The saved protections form a chain: an operation     *)
(* saved RWX exactly when an older one on its page is still pending, so    *)
(* restoring from the newest to the oldest ends with the first value.      *)

PermInv ==
    /\ \A i \in DOMAIN s_pPendingOperations : protect[PendingPage(i)] = "RWX"
    /\ \A i \in DOMAIN s_pPendingOperations :
          s_pPendingOperations[i].dwPerm = "RWX" <=>
             \E j \in DOMAIN s_pPendingOperations :
                j > i /\ PendingPage(j) = PendingPage(i)
    /\ \A g \in Pages : protect[g] = "RWX" =>
          \E i \in DOMAIN s_pPendingOperations : PendingPage(i) = g

\* The list with a new head, element by element.
LEMMA ListedIndices ==
    ASSUME TypeInv, NEW o \in Operation
    PROVE  /\ DOMAIN Listed(o) = 1 .. Len(s_pPendingOperations) + 1
           /\ Listed(o)[1] = o
           /\ \A i \in 1 .. Len(s_pPendingOperations) :
                 Listed(o)[i + 1] = s_pPendingOperations[i]
BY DEF TypeInv, TypeOK, Listed

\* The list without its head, element by element.
LEMMA TailIndices ==
    ASSUME TypeInv, s_pPendingOperations # <<>>
    PROVE  /\ Len(s_pPendingOperations) > 0
           /\ DOMAIN Tail(s_pPendingOperations) =
                 1 .. Len(s_pPendingOperations) - 1
           /\ Head(s_pPendingOperations) = s_pPendingOperations[1]
           /\ \A i \in 1 .. Len(s_pPendingOperations) - 1 :
                 Tail(s_pPendingOperations)[i] = s_pPendingOperations[i + 1]
BY DEF TypeInv, TypeOK

LEMMA PendingPageType ==
    ASSUME TypeInv
    PROVE  \A i \in DOMAIN s_pPendingOperations : PendingPage(i) \in Pages
<1> SUFFICES ASSUME NEW i \in DOMAIN s_pPendingOperations
             PROVE  PendingPage(i) \in Pages
    OBVIOUS
<1>1. s_pPendingOperations[i] \in Operation
  BY DEF TypeInv, TypeOK
<1>2. s_pPendingOperations[i].pbTarget \in Funcs
  BY <1>1 DEF Operation
<1> QED
  BY <1>2, PageOfAssumption DEF PendingPage

LEMMA PermFrame ==
    ASSUME PermInv, UNCHANGED <<s_pPendingOperations, protect>> PROVE PermInv'
BY DEF PermInv, PendingPage

\* Staging an operation extends the chain.
LEMMA PermPush ==
    ASSUME TypeInv, PermInv, NEW o \in Operation,
           o.dwPerm = protect[PageOf[o.pbTarget]],
           s_pPendingOperations' = Listed(o),
           protect' = [protect EXCEPT ![PageOf[o.pbTarget]] = "RWX"]
    PROVE  PermInv'
<1> DEFINE n == Len(s_pPendingOperations)
           g == PageOf[o.pbTarget]
<1>1. /\ n \in Nat
      /\ DOMAIN s_pPendingOperations = 1 .. n
      /\ g \in Pages
      /\ protect \in [Pages -> Perms]
  BY PageOfAssumption DEF TypeInv, TypeOK, Operation
<1>2. /\ DOMAIN s_pPendingOperations' = 1 .. n + 1
      /\ s_pPendingOperations'[1] = o
      /\ \A i \in 1 .. n : s_pPendingOperations'[i + 1] = s_pPendingOperations[i]
  BY ListedIndices
<1>3. /\ PendingPage(1)' = g
      /\ \A i \in 1 .. n : PendingPage(i + 1)' = PendingPage(i)
  BY <1>2 DEF PendingPage
<1>4. \A i \in 1 .. n + 1 : i = 1 \/ (i - 1 \in 1 .. n /\ i = (i - 1) + 1)
  BY <1>1
<1>5. \A h \in Pages : protect'[h] = IF h = g THEN "RWX" ELSE protect[h]
  BY <1>1
<1>6. \A i \in 1 .. n : PendingPage(i) \in Pages
  BY <1>1, PendingPageType
<1>7. ASSUME NEW i \in DOMAIN s_pPendingOperations'
      PROVE  protect'[PendingPage(i)'] = "RWX"
  <2>1. CASE i = 1
    BY <2>1, <1>1, <1>3, <1>5
  <2>2. CASE i # 1
    <3>1. i - 1 \in 1 .. n /\ PendingPage(i)' = PendingPage(i - 1)
      BY <2>2, <1>2, <1>3, <1>4
    <3>2. protect[PendingPage(i - 1)] = "RWX"
      BY <3>1, <1>1 DEF PermInv
    <3> QED
      BY <3>1, <3>2, <1>5, <1>6
  <2> QED
    BY <2>1, <2>2
<1>8. ASSUME NEW i \in DOMAIN s_pPendingOperations'
      PROVE  s_pPendingOperations'[i].dwPerm = "RWX" <=>
                \E j \in DOMAIN s_pPendingOperations' :
                   j > i /\ PendingPage(j)' = PendingPage(i)'
  <2>1. CASE i = 1
    <3>1. protect[g] = "RWX" <=> \E j \in 1 .. n : PendingPage(j) = g
      BY <1>1 DEF PermInv
    <3>2. (\E j \in 1 .. n : PendingPage(j) = g) <=>
             \E j \in 1 .. n + 1 : j > 1 /\ PendingPage(j)' = g
      <4>1. ASSUME NEW j \in 1 .. n, PendingPage(j) = g
            PROVE  \E m \in 1 .. n + 1 : m > 1 /\ PendingPage(m)' = g
        <5>1. j + 1 \in 1 .. n + 1 /\ j + 1 > 1 /\ PendingPage(j + 1)' = g
          BY <4>1, <1>1, <1>3
        <5> QED
          BY <5>1
      <4>2. ASSUME NEW m \in 1 .. n + 1, m > 1, PendingPage(m)' = g
            PROVE  \E j \in 1 .. n : PendingPage(j) = g
        <5>1. m - 1 \in 1 .. n /\ PendingPage(m - 1) = g
          BY <4>2, <1>3, <1>4
        <5> QED
          BY <5>1
      <4> QED
        BY <4>1, <4>2
    <3> QED
      BY <2>1, <3>1, <3>2, <1>2, <1>3
  <2>2. CASE i # 1
    <3> DEFINE k == i - 1
    <3>1. k \in 1 .. n /\ i = k + 1
      BY <2>2, <1>2, <1>4
    <3>2. s_pPendingOperations[k].dwPerm = "RWX" <=>
             \E j \in 1 .. n : j > k /\ PendingPage(j) = PendingPage(k)
      BY <3>1, <1>1 DEF PermInv
    <3>3. (\E j \in 1 .. n : j > k /\ PendingPage(j) = PendingPage(k)) <=>
             \E j \in 1 .. n + 1 : j > k + 1 /\ PendingPage(j)' = PendingPage(k)
      <4>1. ASSUME NEW j \in 1 .. n, j > k, PendingPage(j) = PendingPage(k)
            PROVE  \E m \in 1 .. n + 1 :
                      m > k + 1 /\ PendingPage(m)' = PendingPage(k)
        <5>1. j + 1 \in 1 .. n + 1 /\ j + 1 > k + 1
          BY <4>1, <3>1, <1>1
        <5>2. PendingPage(j + 1)' = PendingPage(k)
          BY <4>1, <1>3
        <5> QED
          BY <5>1, <5>2
      <4>2. ASSUME NEW m \in 1 .. n + 1, m > k + 1,
                   PendingPage(m)' = PendingPage(k)
            PROVE  \E j \in 1 .. n : j > k /\ PendingPage(j) = PendingPage(k)
        <5>1. m - 1 \in 1 .. n /\ m - 1 > k /\ m = (m - 1) + 1
          BY <4>2, <3>1, <1>1
        <5>2. PendingPage(m - 1) = PendingPage(k)
          BY <5>1, <4>2, <1>3
        <5> QED
          BY <5>1, <5>2
      <4> QED
        BY <4>1, <4>2
    <3>4. /\ PendingPage(i)' = PendingPage(k)
          /\ s_pPendingOperations'[i] = s_pPendingOperations[k]
      BY <3>1, <1>2, <1>3
    <3> QED
      BY <3>1, <3>2, <3>3, <3>4, <1>2
  <2> QED
    BY <2>1, <2>2
<1>9. ASSUME NEW h \in Pages, protect'[h] = "RWX"
      PROVE  \E i \in DOMAIN s_pPendingOperations' : PendingPage(i)' = h
  <2>1. CASE h = g
    BY <2>1, <1>1, <1>2, <1>3
  <2>2. CASE h # g
    <3>1. PICK i \in 1 .. n : PendingPage(i) = h
      BY <2>2, <1>1, <1>5, <1>9 DEF PermInv
    <3> QED
      BY <3>1, <1>1, <1>2, <1>3
  <2> QED
    BY <2>1, <2>2
<1> QED
  BY <1>7, <1>8, <1>9 DEF PermInv

\* Restoring the newest operation's page shortens the chain.
LEMMA PermPop ==
    ASSUME TypeInv, PermInv, NEW t \in Threads, NEW frees \in BOOLEAN,
           RestorePage(t, frees)
    PROVE  PermInv'
<1> DEFINE n == Len(s_pPendingOperations)
           o == Head(s_pPendingOperations)
           g == PageOf[o.pbTarget]
<1>1. /\ n \in Nat /\ n > 0
      /\ DOMAIN s_pPendingOperations = 1 .. n
      /\ o = s_pPendingOperations[1]
      /\ DOMAIN s_pPendingOperations' = 1 .. n - 1
      /\ \A i \in 1 .. n - 1 :
            s_pPendingOperations'[i] = s_pPendingOperations[i + 1]
  BY TailIndices DEF RestorePage, TypeInv, TypeOK
<1>2. /\ o \in Operation
      /\ g \in Pages
      /\ g = PendingPage(1)
      /\ protect \in [Pages -> Perms]
  BY <1>1, HeadType, PageOfAssumption
  DEF RestorePage, Operation, PendingPage, TypeInv, TypeOK
<1>3. \A i \in 1 .. n - 1 : PendingPage(i)' = PendingPage(i + 1)
  BY <1>1 DEF PendingPage
<1>4. \A i \in 1 .. n : PendingPage(i) \in Pages
  BY <1>1, PendingPageType
<1>5. \A h \in Pages : protect'[h] = IF h = g THEN o.dwPerm ELSE protect[h]
  BY <1>2 DEF RestorePage
<1>6. \A i \in 2 .. n : i - 1 \in 1 .. n - 1 /\ i = (i - 1) + 1
  BY <1>1
<1>7. \A i \in 1 .. n - 1 : i + 1 \in 2 .. n
  BY <1>1
<1>8. o.dwPerm = "RWX" <=> \E j \in 2 .. n : PendingPage(j) = g
  BY <1>1, <1>2 DEF PermInv
<1>9. ASSUME NEW i \in DOMAIN s_pPendingOperations'
      PROVE  protect'[PendingPage(i)'] = "RWX"
  <2>1. i + 1 \in 2 .. n /\ PendingPage(i)' = PendingPage(i + 1)
    BY <1>1, <1>3, <1>7
  <2>2. protect[PendingPage(i + 1)] = "RWX"
    BY <2>1, <1>1 DEF PermInv
  <2> QED
    BY <2>1, <2>2, <1>1, <1>4, <1>5, <1>8
<1>10. ASSUME NEW i \in DOMAIN s_pPendingOperations'
       PROVE  s_pPendingOperations'[i].dwPerm = "RWX" <=>
                 \E j \in DOMAIN s_pPendingOperations' :
                    j > i /\ PendingPage(j)' = PendingPage(i)'
  <2>1. i + 1 \in 2 .. n /\ PendingPage(i)' = PendingPage(i + 1)
    BY <1>1, <1>3, <1>7
  <2>2. s_pPendingOperations[i + 1].dwPerm = "RWX" <=>
           \E j \in 1 .. n : j > i + 1 /\ PendingPage(j) = PendingPage(i + 1)
    BY <2>1, <1>1 DEF PermInv
  <2>3. ASSUME NEW j \in 1 .. n, j > i + 1, PendingPage(j) = PendingPage(i + 1)
        PROVE  \E m \in 1 .. n - 1 : m > i /\ PendingPage(m)' = PendingPage(i)'
    <3>1. j - 1 \in 1 .. n - 1 /\ j - 1 > i /\ j = (j - 1) + 1
      BY <2>1, <2>3, <1>1
    <3>2. PendingPage(j - 1)' = PendingPage(j)
      BY <3>1, <1>3
    <3> QED
      BY <3>1, <3>2, <2>1, <2>3
  <2>4. ASSUME NEW m \in 1 .. n - 1, m > i, PendingPage(m)' = PendingPage(i)'
        PROVE  \E j \in 1 .. n : j > i + 1 /\ PendingPage(j) = PendingPage(i + 1)
    <3>1. m + 1 \in 1 .. n /\ m + 1 > i + 1
      BY <2>4, <1>1
    <3>2. PendingPage(m + 1) = PendingPage(i + 1)
      BY <2>1, <2>4, <1>3
    <3> QED
      BY <3>1, <3>2
  <2> QED
    BY <2>2, <2>3, <2>4, <1>1
<1>11. ASSUME NEW h \in Pages, protect'[h] = "RWX"
       PROVE  \E i \in DOMAIN s_pPendingOperations' : PendingPage(i)' = h
  <2>1. \E j \in 2 .. n : PendingPage(j) = h
    <3>1. CASE h = g
      BY <3>1, <1>5, <1>8, <1>11
    <3>2. CASE h # g
      <4>1. PICK j \in 1 .. n : PendingPage(j) = h
        BY <3>2, <1>1, <1>5, <1>11 DEF PermInv
      <4>2. j # 1
        BY <3>2, <4>1, <1>2
      <4> QED
        BY <4>1, <4>2
    <3> QED
      BY <3>1, <3>2
  <2>2. PICK j \in 2 .. n : PendingPage(j) = h
    BY <2>1
  <2>3. PendingPage(j - 1)' = h
    BY <2>2, <1>3, <1>6
  <2> QED
    BY <2>3, <1>1, <1>6
<1> QED
  BY <1>9, <1>10, <1>11 DEF PermInv

-----------------------------------------------------------------------------
(* The trampoline regions: writable while an operation may write to one.   *)

ReturnPlaces == {"returnCommitted", "returnRolledBack"}

RegionInv ==
    /\ \A s \in Trampolines : InUse(s) => regions # "none"
    /\ s_nPendingThreadId = NoThread =>
          s_pPendingOperations = <<>> /\ regions # "RWX"
    /\ \A t \in Threads : pc[t] \in {"resume", "release"} =>
          s_pPendingOperations = <<>> /\ regions # "RWX"
    /\ s_pPendingOperations # <<>> => regions = "RWX"
    /\ \A t \in Threads :
          /\ Owns(t)
          /\ s_nPendingError = "NO_ERROR"
          /\ pc[t] \in {"client", "push"}
          => regions # "RX"
    /\ \A t \in Threads : pc[t] \in ReturnPlaces => ~Owns(t)

WriteInv == PermInv /\ RegionInv

LEMMA InitWrite == Init => WriteInv
<1> SUFFICES ASSUME Init PROVE WriteInv
    OBVIOUS
<1>1. PermInv
  BY DEF Init, PermInv
<1>2. RegionInv
  BY NoThreadAssumption DEF Init, RegionInv, InUse, FreeBlock, ReturnPlaces,
     Owns
<1> QED
  BY <1>1, <1>2 DEF WriteInv

LEMMA QuietWrite ==
    ASSUME TypeInv, WriteInv, NEW t \in Threads, Quiet(t) PROVE WriteInv'
<1> USE DEF statics, memory, control, WriteInv
<1>1. PermInv'
  <2>1. UNCHANGED <<s_pPendingOperations, protect>>
    BY DEF Quiet, BeginBusy, UpdateThreadNothing, StageRefused, FinishRefused,
           CommitReturns
  <2> QED
    BY <2>1, PermFrame
<1>2. CASE CommitReturns(t)
  BY <1>1, <1>2 DEF CommitReturns, RegionInv, ReturnPlaces, Owns, InUse, At,
                    Goto, TypeInv, TypeOK
<1>3. CASE ~CommitReturns(t)
  <2>1. UNCHANGED <<statics, memory, control>>
    BY <1>3 DEF Quiet, BeginBusy, UpdateThreadNothing, StageRefused,
                FinishRefused
  <2> QED
    BY <1>1, <2>1 DEF RegionInv, Owns, InUse
<1> QED
  BY <1>2, <1>3

LEMMA StageFailsWrite ==
    ASSUME TypeInv, WriteInv, NEW t \in Threads, NEW error \in Errors,
           Owns(t), pc[t] = "client", s_nPendingError = "NO_ERROR",
           StageFails(t, error) \/ FailsOrStops(t, error)
                \/ FailsOrStops(t, "NO_ERROR"),
           regions' = regions \/ regions' = "RWX",
           UNCHANGED <<flags, trampoline, code, protect, pointer, suspended,
                       hThread, control>>
    PROVE  WriteInv'
<1>1. /\ UNCHANGED <<s_nPendingThreadId, s_pPendingOperations,
                     s_pPendingThreads>>
      /\ s_nPendingError' \in Results
  BY DEF FailsOrStops, StageStops, StageFails, statics, Results, Errors,
         TypeInv, TypeOK
<1>2. PermInv'
  BY <1>1, PermFrame DEF WriteInv
<1>3. RegionInv'
  BY <1>1, NoThreadAssumption
  DEF WriteInv, RegionInv, ReturnPlaces, Owns, InUse, control, TypeInv,
      ControlOK, OwnerPlaces, FailsOrStops, StageStops, StageFails, statics
<1> QED
  BY <1>2, <1>3 DEF WriteInv

\* An operation is staged by an owner that finds the regions writable.
LEMMA PushWrite ==
    ASSUME TypeInv, WriteInv, NEW t \in Threads, NEW o \in Operation,
           Owns(t), pc[t] = "client",
           PushOperation(t, o),
           o.dwPerm = protect[PageOf[o.pbTarget]],
           protect' = [protect EXCEPT ![PageOf[o.pbTarget]] = "RWX"],
           regions' = "RWX",
           UNCHANGED <<flags, code, pointer, suspended, hThread, control>>
    PROVE  WriteInv'
<1>1. PermInv'
  BY PermPush DEF WriteInv, PushOperation
<1>2. RegionInv'
  BY NoThreadAssumption
  DEF WriteInv, RegionInv, ReturnPlaces, Owns, InUse, control, TypeInv,
      ControlOK, OwnerPlaces, PushOperation
<1> QED
  BY <1>1, <1>2 DEF WriteInv

LEMMA AttachWrite ==
    ASSUME TypeInv, WriteInv, NEW t \in Threads, NEW p \in Pointers,
           NEW d \in Detours, Attach(t, p, d)
    PROVE  WriteInv'
<1> USE DEF memory, Errors, Staging, Calls
<1>1. CASE StageRefused(t)
  BY <1>1, QuietWrite DEF Quiet
<1>2. CASE StageNullPointer(t, p)
  BY <1>2, StageFailsWrite DEF StageNullPointer
<1>3. CASE AttachStub(t, p, d)
  BY <1>3, StageFailsWrite DEF AttachStub
<1>4. CASE AttachNoMemory(t, p, d)
  BY <1>4, StageFailsWrite DEF AttachNoMemory
<1>5. CASE AttachTooSmall(t, p, d)
  BY <1>5, StageFailsWrite DEF AttachTooSmall, AllocTrampoline
<1>6. CASE AttachProtectFails(t, p, d)
  BY <1>6, StageFailsWrite DEF AttachProtectFails, AllocTrampoline
<1>7. CASE AttachStages(t, p, d)
  <2> DEFINE f == pointer[p]
             g == PageOf[f]
  <2>1. PICK s \in Trampolines :
            LET o == [fIsRemove |-> FALSE, ppbPointer |-> p, pbTarget |-> f,
                      pTrampoline |-> s, dwPerm |-> protect[g]]
            IN  /\ AllocTrampoline(s)
                /\ protect' = [protect EXCEPT ![g] = "RWX"]
                /\ PushOperation(t, o)
    BY <1>7 DEF AttachStages
  <2> DEFINE o == [fIsRemove |-> FALSE, ppbPointer |-> p, pbTarget |-> f,
                   pTrampoline |-> s, dwPerm |-> protect[g]]
  <2>2. /\ f \in Funcs
        /\ Owns(t) /\ pc[t] = "client" /\ s_nPendingError = "NO_ERROR"
        /\ UNCHANGED <<flags, code, pointer, suspended, hThread, control>>
    BY <1>7 DEF AttachStages
  <2>3. o \in Operation
    BY <2>2, PageOfAssumption DEF Operation, TypeInv, TypeOK
  <2>4. regions' = "RWX"
    BY <2>1, <2>2 DEF AllocTrampoline, WriteInv, RegionInv, TypeInv, TypeOK,
                      Perms
  <2> QED
    BY <2>1, <2>2, <2>3, <2>4, PushWrite
<1> QED
  BY <1>1, <1>2, <1>3, <1>4, <1>5, <1>6, <1>7 DEF Attach

LEMMA DetachWrite ==
    ASSUME TypeInv, WriteInv, NEW t \in Threads, NEW p \in Pointers,
           NEW d \in Detours, Detach(t, p, d)
    PROVE  WriteInv'
<1> USE DEF memory, Errors, Staging, Calls
<1>1. CASE StageRefused(t)
  BY <1>1, QuietWrite DEF Quiet
<1>2. CASE StageNullPointer(t, p)
  BY <1>2, StageFailsWrite DEF StageNullPointer
<1>3. CASE DetachNoMemory(t, p)
  BY <1>3, StageFailsWrite DEF DetachNoMemory
<1>4. CASE DetachNotInPlace(t, p, d)
  BY <1>4, StageFailsWrite DEF DetachNotInPlace
<1>5. CASE DetachProtectFails(t, p, d)
  BY <1>5, StageFailsWrite DEF DetachProtectFails
<1>6. CASE DetachStages(t, p, d)
  <2> DEFINE s == pointer[p]
             f == trampoline[s].pbTarget
             g == PageOf[f]
             o == [fIsRemove |-> TRUE, ppbPointer |-> p, pbTarget |-> f,
                   pTrampoline |-> s, dwPerm |-> protect[g]]
  <2>1. /\ Owns(t) /\ pc[t] = "client" /\ s_nPendingError = "NO_ERROR"
        /\ protect' = [protect EXCEPT ![g] = "RWX"]
        /\ PushOperation(t, o)
        /\ UNCHANGED <<flags, regions, trampoline, code, pointer, suspended,
                       hThread, control>>
    BY <1>6 DEF DetachStages
  <2>2. s \in Trampolines /\ InUse(s) /\ f \in Funcs
    BY <1>6 DEF DetachStages, LooksInPlace, InUse, TypeInv, TypeOK, Trampoline
  <2>3. o \in Operation
    BY <2>2, PageOfAssumption DEF Operation, TypeInv, TypeOK
  <2>4. regions' = "RWX"
    BY <2>1, <2>2 DEF WriteInv, RegionInv, TypeInv, TypeOK, Perms
  <2> QED
    BY <2>1, <2>3, <2>4, PushWrite
<1> QED
  BY <1>1, <1>2, <1>3, <1>4, <1>5, <1>6 DEF Detach

\* A step that touches neither the operations nor any page.
LEMMA RegionFrame ==
    ASSUME TypeInv, WriteInv, NEW t \in Threads, Owns(t), Owns(t)',
           UNCHANGED <<s_pPendingOperations, protect, trampoline, regions>>,
           \A u \in Threads : u # t => pc'[u] = pc[u],
           pc'[t] \notin ReturnPlaces \cup {"resume", "release"},
           s_nPendingError' = "NO_ERROR" /\ pc'[t] \in {"client", "push"} =>
              s_nPendingError = "NO_ERROR" /\ pc[t] \in {"client", "push"}
    PROVE  WriteInv'
<1>1. PermInv'
  BY PermFrame DEF WriteInv
<1>2. \A u \in Threads : u # t => ~Owns(u) /\ ~Owns(u)'
  BY DEF Owns
<1>3. RegionInv'
  BY <1>2, NoThreadAssumption
  DEF WriteInv, RegionInv, InUse, Owns, TypeInv, ControlOK, OwnerPlaces
<1> QED
  BY <1>1, <1>3 DEF WriteInv

LEMMA ClientWrite ==
    ASSUME TypeInv, WriteInv, NEW t \in Threads, ClientNext(t)
    PROVE  WriteInv'
<1> USE DEF statics, flags, memory, control, Return, Goto, Calls
<1> pc \in [Threads -> Places]
  BY DEF TypeInv, TypeOK
<1>1. CASE BeginOwner(t)
  <2>1. PermInv'
    BY <1>1, PermFrame DEF BeginOwner, WriteInv, RegionInv
  <2>2. /\ s_pPendingOperations' = <<>>
        /\ s_nPendingThreadId = NoThread
        /\ s_nPendingThreadId' = t
        /\ UNCHANGED <<trampoline, pc>>
        /\ pc[t] = "client"
        /\ regions = "none" => regions' = "none"
        /\ regions # "none" => regions' # "none"
        /\ s_nPendingError' = "NO_ERROR" => regions' # "RX"
    BY <1>1 DEF BeginOwner, WritableRegions, WriteInv, RegionInv
  <2>3. \A u \in Threads : pc[u] \notin {"resume", "release"}
    BY <2>2, NoThreadAssumption DEF TypeInv, ControlOK, OwnerPlaces, Owns
  <2>4. RegionInv'
    BY <2>2, <2>3, NoThreadAssumption
    DEF WriteInv, RegionInv, ReturnPlaces, Owns, InUse
  <2> QED
    BY <2>1, <2>4 DEF WriteInv
<1>2. CASE \E b \in BOOLEAN : SetIgnoreTooSmall(t, b) \/ SetRetainRegions(t, b)
  <2>1. UNCHANGED <<statics, memory, control>>
    BY <1>2 DEF SetIgnoreTooSmall, SetRetainRegions
  <2>2. PermInv'
    BY <2>1, PermFrame DEF WriteInv
  <2> QED
    BY <2>1, <2>2 DEF WriteInv, RegionInv, Owns, InUse
<1>3. CASE Owns(t) /\ UpdateThreadFails(t)
  BY <1>3, RegionFrame DEF UpdateThreadFails, ReturnPlaces, Owns
<1>4. CASE \E u \in Threads : MaySuspend(t, u) /\ UpdateThreadSuspends(t, u)
  <2>1. /\ Owns(t) /\ Owns(t)'
        /\ UNCHANGED <<statics, memory>>
        /\ s_nPendingError = "NO_ERROR"
        /\ pc[t] = "client"
        /\ pc' = [pc EXCEPT ![t] = "push"]
    BY <1>4 DEF UpdateThreadSuspends, MaySuspend, Owns
  <2> QED
    BY <2>1, RegionFrame DEF ReturnPlaces
<1>5. CASE \E p \in Pointers, d \in Detours : Attach(t, p, d) \/ Detach(t, p, d)
  BY <1>5, AttachWrite, DetachWrite
<1>6. CASE CommitStarts(t)
  BY <1>6, RegionFrame DEF CommitStarts, ReturnPlaces, Owns
<1>7. CASE CommitRollsBack(t)
  BY <1>7, RegionFrame DEF CommitRollsBack, ReturnPlaces, Owns
<1>8. CASE AbortStarts(t)
  BY <1>8, RegionFrame DEF AbortStarts, ReturnPlaces, Owns
<1>9. CASE Quiet(t)
  BY <1>9, QuietWrite
<1> QED
  BY <1>1, <1>2, <1>3, <1>4, <1>5, <1>6, <1>7, <1>8, <1>9
  DEF ClientNext, Begin, Commit, Abort, Quiet

\* Restoring a page may free a slot, never take one.
LEMMA RestorePageWrite ==
    ASSUME TypeInv, WriteInv, NEW t \in Threads, NEW frees \in BOOLEAN,
           RestorePage(t, frees), Owns(t), pc[t] \in {"restore", "abort"}
    PROVE  WriteInv'
<1>1. PermInv'
  BY PermPop DEF WriteInv
<1>2. \A s \in Trampolines : InUse(s)' => InUse(s)
  BY HeadType DEF RestorePage, InUse, FreeBlock, TypeInv, TypeOK, Operation
<1>3. /\ UNCHANGED <<s_nPendingThreadId, s_nPendingError, regions, pc>>
      /\ s_pPendingOperations # <<>>
  BY DEF RestorePage
<1>4. RegionInv'
  BY <1>2, <1>3, NoThreadAssumption
  DEF WriteInv, RegionInv, Owns, TypeInv, ControlOK, OwnerPlaces
<1> QED
  BY <1>1, <1>4 DEF WriteInv

LEMMA CallWrite ==
    ASSUME TypeInv, WriteInv, NEW t \in Threads, CallNext(t)
    PROVE  WriteInv'
<1> USE DEF statics, flags, memory, control, Return, Goto, At
<1> pc \in [Threads -> Places]
  BY DEF TypeInv, TypeOK
<1>1. CASE PushThread(t)
  BY <1>1, RegionFrame
  DEF PushThread, ReturnPlaces, Owns, TypeInv, ControlOK, OwnerPlaces
<1>2. CASE PatchOperation(t)
  BY <1>2, RegionFrame
  DEF PatchOperation, ReturnPlaces, Owns, TypeInv, ControlOK, OwnerPlaces
<1>3. CASE PatchingDone(t)
  BY <1>3, RegionFrame
  DEF PatchingDone, ReturnPlaces, Owns, TypeInv, ControlOK, OwnerPlaces
<1>4. CASE RestoreOperation(t)
  BY <1>4, RestorePageWrite DEF RestoreOperation, TypeInv, ControlOK,
                                OwnerPlaces
<1>5. CASE AbortOperation(t)
  BY <1>5, RestorePageWrite DEF AbortOperation, TypeInv, ControlOK, OwnerPlaces
<1>6. CASE SettleRegions(t)
  <2>1. PermInv'
    BY <1>6, PermFrame DEF SettleRegions, WriteInv
  <2>2. /\ Owns(t)
        /\ s_pPendingOperations' = <<>>
        /\ UNCHANGED <<s_nPendingThreadId, s_nPendingError, trampoline>>
        /\ pc' = [pc EXCEPT ![t] = "resume"]
        /\ regions' \in {"none", "RX"}
        /\ regions' = "none" =>
              regions = "none" \/ \A s \in Trampolines : ~InUse(s)
    BY <1>6 DEF SettleRegions, FreesRegions, RunnableRegions, TypeInv,
                ControlOK, OwnerPlaces
  <2>3. RegionInv'
    BY <2>2, NoThreadAssumption
    DEF WriteInv, RegionInv, ReturnPlaces, Owns, InUse
  <2> QED
    BY <2>1, <2>3 DEF WriteInv
<1>7. CASE ResumeThreads(t)
  <2>1. PermInv'
    BY <1>7, PermFrame DEF ResumeThreads, WriteInv
  <2>2. /\ Owns(t)
        /\ s_pPendingOperations = <<>> /\ regions # "RWX"
        /\ UNCHANGED <<s_nPendingThreadId, s_pPendingOperations,
                       s_nPendingError, trampoline, regions>>
        /\ pc' = [pc EXCEPT ![t] = "release"]
    BY <1>7 DEF ResumeThreads, WriteInv, RegionInv, TypeInv, ControlOK,
                OwnerPlaces
  <2>3. RegionInv'
    BY <2>2, NoThreadAssumption
    DEF WriteInv, RegionInv, ReturnPlaces, Owns, InUse
  <2> QED
    BY <2>1, <2>3 DEF WriteInv
<1>8. CASE Release(t)
  <2>1. PermInv'
    BY <1>8, PermFrame DEF Release, WriteInv
  <2>2. /\ Owns(t)
        /\ s_pPendingOperations = <<>> /\ regions # "RWX"
        /\ s_nPendingThreadId' = NoThread
        /\ UNCHANGED <<s_pPendingOperations, trampoline, regions>>
        /\ \A u \in Threads : u # t => pc'[u] = pc[u]
        /\ pc'[t] \notin {"resume", "release"}
    BY <1>8 DEF Release, WriteInv, RegionInv, TypeInv, ControlOK, OwnerPlaces
  <2>3. \A u \in Threads : pc'[u] \notin {"resume", "release"}
    BY <2>2 DEF TypeInv, ControlOK, OwnerPlaces, Owns
  <2>4. RegionInv'
    BY <2>2, <2>3, NoThreadAssumption
    DEF WriteInv, RegionInv, ReturnPlaces, Owns, InUse
  <2> QED
    BY <2>1, <2>4 DEF WriteInv
<1>9. CASE CommitReturns(t)
  BY <1>9, QuietWrite DEF Quiet
<1> QED
  BY <1>1, <1>2, <1>3, <1>4, <1>5, <1>6, <1>7, <1>8, <1>9 DEF CallNext

LEMMA WriteInvHolds == Spec => []WriteInv
<1>1. Init => WriteInv
  BY InitWrite
<1>2. TypeInv /\ WriteInv /\ [Next]_vars => WriteInv'
  <2> SUFFICES ASSUME TypeInv, WriteInv, [Next]_vars PROVE WriteInv'
      OBVIOUS
  <2>1. CASE Next
    BY <2>1, ClientWrite, CallWrite DEF Next
  <2>2. CASE UNCHANGED vars
    <3>1. UNCHANGED <<statics, memory, control>>
      BY <2>2 DEF vars
    <3>2. PermInv'
      BY <3>1, PermFrame DEF WriteInv, statics, memory
    <3> QED
      BY <3>1, <3>2 DEF WriteInv, RegionInv, Owns, InUse, statics, memory,
                        control
  <2> QED
    BY <2>1, <2>2
<1> QED
  BY <1>1, <1>2, TypeCorrect, PTL DEF Spec

\* Whatever the clients stage, on however many pages, and however the
\* transactions end, no code page and no region stays writable after them.
THEOREM PagesAreRestored == Spec => []NothingLeftWritable
<1>1. TypeInv /\ WriteInv => NothingLeftWritable
  <2> SUFFICES ASSUME TypeInv, WriteInv, s_nPendingThreadId = NoThread
               PROVE  /\ \A g \in Pages : protect[g] = "RX"
                      /\ regions # "RWX"
      BY DEF NothingLeftWritable
  <2>1. s_pPendingOperations = <<>> /\ regions # "RWX"
    BY DEF WriteInv, RegionInv
  <2>2. \A g \in Pages : protect[g] # "RWX"
    BY <2>1 DEF WriteInv, PermInv
  <2> QED
    BY <2>1, <2>2 DEF TypeInv, TypeOK, Perms
<1> QED
  BY <1>1, TypeCorrect, WriteInvHolds, PTL

\* No write of the patch, copy or free loops faults: the pages of all the
\* pending operations and the trampoline regions are writable in time.
THEOREM NoWriteFaults == Spec => []WritesNeverFault
<1>1. TypeInv /\ WriteInv => WritesNeverFault
  BY DEF TypeInv, WriteInv, RegionInv, PermInv, WritesNeverFault, Staging, Calls
<1> QED
  BY <1>1, TypeCorrect, WriteInvHolds, PTL

-----------------------------------------------------------------------------
(* Suspended threads.                                                      *)

SuspendInv ==
    /\ suspended \subseteq s_pPendingThreads \cup {hThread}
    /\ s_nPendingThreadId \notin suspended
    /\ s_nPendingThreadId = NoThread => suspended = {}
    /\ hThread # NoThread => \E t \in Threads : pc[t] = "push"
    /\ \A t \in Threads : pc[t] = "release" => suspended = {}

\* A step that moves no thread in or out of DetourUpdateThread's two steps,
\* and no thread to the end of a commit.
LEMMA SuspendFrame ==
    ASSUME TypeInv, SuspendInv, NEW t \in Threads, pc[t] # "push",
           UNCHANGED <<s_nPendingThreadId, s_pPendingThreads, suspended,
                       hThread>>,
           pc' \in [Threads -> Places],
           \A u \in Threads : u # t => pc'[u] = pc[u],
           pc'[t] # "release" \/ pc'[t] = pc[t]
    PROVE  SuspendInv'
BY DEF SuspendInv

LEMMA StageSuspend ==
    ASSUME TypeInv, SuspendInv, NEW t \in Threads, NEW p \in Pointers,
           NEW d \in Detours, Attach(t, p, d) \/ Detach(t, p, d)
    PROVE  SuspendInv'
<1>1. /\ UNCHANGED <<s_nPendingThreadId, s_pPendingThreads, suspended,
                     hThread, pc>>
      /\ pc[t] = "client"
  <2> USE DEF statics, control, Staging, Calls, StageStops, StageFails,
              FailsOrStops, PushOperation
  <2>1. CASE StageRefused(t)
    BY <2>1 DEF StageRefused
  <2>2. CASE StageNullPointer(t, p)
    BY <2>2 DEF StageNullPointer
  <2>3. CASE AttachStub(t, p, d)
    BY <2>3 DEF AttachStub
  <2>4. CASE AttachNoMemory(t, p, d)
    BY <2>4 DEF AttachNoMemory
  <2>5. CASE AttachTooSmall(t, p, d)
    BY <2>5 DEF AttachTooSmall
  <2>6. CASE AttachProtectFails(t, p, d)
    BY <2>6 DEF AttachProtectFails
  <2>7. CASE AttachStages(t, p, d)
    BY <2>7 DEF AttachStages
  <2>8. CASE DetachNoMemory(t, p)
    BY <2>8 DEF DetachNoMemory
  <2>9. CASE DetachNotInPlace(t, p, d)
    BY <2>9 DEF DetachNotInPlace
  <2>10. CASE DetachProtectFails(t, p, d)
    BY <2>10 DEF DetachProtectFails
  <2>11. CASE DetachStages(t, p, d)
    BY <2>11 DEF DetachStages
  <2> QED
    BY <2>1, <2>2, <2>3, <2>4, <2>5, <2>6, <2>7, <2>8, <2>9, <2>10, <2>11
    DEF Attach, Detach
<1> QED
  BY <1>1, SuspendFrame DEF TypeInv, TypeOK

LEMMA ClientSuspend ==
    ASSUME TypeInv, SuspendInv, NEW t \in Threads, ClientNext(t)
    PROVE  SuspendInv'
<1> USE DEF statics, flags, control, Goto, Calls
<1> pc \in [Threads -> Places]
  BY DEF TypeInv, TypeOK
<1>1. CASE BeginBusy(t)
  BY <1>1, SuspendFrame DEF BeginBusy
<1>2. CASE BeginOwner(t)
  BY <1>2, NoThreadAssumption DEF BeginOwner, SuspendInv, TypeInv, ControlOK,
     OwnerPlaces, Owns
<1>3. CASE \E b \in BOOLEAN : SetIgnoreTooSmall(t, b) \/ SetRetainRegions(t, b)
  BY <1>3, SuspendFrame DEF SetIgnoreTooSmall, SetRetainRegions
<1>4. CASE UpdateThreadNothing(t, "GetCurrentThread") \/ UpdateThreadFails(t)
  BY <1>4, SuspendFrame DEF UpdateThreadNothing, UpdateThreadFails
<1>5. CASE \E u \in Threads : MaySuspend(t, u) /\ UpdateThreadSuspends(t, u)
  <2>1. PICK u \in Threads : MaySuspend(t, u) /\ UpdateThreadSuspends(t, u)
    BY <1>5
  <2>2. /\ s_nPendingThreadId = t
        /\ u # t
        /\ pc[t] = "client"
        /\ suspended' = suspended \cup {u}
        /\ hThread' = u
        /\ pc' = [pc EXCEPT ![t] = "push"]
        /\ UNCHANGED <<s_nPendingThreadId, s_pPendingThreads>>
    BY <2>1 DEF MaySuspend, UpdateThreadSuspends, Owns
  <2>3. \A v \in Threads : v # t => pc[v] \notin OwnerPlaces
    BY <2>2 DEF TypeInv, ControlOK, Owns
  <2>4. hThread = NoThread
    BY <2>2, <2>3 DEF SuspendInv, OwnerPlaces
  <2> QED
    BY <2>2, <2>3, <2>4, NoThreadAssumption
    DEF SuspendInv, OwnerPlaces, TypeInv, TypeOK
<1>6. CASE \E p \in Pointers, d \in Detours : Attach(t, p, d) \/ Detach(t, p, d)
  BY <1>6, StageSuspend
<1>7. CASE Commit(t) \/ Abort(t)
  BY <1>7, SuspendFrame DEF Commit, Abort, FinishRefused, CommitStarts,
     CommitRollsBack, AbortStarts, Places
<1> QED
  BY <1>1, <1>2, <1>3, <1>4, <1>5, <1>6, <1>7 DEF ClientNext, Begin

LEMMA CallSuspend ==
    ASSUME TypeInv, SuspendInv, NEW t \in Threads, CallNext(t)
    PROVE  SuspendInv'
<1> USE DEF statics, flags, control, Goto, At
<1> pc \in [Threads -> Places]
  BY DEF TypeInv, TypeOK
<1>1. CASE PushThread(t)
  <2>1. /\ pc[t] = "push" /\ Owns(t)
        /\ pc' = [pc EXCEPT ![t] = "client"]
        /\ s_pPendingThreads' = s_pPendingThreads \cup {hThread}
        /\ hThread' = NoThread
        /\ UNCHANGED <<s_nPendingThreadId, suspended>>
    BY <1>1 DEF PushThread, TypeInv, ControlOK, OwnerPlaces
  <2> QED
    BY <2>1 DEF SuspendInv
<1>2. CASE \/ PatchOperation(t)
           \/ PatchingDone(t)
           \/ RestoreOperation(t)
           \/ AbortOperation(t)
           \/ SettleRegions(t)
           \/ CommitReturns(t)
  BY <1>2, SuspendFrame
  DEF PatchOperation, PatchingDone, RestoreOperation, AbortOperation,
      RestorePage, SettleRegions, CommitReturns, Places
<1>3. CASE ResumeThreads(t)
  <2>1. /\ pc[t] = "resume" /\ Owns(t)
        /\ pc' = [pc EXCEPT ![t] = "release"]
        /\ suspended' = suspended \ s_pPendingThreads
        /\ UNCHANGED <<s_nPendingThreadId, hThread>>
    BY <1>3 DEF ResumeThreads, StillSuspended, TypeInv, ControlOK, OwnerPlaces
  <2>2. \A v \in Threads : pc[v] # "push"
    BY <2>1 DEF TypeInv, ControlOK, OwnerPlaces, Owns
  <2>3. suspended' = {}
    BY <2>1, <2>2, NoThreadAssumption DEF SuspendInv, TypeInv, TypeOK
  <2> QED
    BY <2>1, <2>2, <2>3 DEF SuspendInv
<1>4. CASE Release(t)
  <2>1. suspended = {} /\ suspended' = {}
    BY <1>4 DEF Release, SuspendInv
  <2>2. hThread' # NoThread => \E u \in Threads : pc'[u] = "push"
    BY <1>4 DEF Release, SuspendInv
  <2> QED
    BY <2>1, <2>2 DEF SuspendInv
<1> QED
  BY <1>1, <1>2, <1>3, <1>4 DEF CallNext

LEMMA SuspendInvHolds == Spec => []SuspendInv
<1>1. Init => SuspendInv
  BY DEF Init, SuspendInv
<1>2. TypeInv /\ SuspendInv /\ [Next]_vars => SuspendInv'
  <2> SUFFICES ASSUME TypeInv, SuspendInv, [Next]_vars PROVE SuspendInv'
      OBVIOUS
  <2>1. CASE Next
    BY <2>1, ClientSuspend, CallSuspend DEF Next
  <2>2. CASE UNCHANGED vars
    BY <2>2 DEF vars, statics, control, SuspendInv
  <2> QED
    BY <2>1, <2>2
<1> QED
  BY <1>1, <1>2, TypeCorrect, PTL DEF Spec

\* However many threads a transaction suspends, whichever of its calls fail and
\* whichever way it ends, none is forgotten, and none is the owner.
THEOREM ThreadsAreResumed == Spec => []NobodyLeftSuspended
<1>1. TypeInv /\ SuspendInv => NobodyLeftSuspended
  BY DEF SuspendInv, NobodyLeftSuspended
<1> QED
  BY <1>1, TypeCorrect, SuspendInvHolds, PTL

\* A thread runs again only when every patch is made and every page has its
\* protection back.
THEOREM ResumedInTime == Spec => ResumedOnSettledCode
<1> DEFINE Step == \A u \in suspended : u \notin suspended' =>
                       s_pPendingOperations = <<>> /\ regions # "RWX"
<1>1. TypeInv /\ WriteInv /\ [Next]_vars => [Step]_vars
  <2> SUFFICES ASSUME TypeInv, WriteInv, Next,
                      NEW u \in suspended, u \notin suspended'
               PROVE  s_pPendingOperations = <<>> /\ regions # "RWX"
      OBVIOUS
  <2>1. PICK t \in Threads : ClientNext(t) \/ CallNext(t)
    BY DEF Next
  <2>2. ~ClientNext(t)
    BY DEF ClientNext, Begin, BeginBusy, BeginOwner, SetIgnoreTooSmall,
           SetRetainRegions, UpdateThreadNothing, UpdateThreadFails,
           UpdateThreadSuspends, Attach, Detach, Commit, Abort,
           StageRefused, StageNullPointer, AttachStub, AttachNoMemory,
           AttachTooSmall, AttachProtectFails, AttachStages, DetachNoMemory,
           DetachNotInPlace, DetachProtectFails, DetachStages, FinishRefused,
           CommitStarts, CommitRollsBack, AbortStarts
  <2>3. ResumeThreads(t)
    BY <2>1, <2>2
    DEF CallNext, PushThread, PatchOperation, PatchingDone, RestoreOperation,
        AbortOperation, RestorePage, SettleRegions, Release, CommitReturns
  <2> QED
    BY <2>3 DEF ResumeThreads, At, WriteInv, RegionInv
<1> QED
  BY <1>1, TypeCorrect, WriteInvHolds, PTL DEF Spec, ResumedOnSettledCode

-----------------------------------------------------------------------------
(* The hooks of disciplined clients.                                       *)

\* The commit has patched the operation at index i: the ones before its cursor,
\* or all of them.
Patched(i) == \/ \E t \in Threads : pc[t] = "restore"
              \/ i < cursor

\* A slot that is used but not hooked in: its attach is not patched yet, or
\* its removal is.
LiesBeside(s) == \E i \in DOMAIN s_pPendingOperations :
                    /\ s_pPendingOperations[i].pTrampoline = s
                    /\ s_pPendingOperations[i].fIsRemove <=> Patched(i)

Hooked == {s \in Trampolines : InUse(s) /\ ~LiesBeside(s)}

SlotTarget(s)  == trampoline[s].pbTarget
SlotRestore(s) == trampoline[s].rbRestore

CursorInv == cursor # 0 => \E t \in Threads : pc[t] = "patch"

\* The hooked slots of a function are a chain: its entry code jumps to the
\* first, each leads to the next by the bytes it saved, and nothing else does.
LinkInv ==
    /\ \A f \in Funcs : code[f] # Original =>
          code[f] \in Hooked /\ SlotTarget(code[f]) = f
    /\ \A s \in Hooked : SlotRestore(s) # Original =>
          /\ SlotRestore(s) \in Hooked
          /\ SlotTarget(SlotRestore(s)) = SlotTarget(s)
    /\ \A s \in Hooked : \/ code[SlotTarget(s)] = s
                         \/ \E r \in Hooked : SlotRestore(r) = s
    /\ \A r \in Hooked : SlotRestore(r) # Original =>
          code[SlotTarget(r)] # SlotRestore(r)
    /\ \A r, q \in Hooked : r # q /\ SlotRestore(r) = SlotRestore(q) =>
          SlotRestore(r) = Original

\* The pointers that are not functions are the hooked slots, one for one.
PointerInv ==
    /\ \A p \in Pointers : pointer[p] \in Trampolines =>
          pointer[p] \in Hooked /\ SlotTarget(pointer[p]) = TargetOf[p]
    /\ \A p \in Pointers : pointer[p] \notin Trampolines =>
          pointer[p] = TargetOf[p]
    /\ \A p, q \in Pointers : p # q /\ pointer[p] = pointer[q] =>
          pointer[p] \notin Trampolines
    /\ \A s \in Hooked : \E p \in Pointers : pointer[p] = s

\* What the code and the client's pointer are before and after its patch.
OperationFits(i) ==
    LET o == s_pPendingOperations[i] IN
    /\ SlotTarget(o.pTrampoline) = o.pbTarget
    /\ (o.fIsRemove <=> Patched(i)) =>
          /\ SlotRestore(o.pTrampoline) = code[o.pbTarget]
          /\ pointer[o.ppbPointer] = o.pbTarget
    /\ ~(o.fIsRemove <=> Patched(i)) =>
          /\ code[o.pbTarget] = o.pTrampoline
          /\ pointer[o.ppbPointer] = o.pTrampoline

OperationInv ==
    /\ \A i, j \in DOMAIN s_pPendingOperations : i # j =>
          s_pPendingOperations[i].pbTarget # s_pPendingOperations[j].pbTarget
    /\ \A i \in DOMAIN s_pPendingOperations : OperationFits(i)

HookInv == CursorInv /\ LinkInv /\ PointerInv /\ OperationInv

-----------------------------------------------------------------------------
(* Facts the cases share.                                                  *)

LEMMA OperationTypes ==
    ASSUME TypeInv
    PROVE  \A i \in DOMAIN s_pPendingOperations :
              /\ s_pPendingOperations[i] \in Operation
              /\ s_pPendingOperations[i].pTrampoline \in Trampolines
              /\ s_pPendingOperations[i].pbTarget \in Funcs
              /\ s_pPendingOperations[i].ppbPointer \in Pointers
              /\ s_pPendingOperations[i].fIsRemove \in BOOLEAN
<1>1. \A i \in DOMAIN s_pPendingOperations :
         s_pPendingOperations[i] \in Operation
  BY DEF TypeInv, TypeOK
<1> QED
  BY <1>1 DEF Operation

LEMMA SlotTypes ==
    ASSUME TypeInv
    PROVE  \A s \in Trampolines :
              /\ SlotTarget(s) \in Funcs \cup {Null}
              /\ SlotRestore(s) \in Trampolines \cup {Original}
              /\ InUse(s) <=> SlotTarget(s) \in Funcs
BY NullAssumption
DEF TypeInv, TypeOK, Trampoline, SlotTarget, SlotRestore, InUse

\* No two pending operations are on one slot or through one pointer.
LEMMA OneOperation ==
    ASSUME TypeInv, PointerInv, OperationInv,
           NEW i \in DOMAIN s_pPendingOperations,
           NEW j \in DOMAIN s_pPendingOperations,
           \/ s_pPendingOperations[i].pTrampoline =
                 s_pPendingOperations[j].pTrampoline
           \/ s_pPendingOperations[i].ppbPointer =
                 s_pPendingOperations[j].ppbPointer
    PROVE  i = j
<1> DEFINE o == s_pPendingOperations[i]
           q == s_pPendingOperations[j]
<1>1. /\ o.pTrampoline \in Trampolines /\ q.pTrampoline \in Trampolines
      /\ o.pbTarget \in Funcs /\ q.pbTarget \in Funcs
      /\ o.ppbPointer \in Pointers /\ q.ppbPointer \in Pointers
  BY OperationTypes
<1>2. SlotTarget(o.pTrampoline) = o.pbTarget
  BY DEF OperationInv, OperationFits
<1>3. SlotTarget(q.pTrampoline) = q.pbTarget
  BY DEF OperationInv, OperationFits
<1>4. TargetOf[o.ppbPointer] = o.pbTarget
  BY <1>1, <1>2, DisjointAssumption DEF OperationInv, OperationFits, PointerInv
<1>5. TargetOf[q.ppbPointer] = q.pbTarget
  BY <1>1, <1>3, DisjointAssumption DEF OperationInv, OperationFits, PointerInv
<1>6. o.pbTarget = q.pbTarget
  BY <1>2, <1>3, <1>4, <1>5
<1> QED
  BY <1>6 DEF OperationInv

\* A step that leaves the memory and the progress of the commit as they are.
LEMMA HookFrame ==
    ASSUME HookInv, CursorInv',
           UNCHANGED <<s_pPendingOperations, trampoline, code, pointer>>,
           \A i \in DOMAIN s_pPendingOperations : Patched(i)' <=> Patched(i)
    PROVE  HookInv'
<1>1. Hooked' = Hooked
  BY DEF Hooked, InUse, LiesBeside
<1>2. LinkInv'
  BY <1>1 DEF HookInv, LinkInv, SlotTarget, SlotRestore
<1>3. PointerInv'
  BY <1>1 DEF HookInv, PointerInv, SlotTarget
<1>4. OperationInv'
  BY DEF HookInv, OperationInv, OperationFits, SlotTarget, SlotRestore
<1> QED
  BY <1>2, <1>3, <1>4 DEF HookInv

\* Slots that are not hooked in may change: nothing leads to them.
LEMMA LinkFrame ==
    ASSUME LinkInv, PointerInv, Hooked' = Hooked, UNCHANGED <<code, pointer>>,
           \A s \in Hooked : trampoline'[s] = trampoline[s]
    PROVE  LinkInv' /\ PointerInv'
<1>1. \A s \in Hooked : /\ SlotTarget(s)' = SlotTarget(s)
                        /\ SlotRestore(s)' = SlotRestore(s)
  BY DEF SlotTarget, SlotRestore
<1>2. LinkInv'
  <2>1. \A f \in Funcs : code[f] # Original =>
           code[f] \in Hooked /\ SlotTarget(code[f])' = f
    BY <1>1 DEF LinkInv
  <2>2. \A s \in Hooked : SlotRestore(s)' # Original =>
           /\ SlotRestore(s)' \in Hooked
           /\ (SlotTarget(SlotRestore(s)))' = SlotTarget(s)'
    BY <1>1 DEF LinkInv, SlotTarget
  <2> QED
    BY <1>1, <2>1, <2>2 DEF LinkInv
<1>3. PointerInv'
  <2>1. \A p \in Pointers : pointer[p] \in Trampolines =>
           pointer[p] \in Hooked /\ (SlotTarget(pointer[p]))' = TargetOf[p]
    BY <1>1 DEF PointerInv, SlotTarget
  <2> QED
    BY <2>1 DEF PointerInv
<1> QED
  BY <1>2, <1>3

-----------------------------------------------------------------------------
(* A slot enters the chain of its function at the top, and leaves it there. *)

LEMMA HookIn ==
    ASSUME TypeInv, LinkInv, PointerInv,
           NEW s \in Trampolines, NEW f \in Funcs, NEW p \in Pointers,
           s \notin Hooked, Hooked' = Hooked \cup {s},
           SlotTarget(s) = f, SlotRestore(s) = code[f], pointer[p] = f,
           UNCHANGED trampoline,
           code' = [code EXCEPT ![f] = s],
           pointer' = [pointer EXCEPT ![p] = s]
    PROVE  LinkInv' /\ PointerInv'
<1>1. /\ \A g \in Funcs : code'[g] = IF g = f THEN s ELSE code[g]
      /\ \A q \in Pointers : pointer'[q] = IF q = p THEN s ELSE pointer[q]
  BY DEF TypeInv, TypeOK
<1>2. \A r \in Trampolines : /\ SlotTarget(r)' = SlotTarget(r)
                             /\ SlotRestore(r)' = SlotRestore(r)
  BY DEF SlotTarget, SlotRestore
<1>3. \A r \in Hooked : SlotTarget(r) \in Funcs
  BY SlotTypes DEF Hooked
<1>4. \A r \in Hooked : SlotRestore(r) # s
  BY OriginalAssumption DEF LinkInv
<1>5. f \notin Trampolines /\ s # Original
  BY DisjointAssumption, OriginalAssumption
<1>6. \A r \in Hooked : r \in Trampolines
  BY DEF Hooked
<1>7. ASSUME NEW g \in Funcs, code'[g] # Original
      PROVE  code'[g] \in Hooked' /\ (SlotTarget(code[g]))' = g
  <2>1. CASE g = f
    BY <2>1, <1>1, <1>2
  <2>2. CASE g # f
    <3>1. code'[g] = code[g] /\ code[g] \in Hooked /\ SlotTarget(code[g]) = g
      BY <2>2, <1>1, <1>7 DEF LinkInv
    <3> QED
      BY <3>1 DEF SlotTarget
  <2> QED
    BY <2>1, <2>2
<1>8. ASSUME NEW r \in Hooked', SlotRestore(r)' # Original
      PROVE  /\ SlotRestore(r)' \in Hooked'
             /\ (SlotTarget(SlotRestore(r)))' = SlotTarget(r)'
  <2>1. SlotRestore(r) \in Hooked /\ SlotTarget(SlotRestore(r)) = SlotTarget(r)
    BY <1>2, <1>6, <1>8 DEF LinkInv
  <2> QED
    BY <2>1 DEF SlotTarget, SlotRestore
<1>9. ASSUME NEW r \in Hooked'
      PROVE  \/ code'[SlotTarget(r)'] = r
             \/ \E q \in Hooked' : SlotRestore(q)' = r
  <2>1. CASE r = s
    BY <2>1, <1>1, <1>2
  <2>2. CASE r # s
    <3>1. r \in Hooked /\ SlotTarget(r)' = SlotTarget(r) /\ SlotTarget(r) \in Funcs
      BY <2>2, <1>2, <1>3, <1>6
    <3>2. CASE code[SlotTarget(r)] = r /\ SlotTarget(r) = f
      BY <3>2, <1>2
    <3>3. CASE code[SlotTarget(r)] = r /\ SlotTarget(r) # f
      BY <3>1, <3>3, <1>1
    <3>4. CASE \E q \in Hooked : SlotRestore(q) = r
      BY <3>4, <1>2, <1>6
    <3> QED
      BY <3>1, <3>2, <3>3, <3>4 DEF LinkInv
  <2> QED
    BY <2>1, <2>2
<1>10. ASSUME NEW r \in Hooked', SlotRestore(r)' # Original
       PROVE  code'[SlotTarget(r)'] # SlotRestore(r)'
  <2>1. CASE r = s
    BY <2>1, <1>1, <1>2, <1>10 DEF LinkInv
  <2>2. CASE r # s
    <3>1. /\ r \in Hooked /\ SlotTarget(r)' = SlotTarget(r)
          /\ SlotRestore(r)' = SlotRestore(r)
          /\ SlotTarget(r) \in Funcs
      BY <2>2, <1>2, <1>3, <1>6
    <3> QED
      BY <3>1, <1>1, <1>4, <1>10 DEF LinkInv
  <2> QED
    BY <2>1, <2>2
<1>11. ASSUME NEW r \in Hooked', NEW q \in Hooked', r # q,
              SlotRestore(r)' = SlotRestore(q)'
       PROVE  SlotRestore(r)' = Original
  \* A hooked slot that saved what s saved would be jumped over by f.
  <2>1. ASSUME NEW u \in Hooked, SlotRestore(u) = code[f]
        PROVE  code[f] = Original
    <3>1. SUFFICES ASSUME code[f] # Original PROVE FALSE
      OBVIOUS
    <3>2. SlotTarget(code[f]) = f /\ SlotTarget(SlotRestore(u)) = SlotTarget(u)
      BY <2>1, <3>1 DEF LinkInv
    <3> QED
      BY <2>1, <3>1, <3>2 DEF LinkInv
  <2> QED
    BY <2>1, <1>2, <1>6, <1>11 DEF LinkInv
<1>12. LinkInv'
  BY <1>7, <1>8, <1>9, <1>10, <1>11 DEF LinkInv
<1>13. TargetOf[p] = f
  BY <1>5 DEF PointerInv
<1>14. ASSUME NEW q \in Pointers
       PROVE  /\ pointer'[q] \in Trampolines =>
                    /\ pointer'[q] \in Hooked'
                    /\ (SlotTarget(pointer[q]))' = TargetOf[q]
              /\ pointer'[q] \notin Trampolines => pointer'[q] = TargetOf[q]
  BY <1>1, <1>13 DEF PointerInv, SlotTarget
<1>15. ASSUME NEW q \in Pointers, NEW r \in Pointers, q # r,
              pointer'[q] = pointer'[r]
       PROVE  pointer'[q] \notin Trampolines
  BY <1>1, <1>15 DEF PointerInv
<1>16. ASSUME NEW r \in Hooked' PROVE \E q \in Pointers : pointer'[q] = r
  <2>1. CASE r = s
    BY <2>1, <1>1
  <2>2. CASE r # s
    <3>1. PICK q \in Pointers : pointer[q] = r
      BY <2>2 DEF PointerInv
    <3>2. q # p
      BY <3>1, <1>5, <2>2, <1>6
    <3> QED
      BY <3>1, <3>2, <1>1
  <2> QED
    BY <2>1, <2>2
<1>17. PointerInv'
  BY <1>14, <1>15, <1>16 DEF PointerInv
<1> QED
  BY <1>12, <1>17

LEMMA HookOut ==
    ASSUME TypeInv, LinkInv, PointerInv,
           NEW s \in Hooked, NEW f \in Funcs, NEW p \in Pointers,
           Hooked' = Hooked \ {s},
           SlotTarget(s) = f, code[f] = s, pointer[p] = s,
           UNCHANGED trampoline,
           code' = [code EXCEPT ![f] = SlotRestore(s)],
           pointer' = [pointer EXCEPT ![p] = f]
    PROVE  LinkInv' /\ PointerInv'
<1>1. /\ \A g \in Funcs : code'[g] = IF g = f THEN SlotRestore(s) ELSE code[g]
      /\ \A q \in Pointers : pointer'[q] = IF q = p THEN f ELSE pointer[q]
  BY DEF TypeInv, TypeOK
<1>2. \A r \in Trampolines : /\ SlotTarget(r)' = SlotTarget(r)
                             /\ SlotRestore(r)' = SlotRestore(r)
  BY DEF SlotTarget, SlotRestore
<1>3. \A r \in Hooked : r \in Trampolines /\ SlotTarget(r) \in Funcs
  BY SlotTypes DEF Hooked
<1>4. f \notin Trampolines /\ s # Original
  BY <1>3, DisjointAssumption, OriginalAssumption

\* The function's entry is the only jump to the slot on top.
<1>5. \A r \in Hooked : SlotRestore(r) # s
  <2> SUFFICES ASSUME NEW r \in Hooked, SlotRestore(r) = s PROVE FALSE
      OBVIOUS
  <2>1. SlotTarget(r) = f
    BY <1>4 DEF LinkInv
  <2> QED
    BY <2>1, <1>4 DEF LinkInv
<1>6. \A g \in Funcs : g # f => code[g] # s
  BY <1>4 DEF LinkInv
<1>7. ASSUME NEW g \in Funcs, code'[g] # Original
      PROVE  code'[g] \in Hooked' /\ (SlotTarget(code[g]))' = g
  <2>1. code'[g] \in Hooked /\ code'[g] # s /\ SlotTarget(code'[g]) = g
    <3>1. CASE g = f
      BY <3>1, <1>1, <1>5, <1>7 DEF LinkInv
    <3>2. CASE g # f
      BY <3>2, <1>1, <1>6, <1>7 DEF LinkInv
    <3> QED
      BY <3>1, <3>2
  <2> QED
    BY <2>1 DEF SlotTarget
<1>8. ASSUME NEW r \in Hooked', SlotRestore(r)' # Original
      PROVE  /\ SlotRestore(r)' \in Hooked'
             /\ (SlotTarget(SlotRestore(r)))' = SlotTarget(r)'
  <2>1. /\ SlotRestore(r) \in Hooked /\ SlotRestore(r) # s
        /\ SlotTarget(SlotRestore(r)) = SlotTarget(r)
    BY <1>2, <1>3, <1>5, <1>8 DEF LinkInv
  <2> QED
    BY <2>1 DEF SlotTarget, SlotRestore
<1>9. ASSUME NEW r \in Hooked'
      PROVE  \/ code'[SlotTarget(r)'] = r
             \/ \E q \in Hooked' : SlotRestore(q)' = r
  <2>1. /\ r \in Hooked /\ r # s /\ SlotTarget(r)' = SlotTarget(r)
        /\ SlotTarget(r) \in Funcs
    BY <1>2, <1>3
  <2>2. CASE code[SlotTarget(r)] = r
    BY <2>1, <2>2, <1>1
  <2>3. CASE \E q \in Hooked : SlotRestore(q) = r
    <3>1. PICK q \in Hooked : SlotRestore(q) = r
      BY <2>3
    <3>2. CASE q = s
      <4>1. SlotTarget(r) = f
        BY <2>1, <3>1, <3>2, <1>3, OriginalAssumption DEF LinkInv
      <4> QED
        BY <2>1, <3>1, <3>2, <4>1, <1>1
    <3>3. CASE q # s
      BY <3>1, <3>3, <1>2, <1>3
    <3> QED
      BY <3>2, <3>3
  <2> QED
    BY <2>1, <2>2, <2>3 DEF LinkInv
<1>10. ASSUME NEW r \in Hooked', SlotRestore(r)' # Original
       PROVE  code'[SlotTarget(r)'] # SlotRestore(r)'
  <2>1. /\ r \in Hooked /\ r # s /\ SlotTarget(r)' = SlotTarget(r)
        /\ SlotRestore(r)' = SlotRestore(r) /\ SlotTarget(r) \in Funcs
    BY <1>2, <1>3
  <2>2. CASE SlotTarget(r) = f
    BY <2>1, <2>2, <1>1, <1>10 DEF LinkInv
  <2>3. CASE SlotTarget(r) # f
    BY <2>1, <2>3, <1>1, <1>10 DEF LinkInv
  <2> QED
    BY <2>2, <2>3
<1>11. ASSUME NEW r \in Hooked', NEW q \in Hooked', r # q,
              SlotRestore(r)' = SlotRestore(q)'
       PROVE  SlotRestore(r)' = Original
  BY <1>2, <1>3, <1>11 DEF LinkInv
<1>12. LinkInv'
  BY <1>7, <1>8, <1>9, <1>10, <1>11 DEF LinkInv
<1>13. TargetOf[p] = f
  BY <1>3 DEF PointerInv
<1>14. ASSUME NEW q \in Pointers
       PROVE  /\ pointer'[q] \in Trampolines =>
                    /\ pointer'[q] \in Hooked'
                    /\ (SlotTarget(pointer[q]))' = TargetOf[q]
              /\ pointer'[q] \notin Trampolines => pointer'[q] = TargetOf[q]
  BY <1>1, <1>3, <1>4, <1>13 DEF PointerInv, SlotTarget
<1>15. ASSUME NEW q \in Pointers, NEW r \in Pointers, q # r,
              pointer'[q] = pointer'[r]
       PROVE  pointer'[q] \notin Trampolines
  BY <1>1, <1>4, <1>15 DEF PointerInv
<1>16. ASSUME NEW r \in Hooked' PROVE \E q \in Pointers : pointer'[q] = r
  <2>1. PICK q \in Pointers : pointer[q] = r
    BY DEF PointerInv
  <2> QED
    BY <2>1, <1>1
<1>17. PointerInv'
  BY <1>14, <1>15, <1>16 DEF PointerInv
<1> QED
  BY <1>12, <1>17

-----------------------------------------------------------------------------
(* How far the commit is, by the place of the transaction's owner.         *)

\* Nobody but the owner is inside a commit.
LEMMA NotPatchedYet ==
    ASSUME TypeInv, CursorInv, NEW t \in Threads, Owns(t),
           pc[t] \notin {"patch", "restore"}
    PROVE  cursor = 0 /\ \A i \in DOMAIN s_pPendingOperations : ~Patched(i)
<1>1. \A u \in Threads : pc[u] \notin {"patch", "restore"}
  BY DEF TypeInv, ControlOK, OwnerPlaces, Owns
<1>2. cursor = 0
  BY <1>1 DEF CursorInv
<1>3. DOMAIN s_pPendingOperations \subseteq Nat
  BY DEF TypeInv, TypeOK
<1> QED
  BY <1>1, <1>2, <1>3 DEF Patched

\* A step of a thread that is not at work on the operations.
LEMMA StepFrame ==
    ASSUME TypeInv, HookInv, NEW t \in Threads,
           UNCHANGED <<s_pPendingOperations, trampoline, code, pointer, cursor>>,
           pc[t] # "patch",
           \A u \in Threads : u # t => pc'[u] = pc[u],
           \/ s_pPendingOperations = <<>>
           \/ pc[t] # "restore" /\ pc'[t] # "restore"
    PROVE  HookInv'
<1>1. CursorInv'
  BY DEF HookInv, CursorInv
<1>2. \A i \in DOMAIN s_pPendingOperations : Patched(i)' <=> Patched(i)
  BY DEF Patched
<1> QED
  BY <1>1, <1>2, HookFrame

LEMMA PatchOperationHooks ==
    ASSUME TypeInv, HookInv, NEW t \in Threads, PatchOperation(t)
    PROVE  HookInv'
<1>1. PICK c : c = cursor
  OBVIOUS
<1>a. /\ c \in DOMAIN s_pPendingOperations
      /\ DOMAIN s_pPendingOperations \subseteq Nat
      /\ Owns(t)
  BY <1>1 DEF PatchOperation, At, TypeInv, TypeOK, ControlOK, OwnerPlaces
<1>b. PICK o \in Operation : o = s_pPendingOperations[c]
  BY <1>a, OperationTypes
<1> DEFINE s == o.pTrampoline
           f == o.pbTarget
           p == o.ppbPointer
<1>2. /\ s \in Trampolines /\ f \in Funcs /\ p \in Pointers
      /\ o.fIsRemove \in BOOLEAN
  BY DEF Operation
<1>3. /\ code' = [code EXCEPT ![f] = PatchedCode(o)]
      /\ pointer' = [pointer EXCEPT ![p] = PatchedPointer(o)]
      /\ cursor = c /\ cursor' = c + 1
      /\ UNCHANGED <<s_pPendingOperations, trampoline, pc>>
      /\ pc[t] = "patch"
  BY <1>1, <1>b DEF PatchOperation, At, statics, control
<1>4. \A u \in Threads : pc[u] # "restore"
  BY <1>a, <1>3 DEF TypeInv, ControlOK, OwnerPlaces, Owns
<1>5. /\ \A i \in DOMAIN s_pPendingOperations : i # c =>
            (Patched(i)' <=> Patched(i))
      /\ ~Patched(c)
      /\ Patched(c)'
  BY <1>a, <1>3, <1>4 DEF Patched
<1>6. \A i \in DOMAIN s_pPendingOperations : i # c =>
         /\ s_pPendingOperations[i].pTrampoline # s
         /\ s_pPendingOperations[i].ppbPointer # p
         /\ s_pPendingOperations[i].pbTarget # f
  BY <1>a, <1>b, OneOperation DEF HookInv, OperationInv
<1>7. \A r \in Trampolines : r # s => (LiesBeside(r)' <=> LiesBeside(r))
  BY <1>b, <1>3, <1>5 DEF LiesBeside
<1>8. (LiesBeside(s) <=> ~o.fIsRemove) /\ (LiesBeside(s)' <=> o.fIsRemove)
  BY <1>a, <1>2, <1>b, <1>3, <1>5, <1>6 DEF LiesBeside
<1>9. OperationFits(c)
  BY <1>a DEF HookInv, OperationInv
<1>10. InUse(s) /\ \A r \in Trampolines : InUse(r)' <=> InUse(r)
  BY <1>b, <1>2, <1>3, <1>9, SlotTypes DEF OperationFits, InUse
<1>11. CursorInv'
  BY <1>3 DEF CursorInv
<1>12. LinkInv' /\ PointerInv'
  <2>1. CASE ~o.fIsRemove
    <3>1. s \notin Hooked /\ Hooked' = Hooked \cup {s}
      BY <2>1, <1>2, <1>7, <1>8, <1>10 DEF Hooked
    <3>2. /\ SlotTarget(s) = f /\ SlotRestore(s) = code[f] /\ pointer[p] = f
          /\ code' = [code EXCEPT ![f] = s]
          /\ pointer' = [pointer EXCEPT ![p] = s]
      BY <2>1, <1>b, <1>3, <1>5, <1>9 DEF OperationFits, PatchedCode, PatchedPointer
    <3> QED
      BY <1>2, <1>3, <3>1, <3>2, HookIn DEF HookInv
  <2>2. CASE o.fIsRemove
    <3>1. s \in Hooked /\ Hooked' = Hooked \ {s}
      BY <2>2, <1>2, <1>7, <1>8, <1>10 DEF Hooked
    <3>2. /\ SlotTarget(s) = f /\ code[f] = s /\ pointer[p] = s
          /\ code' = [code EXCEPT ![f] = SlotRestore(s)]
          /\ pointer' = [pointer EXCEPT ![p] = f]
      BY <2>2, <1>b, <1>3, <1>5, <1>9
      DEF OperationFits, PatchedCode, PatchedPointer, SlotRestore
    <3> QED
      BY <1>2, <1>3, <3>1, <3>2, HookOut DEF HookInv
  <2> QED
    BY <1>2, <2>1, <2>2
<1>13. ASSUME NEW i \in DOMAIN s_pPendingOperations PROVE OperationFits(i)'
  <2>1. CASE i = c
    <3>1. /\ code'[f] = PatchedCode(o) /\ pointer'[p] = PatchedPointer(o)
          /\ s_pPendingOperations'[i] = o
          /\ SlotTarget(s)' = f
          /\ SlotRestore(s)' = SlotRestore(s)
          /\ Patched(i)'
      BY <2>1, <1>b, <1>2, <1>3, <1>5, <1>9
      DEF TypeInv, TypeOK, OperationFits, SlotTarget, SlotRestore
    <3>2. /\ o.fIsRemove => PatchedCode(o) = SlotRestore(s)
                           /\ PatchedPointer(o) = f
          /\ ~o.fIsRemove => PatchedCode(o) = s /\ PatchedPointer(o) = s
      BY DEF PatchedCode, PatchedPointer, SlotRestore
    <3> QED
      BY <2>1, <3>1, <3>2, <1>3 DEF OperationFits, SlotTarget, SlotRestore
  <2>2. CASE i # c
    <3>0. PICK q \in Operation : q = s_pPendingOperations[i]
      BY OperationTypes
    <3>1. /\ code'[q.pbTarget] = code[q.pbTarget]
          /\ pointer'[q.ppbPointer] = pointer[q.ppbPointer]
          /\ Patched(i)' <=> Patched(i)
      BY <2>2, <3>0, <1>2, <1>3, <1>5, <1>6 DEF TypeInv, TypeOK, Operation
    <3>2. OperationFits(i)
      BY DEF HookInv, OperationInv
    <3> QED
      BY <3>0, <3>1, <3>2, <1>3 DEF OperationFits, SlotTarget, SlotRestore
  <2> QED
    BY <2>1, <2>2
<1>14. OperationInv'
  BY <1>3, <1>13 DEF HookInv, OperationInv
<1> QED
  BY <1>11, <1>12, <1>14 DEF HookInv

\* The slot of the operation that ends is hooked in or freed.
LEMMA RestorePageHooks ==
    ASSUME TypeInv, HookInv, NEW t \in Threads, NEW frees \in BOOLEAN,
           RestorePage(t, frees), pc[t] # "patch",
           \A i \in Nat \ {0} : (Patched(i) <=> frees) /\ (Patched(i)' <=> frees)
    PROVE  HookInv'
<1> DEFINE n == Len(s_pPendingOperations)
<1>1. /\ n \in Nat /\ n > 0
      /\ DOMAIN s_pPendingOperations = 1 .. n
      /\ DOMAIN s_pPendingOperations' = 1 .. n - 1
      /\ Head(s_pPendingOperations) = s_pPendingOperations[1]
      /\ \A i \in 1 .. n - 1 :
            s_pPendingOperations'[i] = s_pPendingOperations[i + 1]
  BY TailIndices DEF RestorePage, TypeInv, TypeOK
<1>2. /\ \A i \in 1 .. n - 1 : i + 1 \in 1 .. n /\ i + 1 # 1
      /\ \A i \in 1 .. n : i # 1 => i - 1 \in 1 .. n - 1 /\ i = (i - 1) + 1
      /\ 1 \in 1 .. n
      /\ \A i \in 1 .. n : i \in Nat \ {0}
  BY <1>1
<1>a. PICK o \in Operation : o = s_pPendingOperations[1]
  BY <1>1, <1>2, OperationTypes
<1> DEFINE s == o.pTrampoline
<1>3. /\ UNCHANGED <<code, pointer, pc, cursor>>
      /\ trampoline' = IF o.fIsRemove = frees
                       THEN [trampoline EXCEPT ![s] = FreeBlock]
                       ELSE trampoline
  BY <1>1, <1>a DEF RestorePage, FreesSlot
<1>4. s \in Trampolines /\ o.fIsRemove \in BOOLEAN
  BY DEF Operation
<1>5. \A i \in 1 .. n : i # 1 =>
         /\ s_pPendingOperations[i].pTrampoline # s
         /\ s_pPendingOperations[i].ppbPointer # o.ppbPointer
         /\ s_pPendingOperations[i].pbTarget # o.pbTarget
  BY <1>1, <1>2, <1>a, OneOperation DEF HookInv, OperationInv
<1>6. LiesBeside(s) <=> o.fIsRemove = frees
  BY <1>1, <1>2, <1>a, <1>4, <1>5 DEF LiesBeside
<1>7. ~LiesBeside(s)'
  BY <1>1, <1>2, <1>5 DEF LiesBeside
<1>8. \A r \in Trampolines : r # s => (LiesBeside(r)' <=> LiesBeside(r))
  <2> SUFFICES ASSUME NEW r \in Trampolines, r # s
               PROVE  LiesBeside(r)' <=> LiesBeside(r)
      OBVIOUS
  <2>1. ASSUME LiesBeside(r) PROVE LiesBeside(r)'
    <3>1. PICK i \in 1 .. n :
             /\ s_pPendingOperations[i].pTrampoline = r
             /\ s_pPendingOperations[i].fIsRemove <=> Patched(i)
      BY <2>1, <1>1 DEF LiesBeside
    <3>2. /\ i - 1 \in 1 .. n - 1
          /\ s_pPendingOperations'[i - 1] = s_pPendingOperations[i]
          /\ i \in Nat \ {0} /\ i - 1 \in Nat \ {0}
      BY <3>1, <1>1, <1>2, <1>a
    <3>3. (Patched(i) <=> frees) /\ (Patched(i - 1)' <=> frees)
      BY <3>2
    <3> QED
      BY <3>1, <3>2, <3>3, <1>1 DEF LiesBeside
  <2>2. ASSUME LiesBeside(r)' PROVE LiesBeside(r)
    <3>1. PICK i \in 1 .. n - 1 :
             /\ s_pPendingOperations'[i].pTrampoline = r
             /\ s_pPendingOperations'[i].fIsRemove <=> Patched(i)'
      BY <2>2, <1>1 DEF LiesBeside
    <3>2. /\ i + 1 \in 1 .. n
          /\ s_pPendingOperations'[i] = s_pPendingOperations[i + 1]
          /\ Patched(i + 1) <=> frees
          /\ Patched(i)' <=> frees
      BY <3>1, <1>1, <1>2
    <3> QED
      BY <3>1, <3>2, <1>1 DEF LiesBeside
  <2> QED
    BY <2>1, <2>2
<1>9. /\ \A r \in Trampolines : r # s => trampoline'[r] = trampoline[r]
      /\ o.fIsRemove = frees => ~InUse(s)'
      /\ o.fIsRemove # frees => trampoline' = trampoline
  BY <1>3, <1>4 DEF TypeInv, TypeOK, InUse, FreeBlock
<1>10. Hooked' = Hooked
  BY <1>4, <1>6, <1>7, <1>8, <1>9 DEF Hooked, InUse
<1>11. \A r \in Hooked : trampoline'[r] = trampoline[r]
  BY <1>6, <1>9 DEF Hooked
<1>12. LinkInv' /\ PointerInv'
  BY <1>3, <1>10, <1>11, LinkFrame DEF HookInv
<1>13. ASSUME NEW i \in 1 .. n - 1 PROVE OperationFits(i)'
  <2>0. PICK q \in Operation : q = s_pPendingOperations[i + 1]
    BY <1>1, <1>2, OperationTypes
  <2>1. /\ s_pPendingOperations'[i] = q
        /\ trampoline'[q.pTrampoline] = trampoline[q.pTrampoline]
        /\ Patched(i)' <=> Patched(i + 1)
    BY <2>0, <1>1, <1>2, <1>5, <1>9 DEF Operation
  <2>2. OperationFits(i + 1)
    BY <1>1, <1>2 DEF HookInv, OperationInv
  <2> QED
    BY <2>0, <2>1, <2>2, <1>3 DEF OperationFits, SlotTarget, SlotRestore
<1>14. ASSUME NEW i \in 1 .. n - 1, NEW j \in 1 .. n - 1, i # j
       PROVE  s_pPendingOperations'[i].pbTarget # s_pPendingOperations'[j].pbTarget
  BY <1>1, <1>2, <1>14 DEF HookInv, OperationInv
<1>15. CursorInv'
  BY <1>3 DEF HookInv, CursorInv
<1> QED
  BY <1>1, <1>12, <1>13, <1>14, <1>15 DEF HookInv, OperationInv

-----------------------------------------------------------------------------
(* Staging.  The client is orderly, and the commit has not begun.          *)

\* A new operation o, whose patch is to come.
LEMMA StagedInv ==
    ASSUME TypeInv, OperationInv, NEW o \in Operation,
           s_pPendingOperations' = Listed(o),
           UNCHANGED <<code, pointer>>,
           \A i \in DOMAIN s_pPendingOperations :
              s_pPendingOperations[i].pbTarget # o.pbTarget,
           \A i \in DOMAIN s_pPendingOperations :
              trampoline'[s_pPendingOperations[i].pTrampoline] =
                 trampoline[s_pPendingOperations[i].pTrampoline],
           \A i \in DOMAIN s_pPendingOperations : ~Patched(i),
           \A i \in Nat \ {0} : ~Patched(i)',
           SlotTarget(o.pTrampoline)' = o.pbTarget,
           ~o.fIsRemove => /\ SlotRestore(o.pTrampoline)' = code[o.pbTarget]
                           /\ pointer[o.ppbPointer] = o.pbTarget,
           o.fIsRemove => /\ code[o.pbTarget] = o.pTrampoline
                          /\ pointer[o.ppbPointer] = o.pTrampoline
    PROVE  OperationInv'
<1> DEFINE n == Len(s_pPendingOperations)
<1>1. /\ n \in Nat
      /\ DOMAIN s_pPendingOperations = 1 .. n
      /\ DOMAIN s_pPendingOperations' = 1 .. n + 1
      /\ s_pPendingOperations'[1] = o
      /\ \A i \in 1 .. n : s_pPendingOperations'[i + 1] = s_pPendingOperations[i]
  BY ListedIndices DEF TypeInv, TypeOK
<1>2. \A i \in 1 .. n + 1 : i # 1 => i - 1 \in 1 .. n /\ i = (i - 1) + 1
  BY <1>1
<1>3. ASSUME NEW i \in 1 .. n + 1, NEW j \in 1 .. n + 1, i # j
      PROVE  s_pPendingOperations'[i].pbTarget # s_pPendingOperations'[j].pbTarget
  <2>a. ASSUME NEW k \in 1 .. n + 1, k # 1
        PROVE  s_pPendingOperations'[k].pbTarget # o.pbTarget
    <3>1. k - 1 \in 1 .. n /\ k = (k - 1) + 1
      BY <2>a, <1>2
    <3>2. s_pPendingOperations'[k] = s_pPendingOperations[k - 1]
      BY <3>1, <1>1
    <3> QED
      BY <3>1, <3>2, <1>1
  <2>1. CASE i = 1
    BY <2>1, <2>a, <1>1, <1>3
  <2>2. CASE j = 1
    BY <2>2, <2>a, <1>1, <1>3
  <2>3. CASE i # 1 /\ j # 1
    <3>1. i - 1 \in 1 .. n /\ j - 1 \in 1 .. n /\ i - 1 # j - 1
      BY <2>3, <1>1, <1>2, <1>3
    <3>2. s_pPendingOperations[i - 1].pbTarget # s_pPendingOperations[j - 1].pbTarget
      BY <3>1, <1>1 DEF OperationInv
    <3>3. /\ s_pPendingOperations'[i] = s_pPendingOperations[i - 1]
          /\ s_pPendingOperations'[j] = s_pPendingOperations[j - 1]
      BY <2>3, <1>1, <1>2
    <3> QED
      BY <3>2, <3>3
  <2> QED
    BY <2>1, <2>2, <2>3
<1>4. ASSUME NEW i \in 1 .. n + 1 PROVE OperationFits(i)'
  <2>1. ~Patched(i)'
    BY <1>1
  <2>2. CASE i = 1
    BY <2>1, <2>2, <1>1 DEF OperationFits, SlotTarget, SlotRestore
  <2>3. CASE i # 1
    <3>1. PICK j \in 1 .. n : i = j + 1
      BY <2>3, <1>2
    <3>2. PICK q \in Operation : q = s_pPendingOperations[j]
      BY <1>1, OperationTypes
    <3>3. /\ s_pPendingOperations'[i] = q
          /\ trampoline'[q.pTrampoline] = trampoline[q.pTrampoline]
      BY <3>1, <3>2, <1>1
    <3>4. OperationFits(j) /\ ~Patched(j)
      BY <1>1 DEF OperationInv
    <3> QED
      BY <2>1, <3>2, <3>3, <3>4 DEF OperationFits, SlotTarget, SlotRestore
  <2> QED
    BY <2>2, <2>3
<1> QED
  BY <1>1, <1>3, <1>4 DEF OperationInv

\* The slots that lie beside the hooks, with one operation more.
LEMMA StagedBeside ==
    ASSUME TypeInv, NEW o \in Operation, s_pPendingOperations' = Listed(o),
           \A i \in DOMAIN s_pPendingOperations : ~Patched(i),
           \A i \in Nat \ {0} : ~Patched(i)',
           NEW s \in Trampolines
    PROVE  LiesBeside(s)' <=>
              LiesBeside(s) \/ (o.pTrampoline = s /\ ~o.fIsRemove)
<1> DEFINE n == Len(s_pPendingOperations)
<1>1. /\ n \in Nat
      /\ DOMAIN s_pPendingOperations = 1 .. n
      /\ DOMAIN s_pPendingOperations' = 1 .. n + 1
      /\ s_pPendingOperations'[1] = o
      /\ \A i \in 1 .. n : s_pPendingOperations'[i + 1] = s_pPendingOperations[i]
  BY ListedIndices DEF TypeInv, TypeOK
<1>2. LiesBeside(s) <=> \E i \in 1 .. n :
         /\ s_pPendingOperations[i].pTrampoline = s
         /\ ~s_pPendingOperations[i].fIsRemove
  BY <1>1, OperationTypes DEF LiesBeside
<1>3. \A i \in 1 .. n + 1 : s_pPendingOperations'[i].fIsRemove \in BOOLEAN
  <2> SUFFICES ASSUME NEW i \in 1 .. n + 1
               PROVE  s_pPendingOperations'[i].fIsRemove \in BOOLEAN
      OBVIOUS
  <2>1. CASE i = 1
    BY <2>1, <1>1 DEF Operation
  <2>2. CASE i # 1
    <3>1. i - 1 \in 1 .. n /\ i = (i - 1) + 1
      BY <2>2, <1>1
    <3> QED
      BY <3>1, <1>1, OperationTypes
  <2> QED
    BY <2>1, <2>2
<1>4. LiesBeside(s)' <=> \E i \in 1 .. n + 1 :
         /\ s_pPendingOperations'[i].pTrampoline = s
         /\ ~s_pPendingOperations'[i].fIsRemove
  BY <1>1, <1>3 DEF LiesBeside
<1>5. ASSUME LiesBeside(s) PROVE LiesBeside(s)'
  <2>1. PICK i \in 1 .. n : /\ s_pPendingOperations[i].pTrampoline = s
                            /\ ~s_pPendingOperations[i].fIsRemove
    BY <1>2, <1>5
  <2>2. i + 1 \in 1 .. n + 1
    BY <1>1
  <2> QED
    BY <2>1, <2>2, <1>1, <1>4
<1>6. ASSUME o.pTrampoline = s, ~o.fIsRemove PROVE LiesBeside(s)'
  <2>1. 1 \in 1 .. n + 1
    BY <1>1
  <2> QED
    BY <2>1, <1>1, <1>4, <1>6
<1>7. ASSUME LiesBeside(s)', ~(o.pTrampoline = s /\ ~o.fIsRemove)
      PROVE  LiesBeside(s)
  <2>1. PICK i \in 1 .. n + 1 : /\ s_pPendingOperations'[i].pTrampoline = s
                                /\ ~s_pPendingOperations'[i].fIsRemove
    BY <1>4, <1>7
  <2>2. i - 1 \in 1 .. n /\ i = (i - 1) + 1
    BY <2>1, <1>1, <1>7
  <2> QED
    BY <2>1, <2>2, <1>1, <1>2
<1> QED
  BY <1>5, <1>6, <1>7

LEMMA StagingPlace ==
    ASSUME TypeInv, HookInv, NEW t \in Threads, Staging(t),
           UNCHANGED <<pc, cursor>>
    PROVE  /\ \A i \in DOMAIN s_pPendingOperations : ~Patched(i)
           /\ \A i \in Nat \ {0} : ~Patched(i)'
           /\ CursorInv'
<1>1. Owns(t) /\ pc[t] = "client"
  BY DEF Staging, Calls
<1>2. cursor = 0 /\ \A i \in DOMAIN s_pPendingOperations : ~Patched(i)
  BY <1>1, NotPatchedYet DEF HookInv
<1>3. \A u \in Threads : pc[u] # "restore"
  BY <1>1 DEF TypeInv, ControlOK, OwnerPlaces, Owns
<1> QED
  BY <1>2, <1>3 DEF Patched, CursorInv

LEMMA AttachStagesHooks ==
    ASSUME TypeInv, HookInv, NEW t \in Threads, NEW p \in Pointers,
           NEW d \in Detours, Orderly(p), AttachStages(t, p, d)
    PROVE  HookInv'
<1>1. /\ Staging(t)
      /\ pointer[p] \in Funcs
      /\ UNCHANGED <<code, pointer, pc, cursor>>
  BY DEF AttachStages, control
<1>2. PICK f \in Funcs : f = pointer[p]
  BY <1>1
<1>3. PICK s \in Trampolines :
         /\ AllocTrampoline(s)
         /\ trampoline' = [trampoline EXCEPT ![s] =
                [pbTarget |-> f, pbDetour |-> d,
                 rbRestore |-> CopiedBytes(f, s)]]
         /\ PushOperation(t, [fIsRemove |-> FALSE, ppbPointer |-> p,
                              pbTarget |-> f, pTrampoline |-> s,
                              dwPerm |-> protect[PageOf[f]]])
  BY <1>2 DEF AttachStages
<1>4. PICK o : o = [fIsRemove |-> FALSE, ppbPointer |-> p, pbTarget |-> f,
                    pTrampoline |-> s, dwPerm |-> protect[PageOf[f]]]
  OBVIOUS
<1>5. o \in Operation
  BY <1>4, PageOfAssumption DEF Operation, TypeInv, TypeOK
<1>6. s_pPendingOperations' = Listed(o)
  BY <1>3, <1>4 DEF PushOperation
<1>7. /\ \A i \in DOMAIN s_pPendingOperations : ~Patched(i)
      /\ \A i \in Nat \ {0} : ~Patched(i)'
      /\ CursorInv'
  BY <1>1, StagingPlace
<1>8. /\ ~InUse(s)
      /\ SlotTarget(s)' = f /\ SlotRestore(s)' = code[f]
      /\ \A r \in Trampolines : r # s => trampoline'[r] = trampoline[r]
  BY <1>3 DEF AllocTrampoline, CopiedBytes, SlotTarget, SlotRestore, TypeInv,
              TypeOK

\* The pending operations are on other slots, which are in use.
<1>9. \A i \in DOMAIN s_pPendingOperations :
         /\ s_pPendingOperations[i].pTrampoline \in Trampolines \ {s}
         /\ s_pPendingOperations[i].pbTarget # f
  <2>1. \A i \in DOMAIN s_pPendingOperations :
           InUse(s_pPendingOperations[i].pTrampoline)
    BY OperationTypes, SlotTypes DEF HookInv, OperationInv, OperationFits
  <2>2. Pending(f) = {}
    BY <1>2, DisjointAssumption DEF Orderly, PointedFunction
  <2> QED
    BY <2>1, <2>2, <1>8, OperationTypes DEF Pending
<1>10. OperationInv'
  <2>1. \A i \in DOMAIN s_pPendingOperations :
           trampoline'[s_pPendingOperations[i].pTrampoline] =
              trampoline[s_pPendingOperations[i].pTrampoline]
    BY <1>8, <1>9
  <2>2. /\ SlotTarget(o.pTrampoline)' = o.pbTarget
        /\ SlotRestore(o.pTrampoline)' = code[o.pbTarget]
        /\ pointer[o.ppbPointer] = o.pbTarget
        /\ ~o.fIsRemove
    BY <1>2, <1>4, <1>8 DEF SlotTarget, SlotRestore
  <2>3. \A i \in DOMAIN s_pPendingOperations :
           s_pPendingOperations[i].pbTarget # o.pbTarget
    BY <1>4, <1>9
  <2> QED
    BY <2>1, <2>2, <2>3, <1>1, <1>5, <1>6, <1>7, StagedInv DEF HookInv
<1>11. Hooked' = Hooked
  <2>1. \A r \in Trampolines : LiesBeside(r)' <=> LiesBeside(r) \/ r = s
    BY <1>4, <1>5, <1>6, <1>7, StagedBeside
  <2>2. \A r \in Trampolines : r # s => (InUse(r)' <=> InUse(r))
    BY <1>8 DEF InUse
  <2> QED
    BY <2>1, <2>2, <1>8 DEF Hooked
<1>12. \A r \in Hooked : trampoline'[r] = trampoline[r]
  BY <1>8 DEF Hooked
<1>13. LinkInv' /\ PointerInv'
  BY <1>1, <1>11, <1>12, LinkFrame DEF HookInv
<1> QED
  BY <1>7, <1>10, <1>13 DEF HookInv

LEMMA DetachStagesHooks ==
    ASSUME TypeInv, HookInv, NEW t \in Threads, NEW p \in Pointers,
           NEW d \in Detours, Orderly(p), DetachStages(t, p, d)
    PROVE  HookInv'
<1>1. /\ Staging(t)
      /\ LooksInPlace(p, d)
      /\ UNCHANGED <<trampoline, code, pointer, pc, cursor>>
  BY DEF DetachStages, control
<1>2. PICK s \in Trampolines : s = pointer[p]
  BY <1>1 DEF LooksInPlace
<1>3. PICK f \in Funcs : f = SlotTarget(s)
  BY <1>1, <1>2, SlotTypes DEF LooksInPlace
<1>4. PICK o : o = [fIsRemove |-> TRUE, ppbPointer |-> p, pbTarget |-> f,
                    pTrampoline |-> s, dwPerm |-> protect[PageOf[f]]]
  OBVIOUS
<1>5. o \in Operation
  BY <1>4, PageOfAssumption DEF Operation, TypeInv, TypeOK
<1>6. s_pPendingOperations' = Listed(o)
  BY <1>2, <1>3, <1>4 DEF DetachStages, PushOperation, SlotTarget
<1>7. /\ \A i \in DOMAIN s_pPendingOperations : ~Patched(i)
      /\ \A i \in Nat \ {0} : ~Patched(i)'
      /\ CursorInv'
  BY <1>1, StagingPlace
<1>8. code[f] = s /\ Pending(f) = {}
  BY <1>2, <1>3 DEF Orderly, OnTop, PointedFunction, SlotTarget
<1>9. OperationInv'
  <2>1. /\ SlotTarget(o.pTrampoline)' = o.pbTarget
        /\ code[o.pbTarget] = o.pTrampoline
        /\ pointer[o.ppbPointer] = o.pTrampoline
        /\ o.fIsRemove
    BY <1>1, <1>2, <1>3, <1>4, <1>8 DEF SlotTarget
  <2>2. \A i \in DOMAIN s_pPendingOperations :
           s_pPendingOperations[i].pbTarget # o.pbTarget
    BY <1>4, <1>8 DEF Pending
  <2> QED
    BY <2>1, <2>2, <1>1, <1>5, <1>6, <1>7, StagedInv DEF HookInv
<1>10. Hooked' = Hooked
  <2>1. \A r \in Trampolines : LiesBeside(r)' <=> LiesBeside(r)
    BY <1>4, <1>5, <1>6, <1>7, StagedBeside
  <2> QED
    BY <2>1, <1>1 DEF Hooked, InUse
<1>11. LinkInv' /\ PointerInv'
  BY <1>1, <1>10, LinkFrame DEF HookInv
<1> QED
  BY <1>7, <1>9, <1>11 DEF HookInv

-----------------------------------------------------------------------------
(* The steps of the engine, action by action.                              *)

LEMMA AttachHooks ==
    ASSUME TypeInv, HookInv, NEW t \in Threads, NEW p \in Pointers,
           NEW d \in Detours, Orderly(p), Attach(t, p, d)
    PROVE  HookInv'
<1>1. CASE AttachStages(t, p, d)
  BY <1>1, AttachStagesHooks
<1>2. CASE ~AttachStages(t, p, d)
  <2>1. /\ UNCHANGED <<s_pPendingOperations, trampoline, code, pointer, pc,
                       cursor>>
        /\ pc[t] = "client"
    BY <1>2
    DEF Attach, StageRefused, StageNullPointer, AttachStub, AttachNoMemory,
        AttachTooSmall, AttachProtectFails, FailsOrStops, StageFails,
        StageStops, Staging, Calls, statics, memory, control
  <2> QED
    BY <2>1, StepFrame
<1> QED
  BY <1>1, <1>2

LEMMA DetachHooks ==
    ASSUME TypeInv, HookInv, NEW t \in Threads, NEW p \in Pointers,
           NEW d \in Detours, Orderly(p), Detach(t, p, d)
    PROVE  HookInv'
<1>1. CASE DetachStages(t, p, d)
  BY <1>1, DetachStagesHooks
<1>2. CASE ~DetachStages(t, p, d)
  <2>1. /\ UNCHANGED <<s_pPendingOperations, trampoline, code, pointer, pc,
                       cursor>>
        /\ pc[t] = "client"
    BY <1>2
    DEF Detach, StageRefused, StageNullPointer, DetachNoMemory,
        DetachNotInPlace, DetachProtectFails, FailsOrStops, StageFails,
        StageStops, Staging, Calls, statics, memory, control
  <2> QED
    BY <2>1, StepFrame
<1> QED
  BY <1>1, <1>2

LEMMA ClientHooks ==
    ASSUME Disciplined, TypeInv, WriteInv, HookInv, NEW t \in Threads,
           ClientNext(t)
    PROVE  HookInv'
<1> USE DEF statics, flags, memory, control, Goto, Calls
<1> pc \in [Threads -> Places]
  BY DEF TypeInv, TypeOK
<1>1. CASE BeginOwner(t)
  <2>1. s_pPendingOperations = <<>> /\ s_pPendingOperations' = <<>>
    BY <1>1 DEF BeginOwner, WriteInv, RegionInv
  <2> QED
    BY <1>1, <2>1, StepFrame DEF BeginOwner
<1>2. CASE \E b \in BOOLEAN : SetIgnoreTooSmall(t, b) \/ SetRetainRegions(t, b)
  BY <1>2, StepFrame DEF SetIgnoreTooSmall, SetRetainRegions
<1>3. CASE BeginBusy(t) \/ UpdateThreadNothing(t, "GetCurrentThread")
              \/ UpdateThreadFails(t)
  BY <1>3, StepFrame DEF BeginBusy, UpdateThreadNothing, UpdateThreadFails
<1>4. CASE \E u \in Threads : MaySuspend(t, u) /\ UpdateThreadSuspends(t, u)
  BY <1>4, StepFrame DEF UpdateThreadSuspends
<1>5. CASE \E p \in Pointers, d \in Detours :
              Orderly(p) /\ (Attach(t, p, d) \/ Detach(t, p, d))
  BY <1>5, AttachHooks, DetachHooks
<1>6. CASE CommitStarts(t)
  <2>1. Owns(t) /\ pc[t] = "client"
    BY <1>6 DEF CommitStarts
  <2>2. \A i \in DOMAIN s_pPendingOperations : ~Patched(i)
    BY <2>1, NotPatchedYet DEF HookInv
  <2>3. /\ cursor' = 1
        /\ pc' = [pc EXCEPT ![t] = "patch"]
        /\ UNCHANGED <<s_pPendingOperations, trampoline, code, pointer>>
    BY <1>6 DEF CommitStarts
  <2>4. CursorInv'
    BY <2>3 DEF CursorInv
  <2>5. \A u \in Threads : pc'[u] # "restore"
    BY <2>1, <2>3 DEF TypeInv, ControlOK, OwnerPlaces, Owns
  <2>6. \A i \in DOMAIN s_pPendingOperations : ~Patched(i)'
    BY <2>3, <2>5 DEF Patched, TypeInv, TypeOK
  <2> QED
    BY <2>2, <2>3, <2>4, <2>6, HookFrame
<1>7. CASE CommitRollsBack(t) \/ AbortStarts(t) \/ FinishRefused(t)
  BY <1>7, StepFrame DEF CommitRollsBack, AbortStarts, FinishRefused
<1> QED
  BY <1>1, <1>2, <1>3, <1>4, <1>5, <1>6, <1>7
  DEF ClientNext, Begin, Commit, Abort

LEMMA PatchingDoneHooks ==
    ASSUME TypeInv, HookInv, NEW t \in Threads, PatchingDone(t)
    PROVE  HookInv'
<1>1. /\ Owns(t) /\ pc[t] = "patch"
      /\ cursor > Len(s_pPendingOperations)
      /\ cursor' = 0
      /\ pc' = [pc EXCEPT ![t] = "restore"]
      /\ UNCHANGED <<s_pPendingOperations, trampoline, code, pointer>>
  BY DEF PatchingDone, At, PastEnd, Goto, statics, memory, TypeInv, ControlOK,
         OwnerPlaces
<1>2. \A i \in DOMAIN s_pPendingOperations : Patched(i)
  BY <1>1 DEF Patched, TypeInv, TypeOK
<1>3. \A i \in DOMAIN s_pPendingOperations : Patched(i)'
  BY <1>1 DEF Patched, TypeInv, TypeOK
<1>4. CursorInv'
  BY <1>1 DEF CursorInv
<1> QED
  BY <1>1, <1>2, <1>3, <1>4, HookFrame

LEMMA CallHooks ==
    ASSUME TypeInv, WriteInv, HookInv, NEW t \in Threads, CallNext(t)
    PROVE  HookInv'
<1> USE DEF statics, flags, memory, control, Goto, At
<1> pc \in [Threads -> Places]
  BY DEF TypeInv, TypeOK
<1>1. CASE PushThread(t)
  BY <1>1, StepFrame DEF PushThread
<1>2. CASE PatchOperation(t)
  BY <1>2, PatchOperationHooks
<1>3. CASE PatchingDone(t)
  BY <1>3, PatchingDoneHooks
<1>4. CASE RestoreOperation(t)
  <2>1. RestorePage(t, TRUE) /\ pc[t] = "restore"
    BY <1>4 DEF RestoreOperation
  <2>2. \A i \in Nat \ {0} : Patched(i) /\ Patched(i)'
    BY <2>1 DEF RestorePage, Patched
  <2> QED
    BY <2>1, <2>2, RestorePageHooks
<1>5. CASE AbortOperation(t)
  <2>1. RestorePage(t, FALSE) /\ pc[t] = "abort" /\ Owns(t)
    BY <1>5 DEF AbortOperation, TypeInv, ControlOK, OwnerPlaces
  <2>2. cursor = 0 /\ cursor' = 0
    BY <2>1, NotPatchedYet DEF HookInv, RestorePage
  <2>3. \A u \in Threads : pc[u] # "restore" /\ pc'[u] # "restore"
    BY <2>1 DEF RestorePage, TypeInv, ControlOK, OwnerPlaces, Owns
  <2>4. \A i \in Nat \ {0} : ~Patched(i) /\ ~Patched(i)'
    BY <2>2, <2>3 DEF Patched
  <2> QED
    BY <2>1, <2>4, RestorePageHooks
<1>6. CASE SettleRegions(t)
  BY <1>6, StepFrame DEF SettleRegions
<1>7. CASE ResumeThreads(t)
  BY <1>7, StepFrame DEF ResumeThreads
<1>8. CASE Release(t)
  BY <1>8, StepFrame DEF Release
<1>9. CASE CommitReturns(t)
  BY <1>9, StepFrame DEF CommitReturns
<1> QED
  BY <1>1, <1>2, <1>3, <1>4, <1>5, <1>6, <1>7, <1>8, <1>9 DEF CallNext

LEMMA InitHooks == Init => HookInv
<1> SUFFICES ASSUME Init PROVE HookInv
    OBVIOUS
<1>1. Hooked = {}
  BY DEF Init, Hooked, InUse, FreeBlock
<1>2. \A p \in Pointers : pointer[p] \notin Trampolines
  <2> SUFFICES ASSUME NEW p \in Pointers, pointer[p] \in Trampolines,
                      NEW s \in Trampolines, s = pointer[p]
               PROVE  FALSE
      OBVIOUS
  <2>1. s \in Funcs \cup {Null}
    BY TargetOfAssumption DEF Init
  <2> QED
    BY <2>1, DisjointAssumption, NullAssumption
<1>3. LinkInv /\ PointerInv
  BY <1>1, <1>2 DEF Init, LinkInv, PointerInv
<1>4. CursorInv /\ OperationInv
  BY DEF Init, CursorInv, OperationInv
<1> QED
  BY <1>3, <1>4 DEF HookInv

\* The clients' discipline is kept by every later transaction of theirs.
LEMMA HookInvHolds == ASSUME Disciplined PROVE Spec => []HookInv
<1>1. Init => HookInv
  BY InitHooks
<1>2. TypeInv /\ WriteInv /\ HookInv /\ [Next]_vars => HookInv'
  <2> SUFFICES ASSUME TypeInv, WriteInv, HookInv, [Next]_vars PROVE HookInv'
      OBVIOUS
  <2>1. CASE Next
    BY <2>1, ClientHooks, CallHooks DEF Next
  <2>2. CASE UNCHANGED vars
    <3>1. UNCHANGED <<s_pPendingOperations, trampoline, code, pointer, pc,
                      cursor>>
      BY <2>2 DEF vars, statics, memory, control
    <3> QED
      BY <3>1, HookFrame DEF HookInv, CursorInv, Patched
  <2> QED
    BY <2>1, <2>2
<1> QED
  BY <1>1, <1>2, TypeCorrect, WriteInvHolds, PTL DEF Spec

-----------------------------------------------------------------------------
(* The properties.                                                         *)

\* No jump of a function or of a trampoline leads to a slot that was freed or
\* given to another function, at any point of a commit or an abort.
THEOREM JumpsLeadSomewhere == ASSUME Disciplined PROVE Spec => []NoDanglingJump
<1>1. TypeInv /\ HookInv => NoDanglingJump
  <2> SUFFICES ASSUME TypeInv, HookInv PROVE NoDanglingJump
      OBVIOUS
  <2>1. \A f \in Funcs : code[f] # Original => trampoline[code[f]].pbTarget = f
    BY DEF HookInv, LinkInv, SlotTarget
  <2>2. ASSUME NEW s \in Trampolines, InUse(s), SlotRestore(s) # Original
        PROVE  SlotTarget(SlotRestore(s)) = SlotTarget(s)
    <3>1. CASE s \in Hooked
      BY <2>2, <3>1 DEF HookInv, LinkInv
    <3>2. CASE s \notin Hooked
      <4>1. PICK i \in DOMAIN s_pPendingOperations :
               /\ s_pPendingOperations[i].pTrampoline = s
               /\ s_pPendingOperations[i].fIsRemove <=> Patched(i)
        BY <2>2, <3>2 DEF Hooked, LiesBeside
      <4>2. PICK f \in Funcs : f = s_pPendingOperations[i].pbTarget
        BY OperationTypes
      <4>3. SlotTarget(s) = f /\ SlotRestore(s) = code[f]
        BY <4>1, <4>2 DEF HookInv, OperationInv, OperationFits
      <4> QED
        BY <2>2, <4>3 DEF HookInv, LinkInv
    <3> QED
      BY <3>1, <3>2
  <2> QED
    BY <2>1, <2>2 DEF NoDanglingJump, SlotTarget, SlotRestore
<1> QED
  BY <1>1, TypeCorrect, HookInvHolds, PTL

\* No slot leaks: one that is in use has a jump to it, or an operation that
\* will hook it in or free it.
THEOREM SlotsAreReachable == ASSUME Disciplined PROVE Spec => []NoTrampolineLost
<1>1. TypeInv /\ HookInv => NoTrampolineLost
  <2> SUFFICES ASSUME TypeInv, HookInv, NEW s \in Trampolines, InUse(s)
               PROVE  \/ \E f \in Funcs : code[f] = s
                      \/ \E r \in Trampolines :
                            InUse(r) /\ trampoline[r].rbRestore = s
                      \/ \E i \in DOMAIN s_pPendingOperations :
                            s_pPendingOperations[i].pTrampoline = s
      BY DEF NoTrampolineLost
  <2>1. CASE s \in Hooked
    <3>1. \/ code[SlotTarget(s)] = s
          \/ \E r \in Hooked : SlotRestore(r) = s
      BY <2>1 DEF HookInv, LinkInv
    <3>2. SlotTarget(s) \in Funcs
      BY SlotTypes
    <3> QED
      BY <3>1, <3>2 DEF Hooked, SlotRestore
  <2>2. CASE s \notin Hooked
    BY <2>2 DEF Hooked, LiesBeside
  <2> QED
    BY <2>1, <2>2
<1> QED
  BY <1>1, TypeCorrect, HookInvHolds, PTL

\* Between transactions the pointers that are not functions are the slots in
\* use, one for one: each hook can be removed, and no pointer is stale.
THEOREM PointersAreHooks == ASSUME Disciplined PROVE Spec => []PointersMatchHooks
<1>1. WriteInv /\ HookInv => PointersMatchHooks
  <2> SUFFICES ASSUME WriteInv, HookInv, s_nPendingThreadId = NoThread
               PROVE  /\ \A s \in Trampolines :
                            InUse(s) => \E p \in Pointers : pointer[p] = s
                      /\ \A p \in Pointers : pointer[p] \in Trampolines =>
                            /\ trampoline[pointer[p]].pbTarget = TargetOf[p]
                            /\ \A q \in Pointers : pointer[q] = pointer[p] => q = p
      BY DEF PointersMatchHooks
  <2>1. s_pPendingOperations = <<>>
    BY DEF WriteInv, RegionInv
  <2>2. \A s \in Trampolines : InUse(s) => s \in Hooked
    BY <2>1 DEF Hooked, LiesBeside
  <2> QED
    BY <2>2 DEF HookInv, PointerInv, SlotTarget
<1> QED
  BY <1>1, WriteInvHolds, HookInvHolds, PTL

-----------------------------------------------------------------------------
(* The call of a hooked function, by induction along the chain of jumps.   *)

\* A function can be applied over and over.
LEMMA Iteration ==
    ASSUME NEW X, NEW a \in X, NEW h \in [X -> X]
    PROVE  \E g \in [Nat -> X] : g[0] = a /\ \A n \in Nat : g[n + 1] = h[g[n]]
<1> DEFINE Tries(n) == {g \in [0 .. n -> X] :
                           /\ g[0] = a
                           /\ \A m \in 0 .. n - 1 : g[m + 1] = h[g[m]]}
           Reached  == {n \in Nat : Tries(n) # {}}
           Agreed   == {m \in Nat : \A n, k \in Nat :
                           m <= n /\ m <= k =>
                             \A g \in Tries(n), e \in Tries(k) : g[m] = e[m]}
<1>1. \A n \in Nat : n \in Reached
  <2>1. 0 \in Reached
    <3>1. [m \in 0 .. 0 |-> a] \in Tries(0)
      OBVIOUS
    <3> QED
      BY <3>1
  <2>2. ASSUME NEW n \in Nat, n \in Reached PROVE n + 1 \in Reached
    <3>1. PICK g : g \in Tries(n)
      BY <2>2
    <3> DEFINE e == [m \in 0 .. n + 1 |-> IF m <= n THEN g[m] ELSE h[g[n]]]
    <3>2. e \in [0 .. n + 1 -> X] /\ e[0] = a
      BY <3>1
    <3>3. ASSUME NEW m \in 0 .. (n + 1) - 1 PROVE e[m + 1] = h[e[m]]
      <4>1. CASE m = n
        BY <4>1
      <4>2. CASE m # n
        <5>1. m \in 0 .. n - 1 /\ m + 1 \in 0 .. n
          BY <4>2
        <5> QED
          BY <5>1, <3>1
      <4> QED
        BY <4>1, <4>2
    <3>4. e \in Tries(n + 1)
      BY <3>2, <3>3
    <3> HIDE DEF Tries, e
    <3> QED
      BY <3>4
  <2> HIDE DEF Reached
  <2> QED
    BY <2>1, <2>2, SetInduction
<1>2. \A m \in Nat : m \in Agreed
  <2>1. 0 \in Agreed
    OBVIOUS
  <2>2. ASSUME NEW m \in Nat, m \in Agreed PROVE m + 1 \in Agreed
    <3> SUFFICES ASSUME NEW n \in Nat, NEW k \in Nat, m + 1 <= n, m + 1 <= k,
                        NEW g \in Tries(n), NEW e \in Tries(k)
                 PROVE  g[m + 1] = e[m + 1]
        OBVIOUS
    <3>1. m \in 0 .. n - 1 /\ m \in 0 .. k - 1 /\ m <= n /\ m <= k
      OBVIOUS
    <3>2. g[m + 1] = h[g[m]] /\ e[m + 1] = h[e[m]]
      BY <3>1
    <3> HIDE DEF Tries
    <3>3. g[m] = e[m]
      BY <2>2, <3>1
    <3> QED
      BY <3>2, <3>3
  <2> HIDE DEF Agreed
  <2> QED
    BY <2>1, <2>2, SetInduction
<1> DEFINE G == [n \in Nat |-> (CHOOSE g : g \in Tries(n))[n]]
<1>3. \A n \in Nat : (CHOOSE g : g \in Tries(n)) \in Tries(n)
  BY <1>1
<1>4. \A n \in Nat : \A g \in Tries(n) : n \in 0 .. n /\ g[n] \in X
  OBVIOUS
<1>5. G \in [Nat -> X]
  BY <1>3, <1>4
<1>6. G[0] = a
  BY <1>3
<1>7. ASSUME NEW n \in Nat PROVE G[n + 1] = h[G[n]]
  <2> HIDE DEF Tries
  <2>1. PICK g : g \in Tries(n) /\ G[n] = g[n]
    BY <1>3
  <2>a. n + 1 \in Nat /\ n <= n /\ n <= n + 1
    OBVIOUS
  <2>2. PICK e : e \in Tries(n + 1) /\ G[n + 1] = e[n + 1]
    BY <2>a, <1>3
  <2>3. g[n] = e[n]
    BY <2>a, <1>2, <2>1, <2>2
  <2>4. n \in 0 .. (n + 1) - 1
    OBVIOUS
  <2>5. e[n + 1] = h[e[n]]
    BY <2>2, <2>4 DEF Tries
  <2> QED
    BY <2>1, <2>2, <2>3, <2>5
<1> QED
  BY <1>5, <1>6, <1>7

-----------------------------------------------------------------------------
(* The chain of jumps a call goes through.                                 *)

Codes == Trampolines \cup {Original}

\* CallChain for any entry code and any contents of the slots.
Jumps(entry, slots) ==
    LET chain[n \in Nat] ==
            IF n = 0 THEN entry
            ELSE IF chain[n - 1] = Original THEN Original
            ELSE slots[chain[n - 1]].rbRestore
    IN  chain

\* The recursion has a solution, which is the function Jumps chooses.
LEMMA JumpsSteps ==
    ASSUME NEW entry \in Codes, NEW slots,
           \A s \in Trampolines : slots[s].rbRestore \in Codes
    PROVE  /\ Jumps(entry, slots) \in [Nat -> Codes]
           /\ Jumps(entry, slots)[0] = entry
           /\ \A n \in Nat : Jumps(entry, slots)[n + 1] =
                 IF Jumps(entry, slots)[n] = Original THEN Original
                 ELSE slots[Jumps(entry, slots)[n]].rbRestore
<1> DEFINE h == [s \in Codes |-> IF s = Original THEN Original
                                 ELSE slots[s].rbRestore]
           Chain(c) == [n \in Nat |->
               IF n = 0 THEN entry
               ELSE IF c[n - 1] = Original THEN Original
               ELSE slots[c[n - 1]].rbRestore]
<1>1. h \in [Codes -> Codes]
  BY DEF Codes
<1>2. PICK g \in [Nat -> Codes] :
         g[0] = entry /\ \A n \in Nat : g[n + 1] = h[g[n]]
  <2> HIDE DEF h
  <2> QED
    BY <1>1, Iteration
<1>3. g = Chain(g)
  <2>1. ASSUME NEW n \in Nat PROVE g[n] = Chain(g)[n]
    <3>1. CASE n = 0
      BY <3>1, <1>2
    <3>2. CASE n # 0
      <4>1. n - 1 \in Nat /\ n = (n - 1) + 1
        BY <3>2
      <4>2. g[n] = h[g[n - 1]] /\ g[n - 1] \in Codes
        BY <4>1, <1>2
      <4> QED
        BY <3>2, <4>2
    <3> QED
      BY <3>1, <3>2
  <2> QED
    BY <2>1, <1>2
<1>4. Jumps(entry, slots) = CHOOSE c : c = Chain(c)
  BY DEF Jumps
<1>5. Jumps(entry, slots) = Chain(Jumps(entry, slots))
  <2> HIDE DEF Chain
  <2> QED
    BY <1>3, <1>4
<1>6. PICK c : c = Jumps(entry, slots) /\ c = Chain(c)
  BY <1>5
<1>7. c[0] = entry
  BY <1>6
<1>8. \A n \in Nat : c[n + 1] = IF c[n] = Original THEN Original
                                ELSE slots[c[n]].rbRestore
  <2> SUFFICES ASSUME NEW n \in Nat
               PROVE  c[n + 1] = IF c[n] = Original THEN Original
                                 ELSE slots[c[n]].rbRestore
      OBVIOUS
  <2>1. n + 1 \in Nat /\ n + 1 # 0 /\ (n + 1) - 1 = n
    OBVIOUS
  <2>2. Chain(c)[n + 1] = IF c[(n + 1) - 1] = Original THEN Original
                          ELSE slots[c[(n + 1) - 1]].rbRestore
    BY <2>1
  <2> QED
    BY <2>1, <2>2, <1>6
<1>9. \A n \in Nat : c[n] \in Codes
  <2> DEFINE S == {n \in Nat : c[n] \in Codes}
  <2>1. 0 \in S
    BY <1>7
  <2>2. ASSUME NEW n \in Nat, n \in S PROVE n + 1 \in S
    BY <2>2, <1>8 DEF Codes
  <2> HIDE DEF S
  <2>3. \A n \in Nat : n \in S
    BY <2>1, <2>2, SetInduction
  <2> QED
    BY <2>3 DEF S
<1>10. c \in [Nat -> Codes]
  <2>1. c = [n \in Nat |-> c[n]]
    BY <1>6
  <2> QED
    BY <2>1, <1>9
<1> QED
  BY <1>6, <1>7, <1>8, <1>10

\* CallChain as the recursion it is defined by.
LEMMA ChainSteps ==
    ASSUME TypeInv, NEW f \in Funcs
    PROVE  /\ CallChain(f) \in [Nat -> Codes]
           /\ CallChain(f)[0] = code[f]
           /\ \A n \in Nat : CallChain(f)[n + 1] =
                 IF CallChain(f)[n] = Original THEN Original
                 ELSE SlotRestore(CallChain(f)[n])
<1>1. CallChain(f) = Jumps(code[f], trampoline)
  BY DEF CallChain, Jumps
<1>2. code[f] \in Codes
  BY DEF TypeInv, TypeOK, Codes
<1>3. \A s \in Trampolines : trampoline[s].rbRestore \in Codes
  BY SlotTypes DEF Codes, SlotRestore
<1> QED
  BY <1>1, <1>2, <1>3, JumpsSteps DEF SlotRestore

\* Every jump of a call leads to a hooked trampoline of the function.
LEMMA ChainHooked ==
    ASSUME TypeInv, LinkInv, NEW f \in Funcs
    PROVE  \A n \in Nat : CallChain(f)[n] # Original =>
              /\ CallChain(f)[n] \in Hooked
              /\ SlotTarget(CallChain(f)[n]) = f
<1> DEFINE c == CallChain(f)
           S == {n \in Nat : c[n] # Original =>
                               c[n] \in Hooked /\ SlotTarget(c[n]) = f}
<1>1. /\ c[0] = code[f]
      /\ \A n \in Nat : c[n + 1] = IF c[n] = Original THEN Original
                                   ELSE SlotRestore(c[n])
  BY ChainSteps
<1> HIDE DEF c
<1>2. 0 \in S
  BY <1>1 DEF LinkInv
<1>3. ASSUME NEW n \in Nat, n \in S PROVE n + 1 \in S
  <2>1. CASE c[n] = Original
    BY <2>1, <1>1
  <2>2. CASE c[n] # Original
    <3>1. /\ c[n] \in Hooked /\ SlotTarget(c[n]) = f
          /\ c[n + 1] = SlotRestore(c[n])
      BY <2>2, <1>1, <1>3
    <3> QED
      BY <3>1 DEF LinkInv
  <2> QED
    BY <2>1, <2>2
<1> HIDE DEF S
<1>4. \A n \in Nat : n \in S
  BY <1>2, <1>3, SetInduction
<1> QED
  BY <1>4 DEF S, c

\* No trampoline is on the chain twice: each has one jump to it, and the first
\* has the function's.
LEMMA ChainInjective ==
    ASSUME TypeInv, LinkInv, NEW f \in Funcs
    PROVE  \A m, n \in Nat : m < n /\ CallChain(f)[m] = CallChain(f)[n] =>
              CallChain(f)[m] = Original
<1> DEFINE c == CallChain(f)
           S == {m \in Nat : \A n \in Nat :
                    m < n /\ c[m] = c[n] => c[m] = Original}
<1>1. /\ c[0] = code[f]
      /\ \A n \in Nat : c[n + 1] = IF c[n] = Original THEN Original
                                   ELSE SlotRestore(c[n])
      /\ \A n \in Nat : c[n] # Original =>
            c[n] \in Hooked /\ SlotTarget(c[n]) = f
  BY ChainSteps, ChainHooked
<1> HIDE DEF c
<1>2. 0 \in S
  <2> SUFFICES ASSUME NEW n \in Nat, 0 < n, c[0] = c[n], c[n] # Original
               PROVE  FALSE
      OBVIOUS
  <2>1. PICK k \in Nat : n = k + 1
    <3>1. n - 1 \in Nat /\ n = (n - 1) + 1
      OBVIOUS
    <3> QED
      BY <3>1
  <2>2. c[k] \in Hooked /\ SlotTarget(c[k]) = f /\ c[n] = SlotRestore(c[k])
    BY <2>1, <1>1
  <2> QED
    BY <2>2, <1>1 DEF LinkInv
<1>3. ASSUME NEW m \in Nat, m \in S PROVE m + 1 \in S
  <2> SUFFICES ASSUME NEW n \in Nat, m + 1 < n, c[m + 1] = c[n],
                      c[m + 1] # Original
               PROVE  FALSE
      OBVIOUS
  <2>1. PICK k \in Nat : n = k + 1 /\ m < k
    <3>1. n - 1 \in Nat /\ n = (n - 1) + 1 /\ m < n - 1
      OBVIOUS
    <3> QED
      BY <3>1
  <2>2. /\ c[k] \in Hooked /\ c[n] = SlotRestore(c[k])
        /\ c[m] \in Hooked /\ c[m + 1] = SlotRestore(c[m])
        /\ c[m] # Original
    BY <2>1, <1>1
  <2>3. c[m] = c[k]
    BY <2>2 DEF LinkInv
  <2> QED
    BY <2>1, <2>2, <2>3, <1>3
<1> HIDE DEF S
<1>4. \A m \in Nat : m \in S
  BY <1>2, <1>3, SetInduction
<1> QED
  BY <1>4 DEF S, c

\* Once at the function's own code, the chain stays there.
LEMMA ChainEnds ==
    ASSUME TypeInv, NEW f \in Funcs, NEW m \in Nat, CallChain(f)[m] = Original
    PROVE  \A n \in Nat : m <= n => CallChain(f)[n] = Original
<1> DEFINE c == CallChain(f)
           S == {n \in Nat : m <= n => c[n] = Original}
<1>1. /\ c[m] = Original
      /\ \A n \in Nat : c[n + 1] = IF c[n] = Original THEN Original
                                   ELSE SlotRestore(c[n])
  BY ChainSteps
<1> HIDE DEF c
<1>2. 0 \in S
  BY <1>1
<1>3. ASSUME NEW n \in Nat, n \in S PROVE n + 1 \in S
  <2>1. CASE m <= n
    BY <2>1, <1>1, <1>3
  <2>2. CASE ~(m <= n)
    <3>1. m <= n + 1 => m = n + 1
      BY <2>2
    <3> QED
      BY <3>1, <1>1
  <2> QED
    BY <2>1, <2>2
<1> HIDE DEF S
<1>4. \A n \in Nat : n \in S
  BY <1>2, <1>3, SetInduction
<1> QED
  BY <1>4 DEF S, c

\* There are too few trampolines for a longer chain.
LEMMA ChainIsShort ==
    ASSUME TypeInv, LinkInv, NEW f \in Funcs
    PROVE  /\ Cardinality(Trampolines) \in Nat
           /\ CallChain(f)[Cardinality(Trampolines)] = Original
<1> DEFINE c == CallChain(f)
           N == Cardinality(Trampolines)
<1>1. N \in Nat
  BY FiniteAssumption, FS_CardinalityType
<1>2. c \in [Nat -> Trampolines \cup {Original}]
  BY ChainSteps DEF Codes
<1>3. \A m \in Nat : c[m] = Original => \A n \in Nat : m <= n => c[n] = Original
  BY ChainEnds
<1>4. \A m, n \in Nat : m < n /\ c[m] = c[n] => c[m] = Original
  BY ChainInjective
<1>5. IsFiniteSet(0 .. N) /\ Cardinality(0 .. N) = N + 1
  BY <1>1, FS_Interval
<1> SUFFICES ASSUME c[N] # Original PROVE FALSE
    BY <1>1
<1> HIDE DEF c, N
<1>6. \A n \in 0 .. N : c[n] \in Trampolines /\ c[n] # Original
  BY <1>1, <1>2, <1>3
<1> DEFINE g == [n \in 0 .. N |-> c[n]]
<1>7. g \in [0 .. N -> Trampolines]
  BY <1>6
<1>8. \E m, n \in 0 .. N : m # n /\ g[m] = g[n]
  <2> HIDE DEF g
  <2>1. Cardinality(Trampolines) < Cardinality(0 .. N)
    BY <1>1, <1>5 DEF N
  <2> QED
    BY <2>1, <1>5, <1>7, FiniteAssumption, FS_PigeonHole
<1>9. PICK m \in 0 .. N, n \in 0 .. N : m # n /\ c[m] = c[n]
  BY <1>8
<1>10. m < n \/ n < m
  BY <1>1, <1>9
<1> QED
  BY <1>1, <1>4, <1>6, <1>9, <1>10

\* A call of a function goes through its detours, each once, and comes to the
\* function's own code, at any point of a commit or an abort.
THEOREM CallsReachOriginal ==
    ASSUME Disciplined PROVE Spec => []CallReachesOriginal
<1>1. TypeInv /\ HookInv => CallReachesOriginal
  BY ChainIsShort DEF HookInv, CallReachesOriginal
<1> QED
  BY <1>1, TypeCorrect, HookInvHolds, PTL

-----------------------------------------------------------------------------
(* Chains of jumps, and the detours along them.                            *)

N == Cardinality(Trampolines)

\* The number of jumps of a chain that comes to the original code.
Ends(c) == CHOOSE n \in 0 .. N : /\ c[n] = Original
                                /\ \A m \in 0 .. n - 1 : c[m] # Original

Route(c, slots) == [n \in 1 .. Ends(c) |-> slots[c[n - 1]].pbDetour]

LEMMA NumberOfSlots == N \in Nat
BY FiniteAssumption, FS_CardinalityType DEF N

LEMMA EndsAt ==
    ASSUME NEW c, c[N] = Original
    PROVE  /\ Ends(c) \in 0 .. N
           /\ c[Ends(c)] = Original
           /\ \A m \in 0 .. Ends(c) - 1 : c[m] # Original
<1> DEFINE S == {n \in 0 .. N : c[n] = Original}
<1>1. S \in SUBSET Nat /\ N \in S
  BY NumberOfSlots
<1> HIDE DEF S
<1>2. PICK n \in S : \A m \in S : n <= m
  BY <1>1, LeastMember
<1>3. /\ n \in 0 .. N /\ c[n] = Original
      /\ \A m \in 0 .. n - 1 : c[m] # Original
  BY <1>2, NumberOfSlots DEF S
<1> QED
  BY <1>3 DEF Ends

LEMMA EndsOnce ==
    ASSUME NEW c, NEW n \in 0 .. N, c[n] = Original,
           \A m \in 0 .. n - 1 : c[m] # Original
    PROVE  Ends(c) = n
<1> DEFINE End(k) == c[k] = Original /\ \A m \in 0 .. k - 1 : c[m] # Original
<1>1. End(n)
  OBVIOUS
<1>2. \A k \in 0 .. N : End(k) => k = n
  <2> SUFFICES ASSUME NEW k \in 0 .. N, End(k) PROVE k = n
      OBVIOUS
  <2>1. ~(k < n) /\ ~(n < k)
    BY NumberOfSlots
  <2> QED
    BY <2>1, NumberOfSlots
<1>3. Ends(c) = CHOOSE k \in 0 .. N : End(k)
  BY DEF Ends
<1> HIDE DEF End
<1> QED
  BY <1>1, <1>2, <1>3

DetourSlots(slots) ==
    \A s \in Trampolines : slots[s].pbDetour \in Detours \cup {Null}

LEMMA RouteType ==
    ASSUME NEW c, NEW slots, c[N] = Original, c \in [Nat -> Codes],
           DetourSlots(slots)
    PROVE  Route(c, slots) \in Seq(Detours \cup {Null})
<1>1. /\ Ends(c) \in Nat
      /\ \A m \in 0 .. Ends(c) - 1 : c[m] \in Trampolines
  BY EndsAt, NumberOfSlots DEF Codes
<1>2. \A n \in 1 .. Ends(c) : slots[c[n - 1]].pbDetour \in Detours \cup {Null}
  BY <1>1 DEF DetourSlots
<1> QED
  BY <1>1, <1>2 DEF Route

LEMMA Cons ==
    ASSUME NEW D, NEW d \in D, NEW r \in Seq(D), NEW q, q = <<d>> \o r
    PROVE  /\ q \in Seq(D)
           /\ Len(q) = Len(r) + 1
           /\ Tail(q) = r
           /\ q[1] = d
           /\ \A n \in 1 .. Len(r) : q[n + 1] = r[n]
<1>1. q \in Seq(D) /\ Len(q) = Len(r) + 1
  OBVIOUS
<1>2. q[1] = d /\ \A n \in 1 .. Len(r) : q[n + 1] = r[n]
  OBVIOUS
<1>3. Tail(q) = r
  <2>1. Tail(q) \in Seq(D) /\ Len(Tail(q)) = Len(r)
    BY <1>1
  <2>2. \A n \in 1 .. Len(r) : Tail(q)[n] = r[n]
    BY <1>1, <1>2
  <2> QED
    BY <2>1, <2>2
<1> QED
  BY <1>1, <1>2, <1>3

\* One more trampoline in front of a chain.
Pushed(c, e, s) == e[0] = s /\ \A n \in Nat : e[n + 1] = c[n]

LEMMA RoutePushed ==
    ASSUME NEW c \in [Nat -> Codes], NEW e \in [Nat -> Codes], NEW slots,
           DetourSlots(slots),
           NEW s \in Trampolines, Pushed(c, e, s),
           c[N] = Original, e[N] = Original
    PROVE  /\ Route(e, slots) = <<slots[s].pbDetour>> \o Route(c, slots)
           /\ Route(e, slots) # <<>>
           /\ Tail(Route(e, slots)) = Route(c, slots)
<1>1. PICK k \in Nat : /\ k = Ends(c) /\ k \in 0 .. N /\ c[k] = Original
                       /\ \A m \in 0 .. k - 1 : c[m] # Original
  BY EndsAt, NumberOfSlots
<1>2. PICK j \in Nat : /\ j = Ends(e) /\ j \in 0 .. N /\ e[j] = Original
                       /\ \A m \in 0 .. j - 1 : e[m] # Original
  BY EndsAt, NumberOfSlots
<1>3. j > 0 /\ j - 1 \in 0 .. N
  BY <1>2, NumberOfSlots, OriginalAssumption DEF Pushed
<1>4. c[j - 1] = Original
  <2>1. j - 1 \in Nat /\ j = (j - 1) + 1
    BY <1>3
  <2> QED
    BY <2>1, <1>2 DEF Pushed
<1>5. \A m \in 0 .. (j - 1) - 1 : c[m] # Original
  <2> SUFFICES ASSUME NEW m \in 0 .. (j - 1) - 1 PROVE c[m] # Original
      OBVIOUS
  <2>1. m \in Nat /\ m + 1 \in 0 .. j - 1
    BY <1>3
  <2> QED
    BY <2>1, <1>2 DEF Pushed
<1>6. j = k + 1
  <2>0. PICK i \in 0 .. N : i = j - 1
    BY <1>3
  <2>1. Ends(c) = i
    BY <2>0, <1>4, <1>5, EndsOnce
  <2> QED
    BY <2>0, <2>1, <1>1
<1>7. Route(c, slots) \in Seq(Detours \cup {Null}) /\ Len(Route(c, slots)) = k
  <2>1. Route(c, slots) \in Seq(Detours \cup {Null})
    BY RouteType
  <2> QED
    BY <2>1, <1>1, <1>6 DEF Route
<1> DEFINE D == Detours \cup {Null}
<1>a. PICK d \in D : d = slots[s].pbDetour
  BY DEF DetourSlots
<1>b. PICK r \in Seq(D) : r = Route(c, slots)
  BY <1>7
<1>8. PICK q : q = <<d>> \o r
  OBVIOUS
<1>9. /\ q \in Seq(Detours \cup {Null})
      /\ Len(q) = k + 1
      /\ Tail(q) = r
      /\ q[1] = d
      /\ \A n \in 1 .. k : q[n + 1] = r[n]
  <2>1. Len(r) = k
    BY <1>7, <1>b
  <2>2. /\ q \in Seq(D)
        /\ Len(q) = Len(r) + 1
        /\ Tail(q) = r
        /\ q[1] = d
        /\ \A n \in 1 .. Len(r) : q[n + 1] = r[n]
    <3> HIDE DEF D
    <3> QED
      BY <1>8, Cons
  <2> QED
    BY <2>1, <2>2
<1>10. \A n \in 1 .. k + 1 : slots[e[n - 1]].pbDetour = q[n]
  <2> SUFFICES ASSUME NEW n \in 1 .. k + 1
               PROVE  slots[e[n - 1]].pbDetour = q[n]
      OBVIOUS
  <2>1. CASE n = 1
    BY <2>1, <1>a, <1>9 DEF Pushed
  <2>2. CASE n # 1
    <3>1. n - 1 \in 1 .. k /\ n - 2 \in Nat /\ n - 1 = (n - 2) + 1
      BY <2>2, <1>6
    <3>2. e[n - 1] = c[n - 2]
      BY <3>1 DEF Pushed
    <3>3. r[n - 1] = slots[c[(n - 1) - 1]].pbDetour
      BY <3>1, <1>1, <1>b DEF Route
    <3>4. (n - 1) - 1 = n - 2
      OBVIOUS
    <3>5. PICK m \in 1 .. k : m = n - 1
      BY <3>1
    <3>6. q[m + 1] = r[m] /\ m + 1 = n
      BY <3>5, <1>9
    <3> QED
      BY <3>2, <3>3, <3>4, <3>5, <3>6
  <2> QED
    BY <2>1, <2>2
<1>11. Route(e, slots) = [n \in 1 .. k + 1 |-> slots[e[n - 1]].pbDetour]
  BY <1>2, <1>6 DEF Route
<1>12. q = [n \in 1 .. k + 1 |-> q[n]]
  BY <1>9
<1>13. Route(e, slots) = q /\ q # <<>>
  BY <1>9, <1>10, <1>11, <1>12
<1> QED
  BY <1>a, <1>b, <1>8, <1>9, <1>13

\* Slots that are not on a chain do not change it.
LEMMA JumpsKept ==
    ASSUME NEW entry \in Codes, NEW slots, NEW later,
           \A s \in Trampolines : slots[s].rbRestore \in Codes,
           \A s \in Trampolines : later[s].rbRestore \in Codes,
           \A n \in Nat : Jumps(entry, slots)[n] # Original =>
              later[Jumps(entry, slots)[n]].rbRestore =
                 slots[Jumps(entry, slots)[n]].rbRestore
    PROVE  Jumps(entry, later) = Jumps(entry, slots)
<1>1. PICK c \in [Nat -> Codes] :
         /\ c = Jumps(entry, slots) /\ c[0] = entry
         /\ \A n \in Nat : c[n + 1] = IF c[n] = Original THEN Original
                                      ELSE slots[c[n]].rbRestore
  BY JumpsSteps
<1>2. PICK e \in [Nat -> Codes] :
         /\ e = Jumps(entry, later) /\ e[0] = entry
         /\ \A n \in Nat : e[n + 1] = IF e[n] = Original THEN Original
                                      ELSE later[e[n]].rbRestore
  BY JumpsSteps
<1> DEFINE S == {n \in Nat : e[n] = c[n]}
<1>3. 0 \in S
  BY <1>1, <1>2
<1>4. ASSUME NEW n \in Nat, n \in S PROVE n + 1 \in S
  BY <1>1, <1>2, <1>4
<1> HIDE DEF S
<1>5. \A n \in Nat : n \in S
  BY <1>3, <1>4, SetInduction
<1>6. \A n \in Nat : e[n] = c[n]
  BY <1>5 DEF S
<1> QED
  BY <1>1, <1>2, <1>6

\* A chain that begins with slot s goes on as the bytes s saved do.
LEMMA JumpsShift ==
    ASSUME NEW s \in Trampolines, NEW slots,
           \A r \in Trampolines : slots[r].rbRestore \in Codes
    PROVE  \A n \in Nat : Jumps(s, slots)[n + 1] =
                             Jumps(slots[s].rbRestore, slots)[n]
<1>1. PICK c \in [Nat -> Codes] :
         /\ c = Jumps(slots[s].rbRestore, slots) /\ c[0] = slots[s].rbRestore
         /\ \A n \in Nat : c[n + 1] = IF c[n] = Original THEN Original
                                      ELSE slots[c[n]].rbRestore
  BY JumpsSteps
<1>2. PICK e \in [Nat -> Codes] :
         /\ e = Jumps(s, slots) /\ e[0] = s
         /\ \A n \in Nat : e[n + 1] = IF e[n] = Original THEN Original
                                      ELSE slots[e[n]].rbRestore
  BY JumpsSteps DEF Codes
<1> DEFINE S == {n \in Nat : e[n + 1] = c[n]}
<1>3. 0 \in S
  <2>1. e[0 + 1] = slots[s].rbRestore
    BY <1>2, OriginalAssumption
  <2> QED
    BY <2>1, <1>1
<1>4. ASSUME NEW n \in Nat, n \in S PROVE n + 1 \in S
  <2>1. e[n + 1] = c[n] /\ n + 1 \in Nat
    BY <1>4
  <2>2. e[(n + 1) + 1] = IF e[n + 1] = Original THEN Original
                         ELSE slots[e[n + 1]].rbRestore
    BY <2>1, <1>2
  <2> QED
    BY <2>1, <2>2, <1>1
<1> HIDE DEF S
<1>5. \A n \in Nat : n \in S
  BY <1>3, <1>4, SetInduction
<1> QED
  BY <1>1, <1>2, <1>5 DEF S

-----------------------------------------------------------------------------
(* The stack of detours of a function, and what a patch does to it.        *)

Stack(entry, slots) == Route(Jumps(entry, slots), slots)

SlotsOK(slots) == /\ DetourSlots(slots)
                  /\ \A s \in Trampolines : slots[s].rbRestore \in Codes

LEMMA SlotsTyped == TypeInv => SlotsOK(trampoline)
BY DEF TypeInv, TypeOK, Trampoline, SlotsOK, DetourSlots, Codes

LEMMA HookedInIs == \A f \in Funcs : HookedIn(f) = Stack(code[f], trampoline)
BY DEF HookedIn, Depth, CallChain, Stack, Jumps, Route, Ends, N

LEMMA ChainsEnd ==
    TypeInv /\ LinkInv =>
        \A f \in Funcs : Jumps(code[f], trampoline)[N] = Original
BY ChainIsShort DEF CallChain, Jumps, N

\* Slots that are not hooked in may change.
LEMMA HookedInKept ==
    ASSUME TypeInv, TypeInv', LinkInv, NEW f \in Funcs, code'[f] = code[f],
           \A s \in Hooked : trampoline'[s] = trampoline[s]
    PROVE  HookedIn(f)' = HookedIn(f)
<1>1. PICK entry \in Codes : entry = code[f]
  BY DEF TypeInv, TypeOK, Codes
<1>2. PICK slots : slots = trampoline
  OBVIOUS
<1>3. PICK later : later = trampoline'
  OBVIOUS
<1>4. SlotsOK(slots) /\ SlotsOK(later)
  <2>1. SlotsOK(trampoline) /\ SlotsOK(trampoline')
    BY SlotsTyped DEF TypeInv, TypeOK, Trampoline, SlotsOK, DetourSlots, Codes
  <2> QED
    BY <2>1, <1>2, <1>3
<1>5. PICK c : c = Jumps(entry, slots)
  OBVIOUS
<1>6. c[N] = Original
  BY <1>1, <1>2, <1>5, ChainsEnd
<1>7. \A n \in Nat : c[n] # Original => later[c[n]] = slots[c[n]]
  BY <1>1, <1>2, <1>3, <1>5, ChainHooked DEF CallChain, Jumps
<1>8. Jumps(entry, later) = c
  BY <1>4, <1>5, <1>7, JumpsKept DEF SlotsOK
<1>9. Route(c, later) = Route(c, slots)
  <2>1. /\ Ends(c) \in Nat
        /\ \A n \in 1 .. Ends(c) : c[n - 1] # Original
    BY <1>6, EndsAt, NumberOfSlots
  <2>2. \A n \in 1 .. Ends(c) : later[c[n - 1]] = slots[c[n - 1]]
    BY <2>1, <1>7
  <2> QED
    BY <2>2 DEF Route
<1>10. HookedIn(f) = Stack(entry, slots)
  BY <1>1, <1>2, HookedInIs
<1>11. HookedIn(f)' = Stack(entry, later)
  <2>1. HookedIn(f)' = Stack(code'[f], trampoline')
    BY DEF HookedIn, Depth, CallChain, Stack, Jumps, Route, Ends, N
  <2> QED
    BY <2>1, <1>1, <1>3
<1> QED
  BY <1>5, <1>8, <1>9, <1>10, <1>11 DEF Stack

LEMMA HooksPushed ==
    ASSUME NEW s \in Trampolines, NEW slots, SlotsOK(slots),
           Jumps(s, slots)[N] = Original,
           Jumps(slots[s].rbRestore, slots)[N] = Original
    PROVE  LET h == Stack(slots[s].rbRestore, slots) IN
           /\ Stack(s, slots) = <<slots[s].pbDetour>> \o h
           /\ Stack(s, slots) # <<>>
           /\ Tail(Stack(s, slots)) = h
<1>1. PICK entry \in Codes : entry = slots[s].rbRestore
  BY DEF SlotsOK
<1>2. PICK c \in [Nat -> Codes] : c = Jumps(entry, slots)
  BY JumpsSteps DEF SlotsOK
<1>3. PICK e \in [Nat -> Codes] : e = Jumps(s, slots) /\ e[0] = s
  BY JumpsSteps DEF SlotsOK, Codes
<1>4. \A n \in Nat : e[n + 1] = c[n]
  BY <1>1, <1>2, <1>3, JumpsShift DEF SlotsOK
<1>5. Pushed(c, e, s)
  BY <1>3, <1>4 DEF Pushed
<1>6. DetourSlots(slots) /\ c[N] = Original /\ e[N] = Original
  BY <1>1, <1>2, <1>3 DEF SlotsOK
<1>7. /\ Route(e, slots) = <<slots[s].pbDetour>> \o Route(c, slots)
      /\ Route(e, slots) # <<>>
      /\ Tail(Route(e, slots)) = Route(c, slots)
  BY <1>5, <1>6, RoutePushed
<1> QED
  BY <1>1, <1>2, <1>3, <1>7 DEF Stack

-----------------------------------------------------------------------------
(* Which exit of the transaction a call is on, by its place.               *)

PathInv ==
    /\ \A t \in Threads : pc[t] = "patch" =>
          path = "commit" /\ s_nPendingError = "NO_ERROR"
    /\ \A t \in Threads : pc[t] = "restore" => path = "commit"
    /\ \A t \in Threads : pc[t] = "abort" => path \in {"abort", "rollback"}
    /\ \A t \in Threads : Owns(t) /\ pc[t] \in {"client", "push"} =>
          path = "none"
    /\ s_nPendingThreadId = NoThread => path = "none"

\* What DetourAttach and DetourDetach leave alone, and how they may end.
CallStages(t, p, d) ==
    /\ pc[t] = "client"
    /\ UNCHANGED <<s_nPendingThreadId, code, pc, path, cursor>>
    /\ \/ s_nPendingError' = s_nPendingError
       \/ Owns(t) /\ s_nPendingError' # "NO_ERROR"
    /\ \/ UNCHANGED <<s_pPendingOperations, trampoline>>
       \/ AttachStages(t, p, d)
       \/ DetachStages(t, p, d)

LEMMA StagingOutcome ==
    ASSUME NEW t \in Threads, NEW p \in Pointers, NEW d \in Detours,
           Attach(t, p, d) \/ Detach(t, p, d)
    PROVE  CallStages(t, p, d)
<1> USE DEF statics, memory, control, Staging, Calls, StageStops, StageFails,
            FailsOrStops, PushOperation, CallStages
<1>1. CASE StageRefused(t)
  BY <1>1 DEF StageRefused
<1>2. CASE StageNullPointer(t, p)
  BY <1>2 DEF StageNullPointer
<1>3. CASE AttachStub(t, p, d)
  BY <1>3 DEF AttachStub
<1>4. CASE AttachNoMemory(t, p, d)
  BY <1>4 DEF AttachNoMemory
<1>5. CASE AttachTooSmall(t, p, d)
  BY <1>5 DEF AttachTooSmall
<1>6. CASE AttachProtectFails(t, p, d)
  BY <1>6 DEF AttachProtectFails
<1>7. CASE AttachStages(t, p, d)
  BY <1>7 DEF AttachStages
<1>8. CASE DetachNoMemory(t, p)
  BY <1>8 DEF DetachNoMemory
<1>9. CASE DetachNotInPlace(t, p, d)
  BY <1>9 DEF DetachNotInPlace
<1>10. CASE DetachProtectFails(t, p, d)
  BY <1>10 DEF DetachProtectFails
<1>11. CASE DetachStages(t, p, d)
  BY <1>11 DEF DetachStages
<1> QED
  BY <1>1, <1>2, <1>3, <1>4, <1>5, <1>6, <1>7, <1>8, <1>9, <1>10, <1>11
  DEF Attach, Detach

\* A step of a thread that is not in the middle of a commit or an abort.
LEMMA PathFrame ==
    ASSUME TypeInv, PathInv, NEW t \in Threads, pc[t] \in {"client", "push"},
           pc' = pc \/ \E place \in {"client", "push"} :
                          Owns(t) /\ pc' = [pc EXCEPT ![t] = place],
           s_nPendingError' = s_nPendingError \/ Owns(t),
           UNCHANGED <<s_nPendingThreadId, path>>
    PROVE  PathInv'
<1>1. pc \in [Threads -> Places]
  BY DEF TypeInv, TypeOK
<1>2. Owns(t) => \A u \in Threads : pc[u] = "patch" => u = t
  BY DEF TypeInv, ControlOK, OwnerPlaces, Owns
<1> QED
  BY <1>1, <1>2 DEF PathInv, Owns

LEMMA ClientPath ==
    ASSUME TypeInv, PathInv, NEW t \in Threads, ClientNext(t) PROVE PathInv'
<1> USE DEF statics, flags, memory, control, Goto, Calls
<1> pc \in [Threads -> Places]
  BY DEF TypeInv, TypeOK
<1>1. CASE BeginOwner(t)
  <2>1. \A u \in Threads : pc[u] \notin OwnerPlaces
    BY <1>1, NoThreadAssumption DEF BeginOwner, TypeInv, ControlOK, Owns
  <2> QED
    BY <1>1, <2>1 DEF BeginOwner, PathInv, OwnerPlaces
<1>2. CASE \E b \in BOOLEAN : SetIgnoreTooSmall(t, b) \/ SetRetainRegions(t, b)
  BY <1>2, PathFrame DEF SetIgnoreTooSmall, SetRetainRegions
<1>3. CASE \/ BeginBusy(t)
           \/ UpdateThreadNothing(t, "GetCurrentThread")
           \/ Owns(t) /\ UpdateThreadFails(t)
  BY <1>3, PathFrame DEF BeginBusy, UpdateThreadNothing, UpdateThreadFails
<1>4. CASE \E u \in Threads : MaySuspend(t, u) /\ UpdateThreadSuspends(t, u)
  BY <1>4, PathFrame DEF MaySuspend, UpdateThreadSuspends
<1>5. CASE \E p \in Pointers, d \in Detours : Attach(t, p, d) \/ Detach(t, p, d)
  BY <1>5, StagingOutcome, PathFrame DEF CallStages
<1>6. CASE FinishRefused(t)
  BY <1>6, PathFrame DEF FinishRefused
<1>7. CASE CommitStarts(t) \/ CommitRollsBack(t) \/ AbortStarts(t)
  <2>1. /\ Owns(t) /\ pc[t] = "client"
        /\ \A u \in Threads : u # t => pc[u] \notin OwnerPlaces
        /\ s_nPendingThreadId # NoThread
    BY <1>7, NoThreadAssumption
    DEF CommitStarts, CommitRollsBack, AbortStarts, TypeInv, ControlOK, Owns
  <2> QED
    BY <1>7, <2>1 DEF CommitStarts, CommitRollsBack, AbortStarts, PathInv,
                      OwnerPlaces, NoPendingError, Owns
<1> QED
  BY <1>1, <1>2, <1>3, <1>4, <1>5, <1>6, <1>7
  DEF ClientNext, Begin, Commit, Abort

LEMMA CallPath ==
    ASSUME TypeInv, WriteInv, PathInv, NEW t \in Threads, CallNext(t)
    PROVE  PathInv'
<1> USE DEF statics, flags, memory, control, Goto, At
<1> pc \in [Threads -> Places]
  BY DEF TypeInv, TypeOK
<1>1. CASE PushThread(t)
  <2>1. Owns(t)
    BY <1>1 DEF PushThread, TypeInv, ControlOK, OwnerPlaces
  <2> QED
    BY <1>1, <2>1, PathFrame DEF PushThread
<1>2. CASE PatchOperation(t)
  BY <1>2 DEF PatchOperation, PathInv, Owns
<1>3. CASE PatchingDone(t)
  <2>1. Owns(t) /\ s_nPendingThreadId # NoThread
    BY <1>3, NoThreadAssumption
    DEF PatchingDone, TypeInv, ControlOK, OwnerPlaces, Owns
  <2> QED
    BY <1>3, <2>1 DEF PatchingDone, PathInv, Owns
<1>4. CASE RestoreOperation(t) \/ AbortOperation(t)
  BY <1>4 DEF RestoreOperation, AbortOperation, RestorePage, PathInv, Owns
<1>5. CASE SettleRegions(t)
  BY <1>5 DEF SettleRegions, PathInv, Owns
<1>6. CASE ResumeThreads(t)
  BY <1>6 DEF ResumeThreads, PathInv, Owns
<1>7. CASE Release(t)
  <2>1. \A u \in Threads : u # t => pc[u] \notin OwnerPlaces
    BY <1>7 DEF Release, TypeInv, ControlOK, OwnerPlaces, Owns
  <2> QED
    BY <1>7, <2>1, NoThreadAssumption DEF Release, PathInv, Owns, OwnerPlaces
<1>8. CASE CommitReturns(t)
  <2>1. ~Owns(t)
    BY <1>8 DEF CommitReturns, WriteInv, RegionInv, ReturnPlaces
  <2> QED
    BY <1>8, <2>1 DEF CommitReturns, PathInv, Owns
<1> QED
  BY <1>1, <1>2, <1>3, <1>4, <1>5, <1>6, <1>7, <1>8 DEF CallNext

LEMMA PathInvHolds == Spec => []PathInv
<1>1. Init => PathInv
  BY DEF Init, PathInv
<1>2. TypeInv /\ WriteInv /\ PathInv /\ [Next]_vars => PathInv'
  <2> SUFFICES ASSUME TypeInv, WriteInv, PathInv, [Next]_vars PROVE PathInv'
      OBVIOUS
  <2>1. CASE Next
    BY <2>1, ClientPath, CallPath DEF Next
  <2>2. CASE UNCHANGED vars
    BY <2>2 DEF vars, statics, control, PathInv, Owns
  <2> QED
    BY <2>1, <2>2
<1> QED
  BY <1>1, <1>2, TypeCorrect, WriteInvHolds, PTL DEF Spec

-----------------------------------------------------------------------------
(* The mapped state, function by function.                                 *)

Applied(c, h) == IF c = "Removal" THEN Tail(h) ELSE <<c>> \o h

GivenUp == path \in {"abort", "rollback"}

LEMMA OnePending ==
    ASSUME TypeInv, OperationInv, NEW f \in Funcs, NEW i \in Pending(f)
    PROVE  Pending(f) = {i}
BY DEF Pending, OperationInv

HooksAre(f) ==
    /\ Pending(f) = {} => HooksBar[f] = HookedIn(f)
    /\ \A i \in Pending(f) :
          HooksBar[f] = IF CommitPoint /\ i >= cursor /\ cursor > 0
                        THEN Applied(Change(i), HookedIn(f))
                        ELSE HookedIn(f)

LEMMA HooksValue == TypeInv /\ OperationInv => \A f \in Funcs : HooksAre(f)
<1> SUFFICES ASSUME TypeInv, OperationInv, NEW f \in Funcs PROVE HooksAre(f)
    OBVIOUS
<1>1. Pending(f) = {} => HooksBar[f] = HookedIn(f)
  BY DEF HooksBar, Unpatched
<1>2. ASSUME NEW i \in Pending(f)
      PROVE  HooksBar[f] = IF CommitPoint /\ i >= cursor /\ cursor > 0
                           THEN Applied(Change(i), HookedIn(f))
                           ELSE HookedIn(f)
  <2>1. Pending(f) = {i}
    BY <1>2, OnePending
  <2>2. CASE CommitPoint /\ i >= cursor /\ cursor > 0
    <3>1. Unpatched(f) = {i}
      BY <2>1, <2>2 DEF Unpatched
    <3>2. (CHOOSE k \in Unpatched(f) : TRUE) = i
      BY <3>1
    <3> QED
      BY <2>2, <3>1, <3>2 DEF HooksBar, Applied
  <2>3. CASE ~(CommitPoint /\ i >= cursor /\ cursor > 0)
    <3>1. Unpatched(f) = {}
      BY <2>1, <2>3 DEF Unpatched
    <3> QED
      BY <2>3, <3>1 DEF HooksBar
  <2> QED
    BY <2>2, <2>3
<1> QED
  BY <1>1, <1>2 DEF HooksAre

StagedIs(f) ==
    /\ Pending(f) = {} => StagedBar[f] = "Nothing"
    /\ \A i \in Pending(f) :
          StagedBar[f] = IF CommitPoint \/ GivenUp THEN "Nothing" ELSE Change(i)

LEMMA StagedValue == TypeInv /\ OperationInv => \A f \in Funcs : StagedIs(f)
<1> SUFFICES ASSUME TypeInv, OperationInv, NEW f \in Funcs PROVE StagedIs(f)
    OBVIOUS
<1>1. Pending(f) = {} => StagedBar[f] = "Nothing"
  BY DEF StagedBar
<1>2. ASSUME NEW i \in Pending(f)
      PROVE  StagedBar[f] = IF CommitPoint \/ GivenUp THEN "Nothing"
                            ELSE Change(i)
  <2>1. Pending(f) = {i}
    BY <1>2, OnePending
  <2>2. (CHOOSE k \in Pending(f) : TRUE) = i
    BY <2>1
  <2> QED
    BY <2>1, <2>2 DEF StagedBar, GivenUp
<1> QED
  BY <1>1, <1>2 DEF StagedIs

LEMMA BarFunctions ==
    /\ HooksBar = [f \in Funcs |-> HooksBar[f]]
    /\ StagedBar = [f \in Funcs |-> StagedBar[f]]
BY DEF HooksBar, StagedBar

\* Before a commit has taken effect, the hooks are those in the code.
LEMMA Uncommitted == ~CommitPoint => HooksBar = [f \in Funcs |-> HookedIn(f)]
BY DEF HooksBar, Unpatched

LEMMA NothingStaged ==
    CommitPoint \/ GivenUp \/ s_pPendingOperations = <<>> =>
        StagedBar = Promise!Unstaged
<1> SUFFICES ASSUME CommitPoint \/ GivenUp \/ s_pPendingOperations = <<>>
             PROVE  StagedBar = Promise!Unstaged
    OBVIOUS
<1>1. s_pPendingOperations = <<>> => \A f \in Funcs : Pending(f) = {}
  BY DEF Pending
<1> QED
  BY <1>1 DEF StagedBar, GivenUp, Promise!Unstaged

\* With nothing left to patch, the hooks are those in the code, too.
LEMMA NothingToPatch ==
    s_pPendingOperations = <<>> \/ cursor = 0 =>
        HooksBar = [f \in Funcs |-> HookedIn(f)]
<1> SUFFICES ASSUME s_pPendingOperations = <<>> \/ cursor = 0
             PROVE  HooksBar = [f \in Funcs |-> HookedIn(f)]
    OBVIOUS
<1>1. \A f \in Funcs : Unpatched(f) = {}
  <2>1. CASE cursor = 0
    BY <2>1 DEF Unpatched
  <2>2. CASE s_pPendingOperations = <<>>
    BY <2>2 DEF Unpatched, Pending
  <2> QED
    BY <2>1, <2>2
<1> QED
  BY <1>1 DEF HooksBar

-----------------------------------------------------------------------------
(* The steps, one by one.                                                  *)

\* A step that changes neither the hooks nor what is staged: at most, the
\* transaction fails.
LEMMA BarFrame ==
    ASSUME TypeInv, TypeInv', OperationInv, OperationInv', NEW t \in Threads,
           UNCHANGED <<s_nPendingThreadId, s_pPendingOperations, trampoline,
                       code, cursor, path>>,
           CommitPoint' <=> CommitPoint,
           \/ s_nPendingError' = s_nPendingError
           \/ Owns(t) /\ s_nPendingError' # "NO_ERROR"
    PROVE  [Promise!Next]_(Promise!vars)
<1>1. \A f \in Funcs : /\ HookedIn(f)' = HookedIn(f)
                        /\ Pending(f)' = Pending(f)
  BY DEF HookedIn, Depth, CallChain, Pending
<1>2. \A f \in Funcs : \A i \in Pending(f) : Change(i)' = Change(i)
  BY DEF Change
<1>3. \A f \in Funcs : HooksBar'[f] = HooksBar[f]
  <2>1. \A f \in Funcs : HooksAre(f)
    BY HooksValue
  <2>2. (\A f \in Funcs : HooksAre(f))'
    BY HooksValue, PTL
  <2> QED
    BY <2>1, <2>2, <1>1, <1>2 DEF HooksAre
<1>4. HooksBar' = HooksBar
  <2>1. HooksBar' = [f \in Funcs |-> HooksBar'[f]]
    BY DEF HooksBar
  <2> QED
    BY <2>1, <1>3, BarFunctions
<1>5. StagedBar' = StagedBar
  BY DEF StagedBar, Pending, Change
<1>6. FailedBar' = FailedBar \/ (s_nPendingThreadId # NoThread /\ FailedBar' = TRUE)
  BY NoThreadAssumption DEF FailedBar, Owns
<1> QED
  BY <1>4, <1>5, <1>6 DEF Promise!Next, Promise!Fail, Promise!vars

\* Staging one more operation, on a function that has none pending.
LEMMA StagedBars ==
    ASSUME TypeInv, TypeInv', HookInv, HookInv',
           path = "none", UNCHANGED <<code, path>>,
           NEW o \in Operation, s_pPendingOperations' = Listed(o),
           \A s \in Trampolines : InUse(s) => trampoline'[s] = trampoline[s],
           Pending(o.pbTarget) = {}
    PROVE  /\ HooksBar' = HooksBar
           /\ StagedBar[o.pbTarget] = "Nothing"
           /\ StagedBar' = [StagedBar EXCEPT ![o.pbTarget] = Change(1)']
<1>1. ~CommitPoint /\ ~CommitPoint' /\ ~GivenUp'  /\ ~GivenUp
  BY DEF CommitPoint, GivenUp
<1>2. HooksBar' = HooksBar
  <2>1. \A f \in Funcs : HookedIn(f)' = HookedIn(f)
    BY HookedInKept DEF HookInv, Hooked
  <2>2. (HooksBar = [f \in Funcs |-> HookedIn(f)])'
    BY <1>1, Uncommitted, PTL
  <2> QED
    BY <2>1, <2>2, <1>1, Uncommitted
<1>3. PICK g \in Funcs : g = o.pbTarget
  BY DEF Operation
<1>4. \A f \in Funcs : StagedIs(f) /\ StagedIs(f)'
  <2>1. OperationInv /\ OperationInv'
    BY DEF HookInv
  <2>2. \A f \in Funcs : StagedIs(f)
    BY <2>1, StagedValue
  <2>3. (\A f \in Funcs : StagedIs(f))'
    BY <2>1, StagedValue, PTL
  <2> QED
    BY <2>2, <2>3
<1>5. StagedBar[g] = "Nothing"
  BY <1>3, <1>4 DEF StagedIs
<1>6. PICK n \in Nat : n = Len(s_pPendingOperations)
  BY DEF TypeInv, TypeOK
<1>7. /\ DOMAIN s_pPendingOperations = 1 .. n
      /\ DOMAIN s_pPendingOperations' = 1 .. n + 1
      /\ s_pPendingOperations'[1] = o
      /\ \A i \in 1 .. n : s_pPendingOperations'[i + 1] = s_pPendingOperations[i]
  BY <1>6, ListedIndices DEF TypeInv, TypeOK
<1>8. StagedBar'[g] = Change(1)'
  <2>1. 1 \in Pending(g)'
    BY <1>3, <1>7 DEF Pending
  <2> QED
    BY <2>1, <1>1, <1>4 DEF StagedIs
<1>9. ASSUME NEW f \in Funcs, f # g PROVE StagedBar'[f] = StagedBar[f]
  <2>1. CASE Pending(f) = {}
    <3>1. Pending(f)' = {}
      <4> SUFFICES ASSUME NEW k \in 1 .. n + 1,
                          s_pPendingOperations'[k].pbTarget = f
                   PROVE  FALSE
          BY <1>7 DEF Pending
      <4>1. k # 1
        BY <1>3, <1>7, <1>9
      <4>2. PICK i \in 1 .. n : k = i + 1
        <5>1. k - 1 \in 1 .. n /\ k = (k - 1) + 1
          BY <4>1
        <5> QED
          BY <5>1
      <4>3. i \in Pending(f)
        BY <4>2, <1>7 DEF Pending
      <4> QED
        BY <4>3, <2>1
    <3> QED
      BY <3>1, <2>1, <1>4 DEF StagedIs
  <2>2. CASE Pending(f) # {}
    <3>1. PICK i \in 1 .. n : i \in Pending(f)
      BY <2>2, <1>7 DEF Pending
    <3>2. i + 1 \in Pending(f)'
      BY <3>1, <1>7 DEF Pending
    <3>3. Change(i + 1)' = Change(i)
      <4>1. PICK q \in Operation : q = s_pPendingOperations[i]
        BY <3>1, <1>7, OperationTypes
      <4>2. s_pPendingOperations'[i + 1] = q
        BY <4>1, <1>7
      <4>3. InUse(q.pTrampoline) /\ q.pTrampoline \in Trampolines
        BY <4>1, <3>1, <1>7, SlotTypes
        DEF HookInv, OperationInv, OperationFits, Operation
      <4> QED
        BY <4>1, <4>2, <4>3 DEF Change
    <3> QED
      BY <3>1, <3>2, <3>3, <1>1, <1>4 DEF StagedIs
  <2> QED
    BY <2>1, <2>2
<1> QED
  <2>1. StagedBar' = [f \in Funcs |-> StagedBar'[f]]
    BY DEF StagedBar
  <2> QED
    BY <2>1, <1>2, <1>3, <1>5, <1>8, <1>9, BarFunctions

\* The invariants a step can rely on, before and after it.
StepInv == TypeInv /\ WriteInv /\ HookInv /\ PathInv

Simulated == [Promise!Next]_(Promise!vars)

LEMMA AttachStagesStep ==
    ASSUME StepInv, StepInv', NEW t \in Threads, NEW p \in Pointers,
           NEW d \in Detours, Orderly(p), AttachStages(t, p, d)
    PROVE  Simulated
<1> USE DEF StepInv
<1>1. /\ Owns(t) /\ pc[t] = "client" /\ s_nPendingError = "NO_ERROR"
      /\ UNCHANGED <<s_nPendingThreadId, s_nPendingError, code, path>>
  BY DEF AttachStages, Staging, Calls, PushOperation, control
<1>2. PICK f \in Funcs : f = pointer[p]
  BY DEF AttachStages
<1>3. PICK s \in Trampolines :
         /\ ~InUse(s)
         /\ trampoline' = [trampoline EXCEPT ![s] =
                [pbTarget |-> f, pbDetour |-> d,
                 rbRestore |-> CopiedBytes(f, s)]]
         /\ PushOperation(t, [fIsRemove |-> FALSE, ppbPointer |-> p,
                              pbTarget |-> f, pTrampoline |-> s,
                              dwPerm |-> protect[PageOf[f]]])
  BY <1>2 DEF AttachStages, AllocTrampoline
<1>4. PICK o \in Operation :
         /\ o.pbTarget = f /\ o.pTrampoline = s /\ o.fIsRemove = FALSE
         /\ s_pPendingOperations' = Listed(o)
  <2>1. protect[PageOf[f]] \in Perms
    BY PageOfAssumption DEF TypeInv, TypeOK
  <2> QED
    BY <2>1, <1>3 DEF PushOperation, Operation
<1>5. Pending(o.pbTarget) = {}
  BY <1>2, <1>4, DisjointAssumption DEF Orderly, PointedFunction
<1>6. path = "none"
  BY <1>1 DEF PathInv
<1>7. \A r \in Trampolines : InUse(r) => trampoline'[r] = trampoline[r]
  BY <1>3 DEF TypeInv, TypeOK
<1>8. /\ HooksBar' = HooksBar
      /\ StagedBar[f] = "Nothing"
      /\ StagedBar' = [StagedBar EXCEPT ![f] = Change(1)']
  BY <1>1, <1>4, <1>5, <1>6, <1>7, StagedBars
<1>9. Change(1)' = d
  <2>1. s_pPendingOperations'[1] = o
    BY <1>4, ListedIndices
  <2>2. trampoline'[s].pbDetour = d
    BY <1>3 DEF TypeInv, TypeOK
  <2> QED
    BY <2>1, <2>2, <1>4 DEF Change
<1>10. s_nPendingThreadId # NoThread /\ ~FailedBar /\ FailedBar' = FailedBar
  BY <1>1, NoThreadAssumption DEF FailedBar, Owns
<1>11. Promise!StageAttach(f, d)
  BY <1>1, <1>8, <1>9, <1>10 DEF Promise!StageAttach
<1> QED
  BY <1>10, <1>11 DEF Simulated, Promise!Next

\* A pointer that is a trampoline on top of its function leads to a hook.
LEMMA HookedInSome ==
    ASSUME TypeInv, LinkInv, NEW f \in Funcs, code[f] # Original
    PROVE  HookedIn(f) # <<>>
<1>1. PICK slots : slots = trampoline
  OBVIOUS
<1>2. PICK s \in Trampolines : s = code[f]
  BY DEF TypeInv, TypeOK
<1>3. SlotsOK(slots)
  BY <1>1, SlotsTyped
<1>4. PICK e : e = Jumps(s, slots) /\ e[0] = s /\ e[N] = Original
  <2>1. Jumps(s, slots)[0] = s
    BY <1>3, JumpsSteps DEF SlotsOK, Codes
  <2>2. Jumps(s, slots)[N] = Original
    BY <1>1, <1>2, ChainsEnd
  <2> QED
    BY <2>1, <2>2
<1>5. Ends(e) \in Nat \ {0}
  BY <1>4, EndsAt, NumberOfSlots, OriginalAssumption
<1>6. Route(e, slots) # <<>>
  <2>1. 1 \in DOMAIN Route(e, slots)
    BY <1>5 DEF Route
  <2> QED
    BY <2>1
<1> QED
  BY <1>1, <1>2, <1>4, <1>6, HookedInIs DEF Stack

LEMMA DetachStagesStep ==
    ASSUME StepInv, StepInv', NEW t \in Threads, NEW p \in Pointers,
           NEW d \in Detours, Orderly(p), DetachStages(t, p, d)
    PROVE  Simulated
<1> USE DEF StepInv
<1>1. /\ Owns(t) /\ pc[t] = "client" /\ s_nPendingError = "NO_ERROR"
      /\ LooksInPlace(p, d)
      /\ UNCHANGED <<s_nPendingThreadId, s_nPendingError, trampoline, code,
                     path>>
  BY DEF DetachStages, Staging, Calls, PushOperation, control
<1>2. PICK s \in Trampolines : s = pointer[p]
  BY <1>1 DEF LooksInPlace
<1>3. PICK f \in Funcs : f = trampoline[s].pbTarget
  BY <1>1, <1>2, SlotTypes DEF LooksInPlace, SlotTarget
<1>4. PICK o \in Operation :
         /\ o.pbTarget = f /\ o.fIsRemove = TRUE
         /\ s_pPendingOperations' = Listed(o)
  <2>1. protect[PageOf[f]] \in Perms
    BY PageOfAssumption DEF TypeInv, TypeOK
  <2>2. PushOperation(t, [fIsRemove |-> TRUE, ppbPointer |-> p,
                          pbTarget |-> f, pTrampoline |-> s,
                          dwPerm |-> protect[PageOf[f]]])
    BY <1>2, <1>3 DEF DetachStages
  <2> QED
    BY <2>1, <2>2 DEF PushOperation, Operation
<1>5. Pending(o.pbTarget) = {} /\ code[f] = s
  BY <1>2, <1>3, <1>4 DEF Orderly, OnTop, PointedFunction
<1>6. path = "none"
  BY <1>1 DEF PathInv
<1>7. /\ HooksBar' = HooksBar
      /\ StagedBar[f] = "Nothing"
      /\ StagedBar' = [StagedBar EXCEPT ![f] = Change(1)']
  BY <1>1, <1>4, <1>5, <1>6, StagedBars
<1>8. Change(1)' = "Removal"
  <2>1. s_pPendingOperations'[1] = o
    BY <1>4, ListedIndices
  <2> QED
    BY <2>1, <1>4 DEF Change
<1>9. HooksBar[f] # <<>>
  <2>1. HookedIn(f) # <<>>
    BY <1>5, HookedInSome, OriginalAssumption DEF HookInv
  <2>2. ~CommitPoint
    BY <1>6 DEF CommitPoint
  <2> QED
    BY <2>1, <2>2, Uncommitted
<1>10. s_nPendingThreadId # NoThread /\ ~FailedBar /\ FailedBar' = FailedBar
  BY <1>1, NoThreadAssumption DEF FailedBar, Owns
<1>11. Promise!StageDetach(f)
  BY <1>1, <1>7, <1>8, <1>9, <1>10 DEF Promise!StageDetach
<1> QED
  BY <1>10, <1>11 DEF Simulated, Promise!Next

LEMMA ChangeType ==
    ASSUME TypeInv, NEW i \in DOMAIN s_pPendingOperations
    PROVE  /\ Change(i) # "Nothing"
           /\ s_pPendingOperations[i].fIsRemove => Change(i) = "Removal"
           /\ ~s_pPendingOperations[i].fIsRemove =>
                 /\ Change(i) =
                       trampoline[s_pPendingOperations[i].pTrampoline].pbDetour
                 /\ Change(i) # "Removal"
<1>1. PICK o \in Operation : o = s_pPendingOperations[i]
  BY OperationTypes
<1>2. trampoline[o.pTrampoline].pbDetour \in Detours \cup {Null}
  BY SlotsTyped DEF SlotsOK, DetourSlots, Operation
<1> QED
  BY <1>1, <1>2, NamesAssumption DEF Change

\* The patch of an operation, seen from the function it is on.
LEMMA PatchedHooks ==
    ASSUME TypeInv, TypeInv', HookInv, HookInv',
           NEW k \in DOMAIN s_pPendingOperations, ~Patched(k),
           NEW o \in Operation, o = s_pPendingOperations[k],
           code' = [code EXCEPT ![o.pbTarget] = PatchedCode(o)],
           UNCHANGED trampoline
    PROVE  /\ HookedIn(o.pbTarget)' = Applied(Change(k), HookedIn(o.pbTarget))
           /\ \A f \in Funcs : f # o.pbTarget => HookedIn(f)' = HookedIn(f)
<1>1. PICK g \in Funcs : g = o.pbTarget
  BY DEF Operation
<1>2. PICK s \in Trampolines : s = o.pTrampoline
  BY DEF Operation
<1>3. PICK slots : slots = trampoline
  OBVIOUS
<1>4. SlotsOK(slots)
  BY <1>3, SlotsTyped
<1>5. /\ \A f \in Funcs : code'[f] = IF f = g THEN PatchedCode(o) ELSE code[f]
      /\ o.fIsRemove \in BOOLEAN
  BY <1>1 DEF TypeInv, TypeOK, Operation
<1>6. /\ Jumps(code[g], slots)[N] = Original
      /\ Jumps(code'[g], slots)[N] = Original
  <2>1. LinkInv /\ LinkInv'
    BY DEF HookInv
  <2>2. (\A f \in Funcs : Jumps(code[f], trampoline)[N] = Original)'
    BY <2>1, ChainsEnd, PTL
  <2>3. \A f \in Funcs : Jumps(code[f], trampoline)[N] = Original
    BY <2>1, ChainsEnd
  <2>4. trampoline' = slots
    BY <1>3
  <2> QED
    BY <2>2, <2>3, <2>4, <1>3
<1>7. /\ HookedIn(g) = Stack(code[g], slots)
      /\ HookedIn(g)' = Stack(code'[g], slots)
  <2>1. HookedIn(g)' = Stack(code'[g], trampoline')
    BY DEF HookedIn, Depth, CallChain, Stack, Jumps, Route, Ends, N
  <2> QED
    BY <2>1, <1>3, HookedInIs
<1>8. HookedIn(g)' = Applied(Change(k), HookedIn(g))
  <2>1. CASE o.fIsRemove
    <3>1. code[g] = s /\ code'[g] = slots[s].rbRestore
      BY <2>1, <1>1, <1>2, <1>3, <1>5
      DEF HookInv, OperationInv, OperationFits, PatchedCode
    <3>2. Tail(Stack(s, slots)) = Stack(slots[s].rbRestore, slots)
      BY <3>1, <1>4, <1>6, HooksPushed
    <3>3. Change(k) = "Removal"
      BY <2>1, ChangeType
    <3> QED
      BY <3>1, <3>2, <3>3, <1>7 DEF Applied
  <2>2. CASE ~o.fIsRemove
    <3>1. code'[g] = s /\ code[g] = slots[s].rbRestore
      BY <2>2, <1>1, <1>2, <1>3, <1>5
      DEF HookInv, OperationInv, OperationFits, PatchedCode, SlotRestore
    <3>2. Stack(s, slots) =
             <<slots[s].pbDetour>> \o Stack(slots[s].rbRestore, slots)
      BY <3>1, <1>4, <1>6, HooksPushed
    <3>3. Change(k) = slots[s].pbDetour /\ Change(k) # "Removal"
      BY <2>2, <1>2, <1>3, ChangeType
    <3> QED
      BY <3>1, <3>2, <3>3, <1>7 DEF Applied
  <2> QED
    BY <2>1, <2>2, <1>5
<1>9. \A f \in Funcs : f # g => HookedIn(f)' = HookedIn(f)
  BY <1>5, HookedInKept DEF HookInv
<1> QED
  BY <1>1, <1>8, <1>9

\* The first patch of a commit makes all the changes; the others only write
\* what has taken effect already.
LEMMA PatchStep ==
    ASSUME StepInv, StepInv', NEW t \in Threads, PatchOperation(t)
    PROVE  Simulated
<1> USE DEF StepInv
<1>1. PICK k \in DOMAIN s_pPendingOperations :
         k = cursor /\ k \in Nat \ {0}
  BY DEF PatchOperation, At, TypeInv, TypeOK, ControlOK
<1>2. PICK o \in Operation : o = s_pPendingOperations[k]
  BY OperationTypes
<1>3. PICK g \in Funcs : g = o.pbTarget
  BY DEF Operation
<1>4. /\ pc[t] = "patch" /\ Owns(t) /\ path = "commit"
      /\ s_nPendingError = "NO_ERROR"
  BY DEF PatchOperation, At, PathInv, TypeInv, ControlOK, OwnerPlaces
<1>5. /\ cursor' = k + 1
      /\ code' = [code EXCEPT ![g] = PatchedCode(o)]
      /\ UNCHANGED <<s_nPendingThreadId, s_nPendingError,
                     s_pPendingOperations, trampoline, pc, path>>
  BY <1>1, <1>2, <1>3 DEF PatchOperation, statics, control
<1>6. ~Patched(k)
  BY <1>1, <1>4 DEF Patched, TypeInv, ControlOK, OwnerPlaces, Owns
<1>7. /\ HookedIn(g)' = Applied(Change(k), HookedIn(g))
      /\ \A f \in Funcs : f # g => HookedIn(f)' = HookedIn(f)
  BY <1>2, <1>3, <1>5, <1>6, PatchedHooks
<1>8. CommitPoint' /\ (CommitPoint <=> k > 1) /\ ~GivenUp
  BY <1>1, <1>4, <1>5 DEF CommitPoint, GivenUp, Owns
<1>9. /\ \A f \in Funcs : Pending(f)' = Pending(f)
      /\ \A i : Change(i)' = Change(i)
  BY <1>5 DEF Pending, Change
<1>10. /\ Pending(g) = {k}
       /\ \A f \in Funcs : f # g => k \notin Pending(f)
       /\ \A f \in Funcs : \A i \in Pending(f) :
             i \in DOMAIN s_pPendingOperations /\ i \in Nat \ {0}
  <2>1. k \in Pending(g) /\ \A f \in Funcs : f # g => k \notin Pending(f)
    BY <1>2, <1>3 DEF Pending
  <2>2. \A f \in Funcs : \A i \in Pending(f) :
           i \in DOMAIN s_pPendingOperations /\ i \in Nat \ {0}
    BY DEF Pending, TypeInv, TypeOK
  <2> QED
    BY <2>1, <2>2, OnePending DEF HookInv
<1>11. \A f \in Funcs : HooksAre(f) /\ HooksAre(f)'
  <2>1. OperationInv /\ OperationInv'
    BY DEF HookInv
  <2>2. \A f \in Funcs : HooksAre(f)
    BY <2>1, HooksValue
  <2>3. (\A f \in Funcs : HooksAre(f))'
    BY <2>1, HooksValue, PTL
  <2> QED
    BY <2>2, <2>3
<1>12. \A f \in Funcs : StagedIs(f)
  BY StagedValue DEF HookInv
<1>13. HooksBar' = [f \in Funcs |-> HooksBar'[f]]
  BY DEF HooksBar
<1>14. StagedBar' = Promise!Unstaged
  <2>1. (CommitPoint \/ GivenUp \/ s_pPendingOperations = <<>>)'
    BY <1>8
  <2>2. (StagedBar = Promise!Unstaged)'
    BY <2>1, NothingStaged, PTL
  <2> QED
    BY <2>2 DEF Promise!Unstaged
<1>15. FailedBar' = FailedBar /\ ~FailedBar /\ s_nPendingThreadId # NoThread
  BY <1>4, <1>5, NoThreadAssumption DEF FailedBar, Owns
<1>16. CASE k > 1
  <2>1. ASSUME NEW f \in Funcs PROVE HooksBar'[f] = HooksBar[f]
    <3>1. CASE Pending(f) = {}
      BY <3>1, <1>7, <1>9, <1>10, <1>11 DEF HooksAre
    <3>2. CASE f = g
      BY <3>2, <1>16, <1>1, <1>5, <1>7, <1>8, <1>9, <1>10, <1>11 DEF HooksAre
    <3>3. CASE f # g /\ Pending(f) # {}
      <4>1. PICK i \in Pending(f) : i \in Nat \ {0} /\ i # k
        BY <3>3, <1>10
      <4>2. i >= k <=> i >= k + 1
        BY <4>1, <1>1
      <4> QED
        BY <3>3, <4>1, <4>2, <1>16, <1>1, <1>5, <1>7, <1>8, <1>9, <1>11
        DEF HooksAre
    <3> QED
      BY <3>1, <3>2, <3>3
  <2>2. HooksBar' = HooksBar
    BY <2>1, <1>13, BarFunctions
  <2>3. StagedBar' = StagedBar
    BY <1>8, <1>14, <1>16, NothingStaged
  <2> QED
    BY <2>2, <2>3, <1>5, <1>15 DEF Simulated, Promise!vars
<1>17. CASE k = 1
  <2>1. ASSUME NEW f \in Funcs PROVE HooksBar'[f] = Promise!Changed(f)
    <3>1. HooksBar[f] = HookedIn(f)
      BY <1>8, <1>17, Uncommitted
    <3>2. CASE Pending(f) = {}
      <4>1. StagedBar[f] = "Nothing" /\ HooksBar'[f] = HookedIn(f)
        BY <3>2, <1>7, <1>9, <1>10, <1>11, <1>12 DEF HooksAre, StagedIs
      <4> QED
        BY <3>1, <4>1 DEF Promise!Changed
    <3>3. CASE Pending(f) # {}
      <4>1. PICK i \in Pending(f) :
               /\ i \in DOMAIN s_pPendingOperations /\ i \in Nat \ {0}
               /\ f = g <=> i = k
        BY <3>3, <1>10
      <4>2. StagedBar[f] = Change(i) /\ Change(i) # "Nothing"
        BY <4>1, <1>8, <1>12, <1>17, ChangeType DEF StagedIs
      <4>3. HooksBar'[f] = Applied(Change(i), HookedIn(f))
        <5>1. CASE i = k
          BY <5>1, <4>1, <1>5, <1>7, <1>9, <1>11 DEF HooksAre
        <5>2. CASE i # k
          <6>1. i >= k + 1
            BY <5>2, <4>1, <1>17
          <6> QED
            BY <5>2, <6>1, <4>1, <1>5, <1>7, <1>8, <1>9, <1>11, <1>17
            DEF HooksAre
        <5> QED
          BY <5>1, <5>2
      <4> QED
        BY <3>1, <4>2, <4>3 DEF Promise!Changed, Applied
    <3> QED
      BY <3>2, <3>3
  <2>2. HooksBar' = [f \in Funcs |-> Promise!Changed(f)]
    BY <2>1, <1>13
  <2>3. Promise!CommitAll
    BY <2>2, <1>5, <1>14, <1>15 DEF Promise!CommitAll
  <2> QED
    BY <2>3, <1>15 DEF Simulated, Promise!Next
<1> QED
  BY <1>1, <1>16, <1>17

\* A step with nothing staged and nothing to patch, before and after.
LEMMA SettledFrame ==
    ASSUME TypeInv, TypeInv', HookInv, UNCHANGED code,
           \A s \in Hooked : trampoline'[s] = trampoline[s],
           HooksBar = [f \in Funcs |-> HookedIn(f)],
           HooksBar' = [f \in Funcs |-> HookedIn(f)'],
           StagedBar = Promise!Unstaged, StagedBar' = Promise!Unstaged
    PROVE  UNCHANGED <<HooksBar, StagedBar>>
<1>1. \A f \in Funcs : HookedIn(f)' = HookedIn(f)
  BY HookedInKept DEF HookInv
<1> QED
  BY <1>1

\* After the last patch, what has taken effect is what is in the code.
LEMMA PatchingDoneStep ==
    ASSUME StepInv, StepInv', NEW t \in Threads, PatchingDone(t)
    PROVE  Simulated
<1> USE DEF StepInv
<1>1. /\ pc[t] = "patch" /\ Owns(t) /\ path = "commit"
      /\ cursor' = 0 /\ pc'[t] = "restore"
      /\ cursor \in Nat \ {0}
      /\ cursor > Len(s_pPendingOperations)
      /\ UNCHANGED <<s_nPendingThreadId, s_nPendingError,
                     s_pPendingOperations, trampoline, code, path>>
  BY DEF PatchingDone, At, PastEnd, Goto, statics, memory, PathInv, TypeInv,
         TypeOK, ControlOK, OwnerPlaces
<1>2. CommitPoint'
  BY <1>1 DEF CommitPoint, Owns
<1>3. CommitPoint \/ s_pPendingOperations = <<>>
  <2>1. CASE cursor > 1
    BY <2>1, <1>1 DEF CommitPoint
  <2>2. CASE ~(cursor > 1)
    BY <2>2, <1>1 DEF TypeInv, TypeOK
  <2> QED
    BY <2>1, <2>2
<1>4. HooksBar = [f \in Funcs |-> HookedIn(f)]
  <2>1. \A f \in Funcs : Unpatched(f) = {}
    BY <1>1 DEF Unpatched, Pending, TypeInv, TypeOK
  <2> QED
    BY <2>1 DEF HooksBar
<1>5. (HooksBar = [f \in Funcs |-> HookedIn(f)])'
  <2>1. (s_pPendingOperations = <<>> \/ cursor = 0)'
    BY <1>1
  <2> QED
    BY <2>1, NothingToPatch, PTL
<1>6. StagedBar = Promise!Unstaged
  BY <1>3, NothingStaged
<1>7. (StagedBar = Promise!Unstaged)'
  <2>1. (CommitPoint \/ GivenUp \/ s_pPendingOperations = <<>>)'
    BY <1>2
  <2> QED
    BY <2>1, NothingStaged, PTL
<1>8. StagedBar' = Promise!Unstaged
  BY <1>7 DEF Promise!Unstaged
<1>9. UNCHANGED <<HooksBar, StagedBar>>
  BY <1>1, <1>4, <1>5, <1>6, <1>8, SettledFrame
<1> QED
  BY <1>1, <1>9 DEF Simulated, Promise!vars, FailedBar

\* The end of a commit and an abort: a page is restored and a slot freed.
LEMMA RestorePageStep ==
    ASSUME StepInv, StepInv', NEW t \in Threads,
           RestoreOperation(t) \/ AbortOperation(t)
    PROVE  Simulated
<1> USE DEF StepInv
<1>1. PICK frees \in BOOLEAN :
         /\ RestorePage(t, frees)
         /\ pc[t] = IF frees THEN "restore" ELSE "abort"
  BY DEF RestoreOperation, AbortOperation, At
<1>2. /\ Owns(t)
      /\ \A u \in Threads : pc[u] = "patch" => u = t
      /\ pc[t] # "patch"
      /\ \A u \in Threads : pc[u] = "restore" => u = t
  BY <1>1 DEF TypeInv, ControlOK, OwnerPlaces, Owns
<1>3. cursor = 0 /\ cursor' = 0
  BY <1>1, <1>2 DEF HookInv, CursorInv, RestorePage
<1>4. /\ (CommitPoint \/ GivenUp)
      /\ (CommitPoint \/ GivenUp \/ s_pPendingOperations = <<>>)'
  BY <1>1, <1>2 DEF PathInv, CommitPoint, GivenUp, RestorePage, Owns
<1>5. PICK o \in Operation :
         /\ o = s_pPendingOperations[1] /\ o = Head(s_pPendingOperations)
         /\ 1 \in DOMAIN s_pPendingOperations
  BY <1>1, HeadType DEF RestorePage, TypeInv, TypeOK
<1>6. \A s \in Hooked : trampoline'[s] = trampoline[s]
  <2> SUFFICES ASSUME NEW s \in Hooked, trampoline'[s] # trampoline[s]
               PROVE  FALSE
      OBVIOUS
  <2>1. s = o.pTrampoline /\ o.fIsRemove = frees
    BY <1>1, <1>5 DEF RestorePage, FreesSlot, Hooked, TypeInv, TypeOK
  <2>2. Patched(1) <=> frees
    BY <1>1, <1>2, <1>3 DEF Patched
  <2>3. LiesBeside(s)
    BY <2>1, <2>2, <1>5 DEF LiesBeside
  <2> QED
    BY <2>3 DEF Hooked
<1>7. HooksBar = [f \in Funcs |-> HookedIn(f)]
  BY <1>3, NothingToPatch
<1>8. (HooksBar = [f \in Funcs |-> HookedIn(f)])'
  <2>1. (s_pPendingOperations = <<>> \/ cursor = 0)'
    BY <1>3
  <2> QED
    BY <2>1, NothingToPatch, PTL
<1>9. StagedBar = Promise!Unstaged
  BY <1>4, NothingStaged
<1>10. (StagedBar = Promise!Unstaged)'
  BY <1>4, NothingStaged, PTL
<1>11. StagedBar' = Promise!Unstaged
  BY <1>10 DEF Promise!Unstaged
<1>12. UNCHANGED <<HooksBar, StagedBar>>
  BY <1>1, <1>6, <1>7, <1>8, <1>9, <1>11, SettledFrame DEF RestorePage
<1> QED
  BY <1>1, <1>12 DEF Simulated, Promise!vars, FailedBar, RestorePage

\* A step with no operation in the list, before and after.
LEMMA EmptyFrame ==
    ASSUME StepInv, StepInv', UNCHANGED <<code, trampoline>>,
           s_pPendingOperations = <<>>, s_pPendingOperations' = <<>>
    PROVE  /\ UNCHANGED <<HooksBar, StagedBar>>
           /\ StagedBar = Promise!Unstaged
<1> USE DEF StepInv
<1>1. /\ s_pPendingOperations = <<>> \/ cursor = 0
      /\ (s_pPendingOperations = <<>> \/ cursor = 0)'
      /\ CommitPoint \/ GivenUp \/ s_pPendingOperations = <<>>
      /\ (CommitPoint \/ GivenUp \/ s_pPendingOperations = <<>>)'
  OBVIOUS
<1>2. HooksBar = [f \in Funcs |-> HookedIn(f)]
  BY <1>1, NothingToPatch
<1>3. (HooksBar = [f \in Funcs |-> HookedIn(f)])'
  BY <1>1, NothingToPatch, PTL
<1>4. StagedBar = Promise!Unstaged
  BY <1>1, NothingStaged
<1>5. (StagedBar = Promise!Unstaged)'
  BY <1>1, NothingStaged, PTL
<1>6. StagedBar' = Promise!Unstaged
  BY <1>5 DEF Promise!Unstaged
<1> QED
  BY <1>2, <1>3, <1>4, <1>6, SettledFrame

\* A step that leaves the lists, the memory and the exit as they are, of a
\* thread that patches neither before it nor after it.
LEMMA CallFrame ==
    ASSUME StepInv, StepInv', NEW t \in Threads,
           UNCHANGED <<s_nPendingThreadId, s_pPendingOperations, trampoline,
                       code, cursor, path>>,
           pc[t] # "patch", pc'[t] # "patch",
           \A u \in Threads : u # t => pc'[u] = pc[u],
           \/ s_nPendingError' = s_nPendingError
           \/ Owns(t) /\ s_nPendingError' # "NO_ERROR"
    PROVE  Simulated
<1>1. CommitPoint' <=> CommitPoint
  BY DEF CommitPoint, Owns
<1> QED
  BY <1>1, BarFrame DEF StepInv, HookInv, Simulated

LEMMA BeginStep ==
    ASSUME StepInv, StepInv', NEW t \in Threads, BeginOwner(t) PROVE Simulated
<1>1. s_pPendingOperations = <<>> /\ s_pPendingOperations' = <<>>
  BY DEF BeginOwner, StepInv, WriteInv, RegionInv
<1>2. UNCHANGED <<HooksBar, StagedBar>>
  BY <1>1, EmptyFrame DEF BeginOwner
<1>3. Promise!Open(t)
  BY <1>2 DEF BeginOwner, Promise!Open, FailedBar
<1> QED
  BY <1>3 DEF Simulated, Promise!Next

\* The commit begins without effect; giving up discards what is staged.
LEMMA FinishStep ==
    ASSUME StepInv, StepInv', NEW t \in Threads,
           CommitStarts(t) \/ CommitRollsBack(t) \/ AbortStarts(t)
    PROVE  Simulated
<1> USE DEF StepInv
<1>1. /\ Owns(t) /\ pc[t] = "client" /\ s_nPendingThreadId # NoThread
      /\ path = "none" /\ cursor = 0
      /\ UNCHANGED <<s_nPendingThreadId, s_nPendingError,
                     s_pPendingOperations, trampoline, code>>
  <2>1. Owns(t) /\ pc[t] = "client"
    BY DEF CommitStarts, CommitRollsBack, AbortStarts, Calls
  <2>2. cursor = 0
    BY <2>1, NotPatchedYet DEF HookInv
  <2> QED
    BY <2>1, <2>2, NoThreadAssumption
    DEF CommitStarts, CommitRollsBack, AbortStarts, statics, memory, PathInv,
        Owns
<1>2. ~CommitPoint /\ ~CommitPoint' /\ ~GivenUp
  <2>1. CASE CommitStarts(t)
    <3>1. cursor' = 1 /\ pc'[t] = "patch"
      BY <2>1 DEF CommitStarts, Goto, TypeInv, TypeOK
    <3> QED
      BY <3>1, <1>1 DEF CommitPoint, GivenUp, Owns
  <2>2. CASE CommitRollsBack(t) \/ AbortStarts(t)
    BY <2>2, <1>1 DEF CommitPoint, GivenUp, CommitRollsBack, AbortStarts
  <2> QED
    BY <2>1, <2>2
<1>3. HooksBar' = HooksBar
  <2>1. (HooksBar = [f \in Funcs |-> HookedIn(f)])'
    BY <1>2, Uncommitted, PTL
  <2>2. \A f \in Funcs : HookedIn(f)' = HookedIn(f)
    BY <1>1, HookedInKept DEF HookInv
  <2> QED
    BY <2>1, <2>2, <1>2, Uncommitted
<1>4. CASE CommitStarts(t)
  <2>1. ~GivenUp'
    BY <1>4 DEF CommitStarts, GivenUp
  <2>2. OperationInv /\ OperationInv'
    BY DEF HookInv
  <2>3. \A f \in Funcs : StagedIs(f)
    BY <2>2, StagedValue
  <2>4. (\A f \in Funcs : StagedIs(f))'
    BY <2>2, StagedValue, PTL
  <2>5. /\ \A f \in Funcs : Pending(f)' = Pending(f)
        /\ \A i : Change(i)' = Change(i)
    BY <1>1 DEF Pending, Change
  <2>6. \A f \in Funcs : StagedBar'[f] = StagedBar[f]
    BY <1>2, <2>1, <2>3, <2>4, <2>5 DEF StagedIs
  <2>7. StagedBar' = [f \in Funcs |-> StagedBar'[f]]
    BY DEF StagedBar
  <2>8. StagedBar' = StagedBar
    BY <2>6, <2>7, BarFunctions
  <2> QED
    BY <2>8, <1>1, <1>3 DEF Simulated, Promise!vars, FailedBar
<1>5. CASE CommitRollsBack(t) \/ AbortStarts(t)
  <2>1. (CommitPoint \/ GivenUp \/ s_pPendingOperations = <<>>)'
    BY <1>5 DEF CommitRollsBack, AbortStarts, GivenUp
  <2>2. (StagedBar = Promise!Unstaged)'
    BY <2>1, NothingStaged, PTL
  <2>3. Promise!GiveUp
    BY <2>2, <1>1, <1>3 DEF Promise!GiveUp, Promise!Unstaged, FailedBar
  <2> QED
    BY <2>3, <1>1 DEF Simulated, Promise!Next
<1> QED
  BY <1>4, <1>5

LEMMA ClientStep ==
    ASSUME Disciplined, StepInv, StepInv', NEW t \in Threads, ClientNext(t)
    PROVE  Simulated
<1> USE DEF statics, flags, memory, control, Goto, Calls
<1> pc \in [Threads -> Places]
  BY DEF StepInv, TypeInv, TypeOK
<1>1. CASE BeginOwner(t)
  BY <1>1, BeginStep
<1>2. CASE \E b \in BOOLEAN : SetIgnoreTooSmall(t, b) \/ SetRetainRegions(t, b)
  BY <1>2, CallFrame DEF SetIgnoreTooSmall, SetRetainRegions
<1>3. CASE \/ BeginBusy(t)
           \/ UpdateThreadNothing(t, "GetCurrentThread")
           \/ Owns(t) /\ UpdateThreadFails(t)
           \/ FinishRefused(t)
  BY <1>3, CallFrame
  DEF BeginBusy, UpdateThreadNothing, UpdateThreadFails, FinishRefused
<1>4. CASE \E u \in Threads : MaySuspend(t, u) /\ UpdateThreadSuspends(t, u)
  BY <1>4, CallFrame DEF UpdateThreadSuspends
<1>5. CASE \E p \in Pointers, d \in Detours :
              Orderly(p) /\ (Attach(t, p, d) \/ Detach(t, p, d))
  <2>1. PICK p \in Pointers, d \in Detours :
           Orderly(p) /\ (Attach(t, p, d) \/ Detach(t, p, d))
    BY <1>5
  <2>2. CallStages(t, p, d)
    BY <2>1, StagingOutcome
  <2>3. CASE UNCHANGED <<s_pPendingOperations, trampoline>>
    BY <2>2, <2>3, CallFrame DEF CallStages
  <2>4. CASE AttachStages(t, p, d) \/ DetachStages(t, p, d)
    BY <2>1, <2>4, AttachStagesStep, DetachStagesStep
  <2> QED
    BY <2>2, <2>3, <2>4 DEF CallStages
<1>6. CASE CommitStarts(t) \/ CommitRollsBack(t) \/ AbortStarts(t)
  BY <1>6, FinishStep
<1> QED
  BY <1>1, <1>2, <1>3, <1>4, <1>5, <1>6 DEF ClientNext, Begin, Commit, Abort

LEMMA CallStep ==
    ASSUME StepInv, StepInv', NEW t \in Threads, CallNext(t) PROVE Simulated
<1> USE DEF statics, flags, memory, control, Goto, At
<1> pc \in [Threads -> Places]
  BY DEF StepInv, TypeInv, TypeOK
<1>1. CASE PushThread(t)
  BY <1>1, CallFrame DEF PushThread
<1>2. CASE PatchOperation(t)
  BY <1>2, PatchStep
<1>3. CASE PatchingDone(t)
  BY <1>3, PatchingDoneStep
<1>4. CASE RestoreOperation(t) \/ AbortOperation(t)
  BY <1>4, RestorePageStep
<1>5. CASE SettleRegions(t) \/ ResumeThreads(t) \/ Release(t)
  <2>1. /\ s_pPendingOperations = <<>> /\ s_pPendingOperations' = <<>>
        /\ UNCHANGED <<code, trampoline, s_nPendingError>>
    BY <1>5 DEF SettleRegions, ResumeThreads, Release, StepInv, WriteInv,
                RegionInv
  <2>2. UNCHANGED <<HooksBar, StagedBar>> /\ StagedBar = Promise!Unstaged
    BY <2>1, EmptyFrame
  <2>3. CASE SettleRegions(t) \/ ResumeThreads(t)
    BY <2>1, <2>2, <2>3
    DEF SettleRegions, ResumeThreads, Simulated, Promise!vars, FailedBar
  <2>4. CASE Release(t)
    <3>1. s_nPendingThreadId # NoThread /\ s_nPendingThreadId' = NoThread
      BY <2>4, NoThreadAssumption
      DEF Release, StepInv, TypeInv, ControlOK, OwnerPlaces, Owns
    <3>2. Promise!Close
      BY <3>1, <2>2 DEF Promise!Close, FailedBar
    <3> QED
      BY <3>1, <3>2 DEF Simulated, Promise!Next
  <2> QED
    BY <1>5, <2>3, <2>4
<1>6. CASE CommitReturns(t)
  BY <1>6, CallFrame DEF CommitReturns
<1> QED
  BY <1>1, <1>2, <1>3, <1>4, <1>5, <1>6 DEF CallNext

LEMMA InitMapped == Init => Promise!Init
<1> SUFFICES ASSUME Init PROVE Promise!Init
    OBVIOUS
<1>1. TypeInv /\ HookInv
  BY InitType, InitHooks
<1>2. HooksBar = [f \in Funcs |-> <<>>]
  <2>1. ASSUME NEW f \in Funcs PROVE HookedIn(f) = <<>>
    <3>1. PICK slots : slots = trampoline
      OBVIOUS
    <3>2. SlotsOK(slots)
      BY <3>1, <1>1, SlotsTyped
    <3>3. PICK c : c = Jumps(Original, slots) /\ c[0] = Original
      BY <3>2, JumpsSteps DEF SlotsOK, Codes
    <3>4. Ends(c) = 0
      <4>1. 0 \in 0 .. N /\ \A m \in 0 .. 0 - 1 : c[m] # Original
        BY NumberOfSlots
      <4> QED
        BY <3>3, <4>1, EndsOnce
    <3>5. Route(c, slots) = <<>>
      BY <3>4 DEF Route
    <3>6. code[f] = Original
      BY DEF Init
    <3> QED
      BY <3>1, <3>3, <3>5, <3>6, HookedInIs DEF Stack
  <2>2. HooksBar = [f \in Funcs |-> HookedIn(f)]
    BY NothingToPatch DEF Init
  <2> QED
    BY <2>1, <2>2
<1>3. StagedBar = Promise!Unstaged
  BY NothingStaged DEF Init
<1>4. s_nPendingThreadId = NoThread /\ FailedBar = FALSE
  BY DEF Init, FailedBar
<1> QED
  BY <1>2, <1>3, <1>4 DEF Promise!Init

\* The hooks of all functions change in one step, by everything that was
\* staged, and only in a transaction in which no call failed: whatever the
\* number of functions, and whatever the other threads do in the meantime.
THEOREM TransactionsAreAtomic == ASSUME Disciplined PROVE Spec => AllOrNothing
<1>1. StepInv /\ StepInv' /\ [Next]_vars => Simulated
  <2> SUFFICES ASSUME StepInv, StepInv', [Next]_vars PROVE Simulated
      OBVIOUS
  <2>1. CASE Next
    BY <2>1, ClientStep, CallStep DEF Next
  <2>2. CASE UNCHANGED vars
    <3>1. /\ UNCHANGED <<s_nPendingThreadId, s_pPendingOperations, trampoline,
                         code, cursor, path, s_nPendingError, pc>>
      BY <2>2 DEF vars, statics, memory, control
    <3>2. HooksBar' = HooksBar /\ StagedBar' = StagedBar
      BY <3>1 DEF HooksBar, StagedBar, Unpatched, Pending, Change, HookedIn,
                  Depth, CallChain, CommitPoint, Owns
    <3> QED
      BY <3>1, <3>2 DEF Simulated, Promise!vars, FailedBar
  <2> QED
    BY <2>1, <2>2
<1>2. Spec => []StepInv
  BY TypeCorrect, WriteInvHolds, HookInvHolds, PathInvHolds, PTL DEF StepInv
<1>3. Init => Promise!Init
  BY InitMapped
<1> QED
  BY <1>1, <1>2, <1>3, PTL DEF Spec, Simulated, AllOrNothing, Promise!Spec

================================================================================
