----------------------------- MODULE HookApiProofs -----------------------------
(***************************************************************************)
(* What the clients of HookFuncByName and UnHookFunc are told and keep,    *)
(* for any number of threads and hooks: every call is a transaction of one *)
(* operation, and what it reports is what became of its function.          *)
(***************************************************************************)
EXTENDS HookApi, DetourTransactionProofs

Target(t) == request[t][1]

\* The client's variable is a trampoline only when that is in effect; and when
\* one is, the variable is what a DWORD holds of it.
SavedOK(h) ==
    /\ saved[h] \in Trampolines => code[h[1]] = saved[h]
    /\ code[h[1]] # Original => saved[h] = AsDword(code[h[1]])

\* Between two calls about a hook.
Settled(h) == IF hooked[h] THEN SavedOK(h) ELSE code[h[1]] = Original
IdleInv == \A h \in Hooks : Free(h) => Settled(h)

\* One hook on a function: its trampoline has saved the function's own code.
SlotInv ==
    /\ \A f \in Funcs : code[f] # Original => trampoline[code[f]].pbTarget = f
    /\ \A s \in Trampolines : trampoline[s].rbRestore = Original

\* Where a call is in hook.cpp and in the engine.  A thread that lists another
\* one has suspended itself.
PlaceInv ==
    /\ \A t \in Threads :
        /\ (api[t] = "idle") <=> (request[t] = NoHook)
        /\ api[t] \in {"update", "again", "change", "commit"} => Owns(t)
        /\ (pc[t] \notin {"client", "push"}) <=> (api[t] = "committing")
        /\ pc[t] = "push" => api[t] = "again" /\ ~Running(t)
    /\ \A t, u \in Threads :
        request[t] = request[u] /\ request[t] # NoHook => t = u

Staged(t)  == Owns(t) /\ s_pPendingOperations # <<>>
PatchedFor(t) == pc[t] = "restore" \/ (pc[t] = "patch" /\ cursor # 1)

\* The operation in the list is the one the owner's call has staged, and the
\* commit will not abort.
OwnOperationInv ==
    s_pPendingOperations # <<>> =>
        /\ Len(s_pPendingOperations) = 1
        /\ s_nPendingError = "NO_ERROR"
        /\ \E t \in Threads :
            /\ Owns(t)
            /\ api[t] \in {"commit", "committing"}
            /\ pc[t] \in {"client", "patch", "restore"}
            /\ success[t]
            /\ LET o == s_pPendingOperations[1] IN
               /\ o.ppbPointer = t
               /\ o.pbTarget = Target(t)
               /\ o.fIsRemove <=> ~isHook[t]
               /\ trampoline[o.pTrampoline].pbTarget = Target(t)

\* The function and the variables as they are when a call begins and stay when
\* it fails, and as they are when it has changed the function.
Before(t) ==
    IF isHook[t] THEN code[Target(t)] = Original /\ pointer[t] = Target(t)
    ELSE SavedOK(request[t]) /\ pointer[t] = saved[request[t]]
After(t) ==
    IF isHook[t] THEN code[Target(t)] # Original /\ pointer[t] = code[Target(t)]
    ELSE code[Target(t)] = Original

\* A call that has not changed its function may say it has made the hook, but
\* not that it has removed it.
Outcome(t) == \/ Before(t) /\ (isHook[t] \/ ~success[t])
              \/ After(t) /\ success[t]

CallInv(t) ==
    /\ hooked[request[t]] <=> ~isHook[t]
    /\ api[t] \in {"begin", "update", "again"} => ~success[t]
    /\ api[t] = "change" /\ isHook[t] => success[t]
    /\ api[t] \in {"begin", "update", "again", "change"} => Before(t)
    /\ api[t] \in {"commit", "committing", "store"} =>
        IF Staged(t) THEN IF PatchedFor(t) THEN After(t) ELSE Before(t)
        ELSE Outcome(t)
CallsInv == \A t \in Threads : api[t] # "idle" => CallInv(t)

ApiTypeInv == ApiTypeOK /\ ControlOK
ApiInv == ApiTypeInv /\ SlotInv /\ PlaceInv /\ OwnOperationInv /\ IdleInv /\ CallsInv

-----------------------------------------------------------------------------
(* Facts the cases share.                                                  *)

LEMMA HookTypes ==
    \A h \in Hooks : h[1] \in Funcs /\ h[2] \in Detours /\ h # NoHook
<1> SUFFICES ASSUME NEW h \in Hooks PROVE h[1] \in Funcs /\ h[2] \in Detours /\ h # NoHook
    OBVIOUS
<1>1. h \in Funcs \X Detours
  BY HooksAssumption
<1> QED
  BY <1>1 DEF NoHook

\* The hooks a step of thread t, whose call is about r, leaves alone.
OthersKept(t, r) ==
    /\ \A u \in Threads \ {t} :
        /\ request[u] # r
        /\ api'[u] = api[u] /\ request'[u] = request[u] /\ isHook'[u] = isHook[u]
        /\ success'[u] = success[u] /\ pointer'[u] = pointer[u]
        /\ Staged(u)' <=> Staged(u)
        /\ Staged(u) => (PatchedFor(u)' <=> PatchedFor(u))
    /\ \A h \in Hooks \ {r} :
        saved'[h] = saved[h] /\ hooked'[h] = hooked[h] /\ code'[h[1]] = code[h[1]]

\* What a step of t has to show is what it does to its own call.
LEMMA OneCall ==
    ASSUME ApiInv, NEW t \in Threads, NEW r \in Hooks,
           request[t] \in {r, NoHook}, OthersKept(t, r),
           request'[t] = IF api'[t] = "idle" THEN NoHook ELSE r,
           api'[t] # "idle" => CallInv(t)',
           api'[t] = "idle" => Settled(r)'
    PROVE  IdleInv' /\ CallsInv'
<1>1. ASSUME NEW h \in Hooks, Free(h)' PROVE Settled(h)'
  <2>1. CASE h = r
    BY <1>1, <2>1 DEF Free
  <2>2. CASE h # r
    <3>1. Free(h)
      BY <1>1, <2>2, HookTypes DEF Free, OthersKept
    <3>2. Settled(h)
      BY <3>1 DEF ApiInv, IdleInv
    <3> QED
      BY <3>2, <2>2 DEF Settled, SavedOK, OthersKept
  <2> QED
    BY <2>1, <2>2
<1>2. ASSUME NEW u \in Threads, api'[u] # "idle" PROVE CallInv(u)'
  <2>1. CASE u = t
    BY <1>2, <2>1
  <2>2. CASE u # t
    <3> DEFINE k == request[u]
    <3>1. api[u] # "idle" /\ CallInv(u)
      BY <1>2, <2>2 DEF OthersKept, ApiInv, CallsInv
    <3>2. k \in Hooks \ {r}
      BY <3>1, <2>2 DEF ApiInv, PlaceInv, ApiTypeInv, ApiTypeOK, OthersKept
    <3>3. /\ saved'[k] = saved[k] /\ hooked'[k] = hooked[k] /\ code'[k[1]] = code[k[1]]
          /\ request'[u] = k
      BY <3>2, <2>2 DEF OthersKept
    <3>4. /\ api'[u] = api[u] /\ isHook'[u] = isHook[u]
          /\ success'[u] = success[u] /\ pointer'[u] = pointer[u]
          /\ Staged(u)' <=> Staged(u)
          /\ Staged(u) => (PatchedFor(u)' <=> PatchedFor(u))
      BY <2>2 DEF OthersKept
    <3>5. (Before(u)' <=> Before(u)) /\ (After(u)' <=> After(u))
      BY <3>3, <3>4 DEF Before, After, Target, SavedOK
    <3> HIDE DEF k
    <3> QED
      BY <3>1, <3>3, <3>4, <3>5 DEF CallInv, Outcome, k
  <2> QED
    BY <2>1, <2>2
<1> QED
  BY <1>1, <1>2 DEF IdleInv, CallsInv

\* Nobody else works on the function of a call.
LEMMA OwnFunction ==
    ASSUME ApiInv, NEW t \in Threads, api[t] # "idle"
    PROVE  /\ request[t] \in Hooks /\ Target(t) \in Funcs
           /\ \A u \in Threads \ {t} : request[u] # request[t]
           /\ \A h \in Hooks \ {request[t]} : h[1] # Target(t)
<1>1. request[t] \in Hooks
  BY DEF ApiInv, PlaceInv, ApiTypeInv, ApiTypeOK
<1>2. \A h \in Hooks : h[1] = request[t][1] => h = request[t]
  BY <1>1, OneHookAssumption
<1> QED
  BY <1>1, <1>2, HookTypes DEF Target, ApiInv, PlaceInv

\* The transaction of a call that is between Begin and the commit, before it
\* has staged its operation.
LEMMA NoneStaged ==
    ASSUME ApiInv, NEW t \in Threads, Owns(t),
           api[t] \notin {"commit", "committing"} \/
               pc[t] \notin {"client", "patch", "restore"}
    PROVE  s_pPendingOperations = <<>>
BY DEF ApiInv, OwnOperationInv, Owns

\* Steps that leave the memory, the list and its owner as they are.
LEMMA SlotFrame ==
    ASSUME SlotInv, UNCHANGED <<code, trampoline>> PROVE SlotInv'
BY DEF SlotInv

\* The places of the other threads' calls.
LEMMA PlaceStep ==
    ASSUME ApiInv, NEW t \in Threads, NEW r \in Hooks,
           request[t] \in {r, NoHook}, OthersKept(t, r),
           request'[t] = IF api'[t] = "idle" THEN NoHook ELSE r,
           \A u \in Threads \ {t} :
               /\ pc'[u] = pc[u]
               /\ Owns(u) => Owns(u)'
               /\ pc[u] = "push" => ~Running(u)',
           api'[t] \in {"update", "again", "change", "commit"} => Owns(t)',
           (pc'[t] \notin {"client", "push"}) <=> (api'[t] = "committing"),
           pc'[t] = "push" => api'[t] = "again" /\ ~Running(t)'
    PROVE  PlaceInv'
<1>1. ASSUME NEW u \in Threads
      PROVE  /\ (api'[u] = "idle") <=> (request'[u] = NoHook)
             /\ api'[u] \in {"update", "again", "change", "commit"} => Owns(u)'
             /\ (pc'[u] \notin {"client", "push"}) <=> (api'[u] = "committing")
             /\ pc'[u] = "push" => api'[u] = "again" /\ ~Running(u)'
  <2>1. CASE u = t
    BY <2>1, HookTypes
  <2>2. CASE u # t
    BY <2>2 DEF OthersKept, ApiInv, PlaceInv
  <2> QED
    BY <2>1, <2>2
<1>2. ASSUME NEW u \in Threads, NEW v \in Threads,
             request'[u] = request'[v], request'[u] # NoHook
      PROVE  u = v
  BY <1>2 DEF OthersKept, ApiInv, PlaceInv
<1> QED
  BY <1>1, <1>2 DEF PlaceInv

\* Steps of a thread that has no operation in the list.
LEMMA OperationFrame ==
    ASSUME ApiInv, NEW t \in Threads, ~Staged(t),
           UNCHANGED <<s_nPendingThreadId, s_pPendingOperations, s_nPendingError,
                       trampoline>>,
           \A u \in Threads \ {t} :
               /\ pc'[u] = pc[u] /\ api'[u] = api[u] /\ request'[u] = request[u]
               /\ isHook'[u] = isHook[u] /\ success'[u] = success[u]
    PROVE  OwnOperationInv'
<1> SUFFICES ASSUME s_pPendingOperations # <<>> PROVE OwnOperationInv'
  BY DEF OwnOperationInv
<1> DEFINE o == s_pPendingOperations[1]
           Of(u) == /\ Owns(u)
                    /\ api[u] \in {"commit", "committing"}
                    /\ pc[u] \in {"client", "patch", "restore"}
                    /\ success[u]
                    /\ o.ppbPointer = u
                    /\ o.pbTarget = Target(u)
                    /\ o.fIsRemove <=> ~isHook[u]
                    /\ trampoline[o.pTrampoline].pbTarget = Target(u)
<1>1. PICK u \in Threads : Of(u)
  BY DEF ApiInv, OwnOperationInv
<1>2. u # t
  BY <1>1 DEF Staged
<1>3. Of(u)'
  BY <1>1, <1>2 DEF Owns, Target
<1> QED
  BY <1>3 DEF ApiInv, OwnOperationInv

-----------------------------------------------------------------------------
(* The steps of hook.cpp that leave the engine's list alone.               *)

LEMMA CallApiStep ==
    ASSUME ApiInv, NEW t \in Threads, NEW h \in Hooks, NEW hook \in BOOLEAN,
           CallApi(t, h, hook)
    PROVE  ApiInv'
<1> USE DEF CallApi, AtApi, ApiGoto, Succeeds, statics, flags, control
<1>1. /\ api[t] = "idle" /\ request[t] = NoHook /\ Free(h)
      /\ api' = [api EXCEPT ![t] = "begin"] /\ request' = [request EXCEPT ![t] = h]
      /\ isHook' = [isHook EXCEPT ![t] = hook] /\ success' = [success EXCEPT ![t] = FALSE]
      /\ pointer' = [pointer EXCEPT ![t] = IF hook THEN h[1] ELSE saved[h]]
  BY DEF ApiInv, PlaceInv
<1>2. /\ pc \in [Threads -> Places] /\ api \in [Threads -> ApiPlaces]
      /\ request \in [Threads -> Hooks \cup {NoHook}]
      /\ isHook \in [Threads -> BOOLEAN] /\ success \in [Threads -> BOOLEAN]
      /\ pointer \in [Threads -> Addresses]
      /\ saved \in [Hooks -> Addresses]
      /\ h[1] \in Funcs
  BY LocalsAssumption, HookTypes DEF ApiInv, ApiTypeInv, ApiTypeOK, TypeOK
<1>3. ApiTypeInv'
  <2>1. /\ pointer' \in [Pointers -> Addresses]
        /\ api' \in [Threads -> ApiPlaces]
        /\ request' \in [Threads -> Hooks \cup {NoHook}]
        /\ isHook' \in [Threads -> BOOLEAN] /\ success' \in [Threads -> BOOLEAN]
    BY <1>1, <1>2, LocalsAssumption DEF ApiPlaces, Addresses
  <2> QED
    BY <2>1 DEF ApiInv, ApiTypeInv, ApiTypeOK, TypeOK, ControlOK, Owns
<1>4. OthersKept(t, h)
  BY <1>1, <1>2 DEF OthersKept, Free, Staged, Owns, PatchedFor
<1>5. SlotInv'
  BY SlotFrame DEF ApiInv
<1>6. ~Staged(t)
  BY <1>1, NoneStaged DEF Staged
<1>7. OwnOperationInv'
  BY <1>4, <1>6, OperationFrame DEF OthersKept
<1>8. pc[t] = "client"
  BY <1>1, <1>2 DEF ApiInv, PlaceInv
<1>9. PlaceInv'
  BY <1>1, <1>2, <1>4, <1>8, PlaceStep DEF Owns, Running, ApiInv, PlaceInv
<1>10. CallInv(t)'
  <2>1. Settled(h)
    BY <1>1 DEF ApiInv, IdleInv
  <2>2. hooked[h] <=> ~hook
    BY DEF ApiInv, ApiTypeInv, ApiTypeOK
  <2> QED
    BY <1>1, <1>2, <2>1, <2>2 DEF CallInv, Before, Settled, SavedOK, Target
<1>11. IdleInv' /\ CallsInv'
  BY <1>1, <1>2, <1>4, <1>10, OneCall
<1> QED
  BY <1>3, <1>5, <1>7, <1>9, <1>11 DEF ApiInv

\* A step of a call that leaves functions and variables alone: what it does to
\* the locals, what it leaves to the other threads, and where it arrives.
Moves(t, place, b) ==
    /\ api' = [api EXCEPT ![t] = place] /\ success' = [success EXCEPT ![t] = b]
    /\ UNCHANGED <<code, pointer, request, isHook, saved, hooked>>

OthersRun(t) == \A u \in Threads \ {t} :
    /\ pc'[u] = pc[u]
    /\ Staged(u)' <=> Staged(u)
    /\ Staged(u) => cursor' = cursor
    /\ Owns(u) => Owns(u)'
    /\ pc[u] = "push" => ~Running(u)'

Arrives(t, place, b) ==
    /\ place \in {"update", "again", "change", "commit"} => Owns(t)'
    /\ (pc'[t] \notin {"client", "push"}) <=> (place = "committing")
    /\ pc'[t] = "push" => place = "again" /\ ~Running(t)'
    /\ place \in {"begin", "update", "again"} => ~b
    /\ place = "change" /\ isHook[t] => b
    /\ place \in {"begin", "update", "again", "change"} => Before(t)
    /\ place \in {"commit", "committing", "store"} =>
           IF Staged(t)' THEN IF PatchedFor(t)' THEN After(t) ELSE Before(t)
           ELSE \/ Before(t) /\ (isHook[t] \/ ~b)
                \/ After(t) /\ b

LEMMA Advances ==
    ASSUME ApiInv, ApiTypeInv', SlotInv', OwnOperationInv',
           NEW t \in Threads, api[t] # "idle",
           NEW place \in ApiPlaces \ {"idle"}, NEW b \in BOOLEAN,
           Moves(t, place, b), OthersRun(t), Arrives(t, place, b)
    PROVE  ApiInv'
<1> USE DEF Moves, OthersRun, Arrives
<1> DEFINE r == request[t]
<1>1. /\ api \in [Threads -> ApiPlaces] /\ success \in [Threads -> BOOLEAN]
      /\ hooked[r] <=> ~isHook[t]
  BY DEF ApiInv, ApiTypeInv, ApiTypeOK, CallsInv, CallInv
<1>2. r \in Hooks /\ (\A u \in Threads \ {t} : request[u] # r)
  BY OwnFunction
<1>3. OthersKept(t, r)
  BY <1>1, <1>2 DEF OthersKept, PatchedFor
<1>4. api'[t] = place /\ success'[t] = b /\ request'[t] = r /\ isHook'[t] = isHook[t]
  BY <1>1
<1>5. (Before(t)' <=> Before(t)) /\ (After(t)' <=> After(t))
  BY DEF Before, After, SavedOK, Target
<1>6. hooked'[r] <=> ~isHook'[t]
  BY <1>1
<1> HIDE DEF r
<1>7. CallInv(t)'
  BY <1>4, <1>5, <1>6 DEF CallInv, Outcome
<1>8. PlaceInv'
  BY <1>2, <1>3, <1>4, PlaceStep DEF r
<1>9. IdleInv' /\ CallsInv'
  BY <1>2, <1>3, <1>4, <1>7, OneCall DEF r
<1> QED
  BY <1>8, <1>9 DEF ApiInv

\* The types of what hook.cpp has of its own.
LEMMA AdvancesType ==
    ASSUME ApiInv, TypeInv', NEW t \in Threads, NEW place \in ApiPlaces,
           NEW b \in BOOLEAN,
           Moves(t, place, b)
    PROVE  ApiTypeInv'
BY DEF Moves, ApiInv, ApiTypeInv, ApiTypeOK, TypeInv

LEMMA Types == ASSUME ApiInv PROVE TypeInv
BY DEF ApiInv, ApiTypeInv, ApiTypeOK, TypeInv

\* success and api when a step leaves them alone.
LEMMA Unchanged ==
    ASSUME ApiInv, NEW t \in Threads
    PROVE  /\ success = [success EXCEPT ![t] = success[t]] /\ success[t] \in BOOLEAN
           /\ api = [api EXCEPT ![t] = api[t]] /\ api[t] \in ApiPlaces
BY DEF ApiInv, ApiTypeInv, ApiTypeOK

LEMMA ListKept ==
    ASSUME ApiInv, NEW t \in Threads, NEW place, NEW b, Moves(t, place, b), OthersRun(t),
           ~Staged(t), UNCHANGED <<s_nPendingThreadId, s_pPendingOperations, s_nPendingError,
                                   trampoline>>
    PROVE  OwnOperationInv'
<1>1. api \in [Threads -> ApiPlaces] /\ success \in [Threads -> BOOLEAN]
  BY DEF ApiInv, ApiTypeInv, ApiTypeOK
<1>2. \A u \in Threads \ {t} :
          /\ pc'[u] = pc[u] /\ api'[u] = api[u] /\ request'[u] = request[u]
          /\ isHook'[u] = isHook[u] /\ success'[u] = success[u]
  BY <1>1 DEF Moves, OthersRun
<1> QED
  BY <1>2, OperationFrame

\* What holds of a call between Begin and the change of its function.
LEMMA Preparing ==
    ASSUME ApiInv, NEW t \in Threads, api[t] \in {"update", "again", "change"}
    PROVE  /\ Owns(t) /\ Before(t) /\ ~Staged(t)
           /\ \A u \in Threads \ {t} : ~Owns(u) /\ ~Staged(u)
           /\ pc[t] \in {"client", "push"}
           /\ api[t] = "change" => pc[t] = "client"
<1>1. Owns(t) /\ pc[t] \in {"client", "push"} /\ (api[t] = "change" => pc[t] = "client")
  BY DEF ApiInv, PlaceInv
<1>2. Before(t)
  BY DEF ApiInv, CallsInv, CallInv
<1>3. ~Staged(t)
  BY <1>1, NoneStaged DEF Staged
<1> QED
  BY <1>1, <1>2, <1>3 DEF Owns, Staged

LEMMA BeginApiStep ==
    ASSUME ApiInv, NEW t \in Threads, BeginApi(t) PROVE ApiInv'
<1> USE DEF BeginApi, AtApi, ApiGoto, AfterBegin, statics, flags, memory, control
<1>1. api[t] = "begin" /\ pc[t] = "client" /\ Before(t) /\ ~success[t]
  BY DEF ApiInv, CallsInv, CallInv, Begin, BeginBusy, BeginOwner, Calls
<1>2. TypeInv
  BY Types
<1>3. ret \in [Threads -> Results]
  BY <1>2 DEF TypeInv, TypeOK
<1>4. ~Staged(t)
  BY <1>1, NoneStaged DEF Staged
<1>5. CASE BeginBusy(t)
  <2>1. TypeInv'
    BY <1>2, <1>5, QuietType DEF Quiet
  <2>2. UNCHANGED <<statics, flags, memory, suspended, hThread, control>>
    BY <1>5 DEF BeginBusy
  <2>3. Moves(t, "store", FALSE)
    BY <1>1, <1>3, <1>5, <2>2, Unchanged DEF BeginBusy, Return, Moves
  <2>4. SlotInv'
    BY <2>2, SlotFrame DEF ApiInv
  <2>5. OthersRun(t)
    BY <2>2 DEF OthersRun, Staged, Owns, Running, ApiInv, PlaceInv
  <2>6. OwnOperationInv'
    BY <1>4, <2>2, <2>3, <2>5, ListKept
  <2>7. Arrives(t, "store", FALSE)
    BY <1>1, <1>4, <2>2 DEF Arrives, Staged, Owns
  <2> QED
    BY <1>1, <2>1, <2>3, <2>4, <2>5, <2>6, <2>7, AdvancesType, Advances DEF ApiPlaces
<1>6. CASE BeginOwner(t)
  <2>1. TypeInv'
    BY <1>2, <1>6, ClientType DEF ClientNext, Begin
  <2>2. /\ s_nPendingThreadId = NoThread /\ s_nPendingThreadId' = t
        /\ s_pPendingOperations' = <<>>
        /\ UNCHANGED <<code, trampoline, pointer, pc, cursor, suspended>>
    BY <1>6 DEF BeginOwner
  <2>3. PICK place \in {"update", "store"} : Moves(t, place, FALSE)
    BY <1>1, <2>2, Unchanged DEF Moves
  <2>4. SlotInv'
    BY <2>2, SlotFrame DEF ApiInv
  <2>5. \A u \in Threads : ~Owns(u) /\ ~Staged(u) /\ ~Staged(u)'
    BY <2>2, NoThreadAssumption DEF Owns, Staged
  <2>6. OthersRun(t)
    BY <2>2, <2>5 DEF OthersRun, Running, ApiInv, PlaceInv
  <2>7. OwnOperationInv'
    BY <2>2 DEF OwnOperationInv
  <2>8. Arrives(t, place, FALSE)
    BY <1>1, <2>2, <2>5 DEF Arrives, Owns
  <2> QED
    BY <1>1, <2>1, <2>3, <2>4, <2>6, <2>7, <2>8, AdvancesType, Advances DEF ApiPlaces
<1> QED
  BY <1>5, <1>6 DEF Begin

\* Steps between Begin and the commit that stage nothing.
LEMMA Prepares ==
    ASSUME ApiInv, TypeInv', NEW t \in Threads, api[t] \in {"update", "again", "change"},
           NEW place \in {"again", "change", "commit"}, NEW b \in BOOLEAN,
           Moves(t, place, b),
           UNCHANGED <<s_nPendingThreadId, s_pPendingOperations, trampoline>>,
           \A u \in Threads \ {t} : pc'[u] = pc[u],
           suspended \subseteq suspended',
           pc'[t] = "client" \/ (pc'[t] = "push" /\ place = "again" /\ ~Running(t)'),
           place = "again" => ~b,
           place = "change" /\ isHook[t] => b,
           place = "commit" => isHook[t] \/ ~b
    PROVE  ApiInv'
<1>1. /\ Owns(t) /\ Before(t) /\ ~Staged(t)
      /\ \A u \in Threads \ {t} : ~Owns(u) /\ ~Staged(u)
  BY Preparing
<1>2. s_pPendingOperations' = <<>>
  BY <1>1 DEF Staged
<1>3. OwnOperationInv'
  BY <1>2 DEF OwnOperationInv
<1>4. OthersRun(t)
  BY <1>1, <1>2 DEF OthersRun, Staged, Running, ApiInv, PlaceInv
<1>5. Arrives(t, place, b)
  BY <1>1, <1>2 DEF Arrives, Staged, Owns
<1>6. SlotInv'
  BY SlotFrame DEF Moves, ApiInv
<1>7. ApiTypeInv'
  BY AdvancesType DEF ApiPlaces
<1> QED
  BY <1>3, <1>4, <1>5, <1>6, <1>7, Advances DEF ApiPlaces

LEMMA UpdateSelfStep ==
    ASSUME ApiInv, NEW t \in Threads, UpdateSelf(t) PROVE ApiInv'
<1> USE DEF UpdateSelf, AtApi, ApiGoto, Succeeds, statics, flags, memory, control
<1>1. api[t] = "update" /\ UpdateThreadNothing(t, "GetCurrentThread")
  OBVIOUS
<1>2. TypeInv'
  BY <1>1, Types, QuietType DEF Quiet
<1>3. UNCHANGED <<statics, flags, memory, suspended, hThread, control>> /\ pc[t] = "client"
  BY DEF UpdateThreadNothing, Calls
<1>4. Moves(t, "change", isHook[t]) /\ isHook[t] \in BOOLEAN
  BY <1>3 DEF Moves, ApiInv, ApiTypeInv, ApiTypeOK
<1> QED
  BY <1>1, <1>2, <1>3, <1>4, Prepares

LEMMA SnapshotFailsStep ==
    ASSUME ApiInv, NEW t \in Threads, SnapshotFails(t) PROVE ApiInv'
<1> USE DEF SnapshotFails, AtApi, ApiGoto, Succeeds, vars, statics, flags, memory, control
<1>1. api[t] \in {"update", "again"} /\ pc[t] = "client"
  OBVIOUS
<1>2. TypeInv'
  BY Types DEF TypeInv, TypeOK, ControlOK, OwnerPlaces, Owns
<1>3. Moves(t, "commit", FALSE)
  BY DEF Moves
<1> QED
  BY <1>1, <1>2, <1>3, Prepares

LEMMA NothingNewStep ==
    ASSUME ApiInv, NEW t \in Threads, NothingNew(t) PROVE ApiInv'
<1> USE DEF NothingNew, AtApi, ApiGoto, Succeeds, vars, statics, flags, memory, control
<1>1. api[t] = "again" /\ pc[t] = "client"
  OBVIOUS
<1>2. TypeInv'
  BY Types DEF TypeInv, TypeOK, ControlOK, OwnerPlaces, Owns
<1>3. Moves(t, "change", TRUE)
  BY DEF Moves
<1> QED
  BY <1>1, <1>2, <1>3, Prepares

LEMMA UpdateAllThreadsStep ==
    ASSUME ApiInv, NEW t \in Threads, UpdateAllThreads(t) PROVE ApiInv'
<1> USE DEF UpdateAllThreads, AtApi, ApiGoto, Succeeds, statics, flags, memory, control
<1>1. api[t] = "update" /\ TypeInv /\ Owns(t) /\ ~success[t] /\ success[t] = FALSE
  BY Types, Preparing, Unchanged DEF ApiInv, CallsInv, CallInv
<1>2. pc \in [Threads -> Places] /\ pc[t] = "client"
  BY <1>1 DEF TypeInv, TypeOK, ApiInv, PlaceInv
<1>3. CASE UpdateThreadSuspends(t, t) /\ ApiGoto(t, "again") /\ UNCHANGED success
  <2>1. /\ suspended' = suspended \cup {t} /\ pc' = [pc EXCEPT ![t] = "push"] /\ hThread' = t
        /\ UNCHANGED <<statics, flags, memory, path, cursor, freed, ret>>
    BY <1>3 DEF UpdateThreadSuspends, Goto
  <2>2. TypeInv'
    BY <1>1, <2>1 DEF TypeInv, TypeOK, ControlOK, OwnerPlaces, Owns, Places
  <2>3. Moves(t, "again", FALSE)
    BY <1>1, <1>3, <2>1, Unchanged DEF Moves
  <2> QED
    BY <1>1, <1>2, <2>1, <2>2, <2>3, Prepares DEF Running
<1>4. CASE UpdateThreadFails(t) /\ ApiGoto(t, "commit") /\ Succeeds(t, FALSE)
  <2>1. TypeInv'
    BY <1>1, <1>4, ClientType DEF ClientNext
  <2>2. /\ UNCHANGED <<s_nPendingThreadId, s_pPendingOperations, flags, memory, suspended,
                       control>>
    BY <1>4 DEF UpdateThreadFails
  <2>3. Moves(t, "commit", FALSE)
    BY <1>4, <2>2 DEF Moves
  <2> QED
    BY <1>1, <1>2, <2>1, <2>2, <2>3, Prepares
<1>5. CASE ApiGoto(t, "again") /\ UNCHANGED <<vars, success>>
  <2>1. TypeInv'
    BY <1>1, <1>5 DEF vars, TypeInv, TypeOK, ControlOK, OwnerPlaces, Owns
  <2>2. Moves(t, "again", FALSE)
    BY <1>1, <1>5, Unchanged DEF Moves, vars
  <2> QED
    BY <1>1, <1>2, <1>5, <2>1, <2>2, Prepares DEF vars
<1> QED
  BY <1>3, <1>4, <1>5

-----------------------------------------------------------------------------
(* The change: at most one operation gets into the list.                   *)

LEMMA StagesStep ==
    ASSUME ApiInv, TypeInv', SlotInv', NEW t \in Threads, api[t] = "change",
           NEW o \in Operation, Staging(t), PushOperation(t, o), Moves(t, "commit", TRUE),
           UNCHANGED <<pc, cursor, suspended>>,
           o.ppbPointer = t, o.pbTarget = Target(t), o.fIsRemove <=> ~isHook[t],
           trampoline'[o.pTrampoline].pbTarget = Target(t)
    PROVE  ApiInv'
<1>1. /\ Owns(t) /\ Before(t) /\ ~Staged(t) /\ pc[t] = "client"
      /\ \A u \in Threads \ {t} : ~Owns(u) /\ ~Staged(u)
  BY Preparing
<1>2. s_pPendingOperations = <<>> /\ s_nPendingError = "NO_ERROR"
  BY <1>1 DEF Staged, Staging
<1>3. /\ s_pPendingOperations' = Listed(o)
      /\ UNCHANGED <<s_nPendingThreadId, s_nPendingError>>
  BY DEF PushOperation
<1>4. DOMAIN Listed(o) = 1 .. 1 /\ Listed(o)[1] = o
  BY <1>2, Types, ListedIndices
<1>5. Len(Listed(o)) = 1 /\ Listed(o) # <<>>
  BY <1>2, <1>4 DEF Listed
<1>6. /\ api'[t] = "commit" /\ success'[t] = TRUE /\ isHook'[t] = isHook[t]
      /\ Target(t)' = Target(t)
  BY DEF Moves, Target, ApiInv, ApiTypeInv, ApiTypeOK
<1>7. OwnOperationInv'
  BY <1>1, <1>2, <1>3, <1>4, <1>5, <1>6 DEF OwnOperationInv, Owns
<1>8. OthersRun(t)
  BY <1>1, <1>3 DEF OthersRun, Staged, Owns, Running, ApiInv, PlaceInv
<1>9. Arrives(t, "commit", TRUE)
  BY <1>1, <1>3, <1>5 DEF Arrives, Staged, Owns, PatchedFor
<1>10. ApiTypeInv'
  BY AdvancesType DEF ApiPlaces
<1> QED
  BY <1>7, <1>8, <1>9, <1>10, Advances DEF ApiPlaces

LEMMA AttachApiStep ==
    ASSUME ApiInv, NEW t \in Threads, AttachApi(t) PROVE ApiInv'
<1> DEFINE f == Target(t)
           d == request[t][2]
           r == request[t]
<1>1. /\ api[t] = "change" /\ isHook[t] /\ Attach(t, t, d)
      /\ api' = [api EXCEPT ![t] = "commit"]
      /\ UNCHANGED <<request, isHook, success, saved, hooked>>
  BY DEF AttachApi, AtApi, ApiGoto, AfterChange
<1>2. TypeInv /\ t \in Pointers /\ r \in Hooks /\ f \in Funcs /\ d \in Detours
  BY <1>1, Types, LocalsAssumption, OwnFunction, HookTypes
<1>3. TypeInv'
  BY <1>1, <1>2, AttachType
<1>4. /\ success[t] = TRUE /\ pc[t] = "client" /\ pointer[t] = f /\ code[f] = Original
  BY <1>1, Preparing DEF Before, ApiInv, CallsInv, CallInv, ApiTypeInv, ApiTypeOK
<1>5. UNCHANGED <<code, pointer>> => Moves(t, "commit", TRUE)
  BY <1>1, <1>4, Unchanged DEF Moves
<1>6. CASE AttachStages(t, t, d)
  <2>1. PICK s \in Trampolines :
           /\ ~InUse(s)
           /\ trampoline' = [trampoline EXCEPT ![s] =
                  [pbTarget |-> f, pbDetour |-> d, rbRestore |-> code[f]]]
           /\ PushOperation(t, [fIsRemove |-> FALSE, ppbPointer |-> t, pbTarget |-> f,
                                pTrampoline |-> s, dwPerm |-> protect[PageOf[f]]])
    BY <1>4, <1>6 DEF AttachStages, AllocTrampoline, CopiedBytes
  <2> DEFINE o == [fIsRemove |-> FALSE, ppbPointer |-> t, pbTarget |-> f,
                   pTrampoline |-> s, dwPerm |-> protect[PageOf[f]]]
  <2>2. Staging(t) /\ UNCHANGED <<code, pointer, pc, cursor, suspended>>
    BY <1>6 DEF AttachStages, control
  <2>3. o \in Operation
    BY <1>2, PageOfAssumption DEF Operation, TypeInv, TypeOK
  <2>4. /\ trampoline'[s].pbTarget = f /\ trampoline'[s].rbRestore = Original
        /\ \A q \in Trampolines \ {s} : trampoline'[q] = trampoline[q]
    BY <1>2, <1>4, <2>1 DEF TypeInv, TypeOK
  <2>5. \A g \in Funcs : code[g] # Original => code[g] \in Trampolines \ {s}
    BY <1>2, <2>1, NullAssumption DEF ApiInv, SlotInv, InUse, TypeInv, TypeOK
  <2>6. SlotInv'
    BY <2>2, <2>4, <2>5 DEF ApiInv, SlotInv
  <2>7. PushOperation(t, o) /\ Moves(t, "commit", TRUE)
    BY <1>5, <2>1, <2>2
  <2>8. /\ o.ppbPointer = t /\ o.pbTarget = f /\ o.fIsRemove = FALSE
        /\ trampoline'[o.pTrampoline].pbTarget = f
    BY <2>4
  <2> HIDE DEF o
  <2> QED
    BY <1>1, <1>3, <2>2, <2>3, <2>6, <2>7, <2>8, StagesStep
<1>7. CASE ~AttachStages(t, t, d)
  <2>1. /\ UNCHANGED <<s_nPendingThreadId, s_pPendingOperations, code, pointer, trampoline>>
        /\ UNCHANGED <<pc, suspended>>
    BY <1>1, <1>7 DEF Attach, StageRefused, StageNullPointer, AttachStub, AttachNoMemory,
       AttachTooSmall, AttachProtectFails, FailsOrStops, StageFails, StageStops, statics,
       memory, control
  <2> QED
    BY <1>1, <1>3, <1>4, <1>5, <2>1, Prepares
<1> QED
  BY <1>6, <1>7

LEMMA DetachFaultsStep ==
    ASSUME ApiInv, NEW t \in Threads, DetachFaults(t) PROVE ApiInv'
<1> USE DEF DetachFaults, AtApi, ApiGoto, vars, statics, flags, memory, control
<1>1. api[t] = "change" /\ pc[t] = "client"
  BY Preparing
<1>2. TypeInv'
  BY Types DEF TypeInv, TypeOK, ControlOK, OwnerPlaces, Owns
<1>3. Moves(t, "faulted", success[t]) /\ success[t] \in BOOLEAN
  BY Unchanged DEF Moves
<1>4. ApiTypeInv'
  BY <1>2, <1>3, AdvancesType DEF ApiPlaces
<1>5. SlotInv'
  BY SlotFrame DEF ApiInv
<1>6. ~Staged(t)
  BY <1>1, Preparing
<1>7. OthersRun(t)
  BY DEF OthersRun, Staged, Owns, Running, ApiInv, PlaceInv
<1>8. OwnOperationInv'
  BY <1>3, <1>6, <1>7, ListKept
<1>9. Arrives(t, "faulted", success[t])
  BY <1>1 DEF Arrives
<1> QED
  BY <1>1, <1>3, <1>4, <1>5, <1>7, <1>8, <1>9, Advances DEF ApiPlaces

LEMMA DetachApiStep ==
    ASSUME ApiInv, NEW t \in Threads, DetachApi(t) PROVE ApiInv'
<1> DEFINE f == Target(t)
           d == request[t][2]
           r == request[t]
           b == ret'[t] = "NO_ERROR"
<1>1. /\ api[t] = "change" /\ ~isHook[t] /\ Detach(t, t, d)
      /\ api' = [api EXCEPT ![t] = "commit"] /\ success' = [success EXCEPT ![t] = b]
      /\ UNCHANGED <<request, isHook, saved, hooked>>
  BY DEF DetachApi, AtApi, ApiGoto, AfterChange, Succeeds, DetachSucceeded
<1>2. TypeInv /\ t \in Pointers /\ r \in Hooks /\ f \in Funcs /\ d \in Detours
  BY <1>1, Types, LocalsAssumption, OwnFunction, HookTypes
<1>3. TypeInv'
  BY <1>1, <1>2, DetachType
<1>4. /\ pc[t] = "client" /\ pointer[t] = saved[r] /\ SavedOK(r)
  BY <1>1, Preparing DEF Before
<1>5. UNCHANGED <<code, pointer>> => Moves(t, "commit", b)
  BY <1>1 DEF Moves
<1>6. CASE DetachStages(t, t, d)
  <2> DEFINE s == pointer[t]
  <2>1. /\ Staging(t) /\ s \in Trampolines
        /\ PushOperation(t, [fIsRemove |-> TRUE, ppbPointer |-> t,
                             pbTarget |-> trampoline[s].pbTarget,
                             pTrampoline |-> s,
                             dwPerm |-> protect[PageOf[trampoline[s].pbTarget]]])
        /\ UNCHANGED <<code, trampoline, pointer, pc, cursor, suspended>>
    BY <1>6 DEF DetachStages, LooksInPlace, control
  <2>2. code[f] = s /\ trampoline[s].pbTarget = f
    BY <1>2, <1>4, <2>1, OriginalAssumption DEF SavedOK, Target, ApiInv, SlotInv
  <2> DEFINE o == [fIsRemove |-> TRUE, ppbPointer |-> t, pbTarget |-> f,
                   pTrampoline |-> s, dwPerm |-> protect[PageOf[f]]]
  <2>3. o \in Operation
    BY <1>2, <2>1, PageOfAssumption DEF Operation, TypeInv, TypeOK
  <2>4. SlotInv'
    BY <2>1, SlotFrame DEF ApiInv
  <2>5. b
    BY <1>2, <2>1 DEF PushOperation, Return, TypeInv, TypeOK
  <2>6. PushOperation(t, o) /\ Moves(t, "commit", TRUE)
    BY <1>5, <2>1, <2>2, <2>5
  <2>7. /\ o.ppbPointer = t /\ o.pbTarget = f /\ o.fIsRemove = TRUE
        /\ trampoline'[o.pTrampoline].pbTarget = f
    BY <2>1, <2>2
  <2> HIDE DEF o, s, b
  <2> QED
    BY <1>1, <1>3, <2>1, <2>3, <2>4, <2>6, <2>7, StagesStep
<1>7. CASE ~DetachStages(t, t, d)
  <2>1. /\ UNCHANGED <<s_nPendingThreadId, s_pPendingOperations, code, pointer, trampoline>>
        /\ UNCHANGED <<pc, suspended>>
    BY <1>1, <1>7 DEF Detach, StageRefused, StageNullPointer, DetachNoMemory,
       DetachNotInPlace, DetachProtectFails, FailsOrStops, StageFails, StageStops, statics,
       memory, control
  <2>2. b = FALSE
    <3>1. ret \in [Threads -> Results]
      BY <1>2 DEF TypeInv, TypeOK
    <3>2. Owns(t)
      BY <1>1, Preparing
    <3> QED
      BY <1>1, <1>7, <3>1, <3>2 DEF Detach, StageRefused, StageNullPointer, DetachNoMemory,
         DetachNotInPlace, DetachProtectFails, FailsOrStops, StageFails, StageStops, Return
  <2>3. Moves(t, "commit", FALSE)
    BY <1>5, <2>1, <2>2
  <2> QED
    BY <1>1, <1>3, <1>4, <2>1, <2>3, Prepares
<1> QED
  BY <1>6, <1>7

-----------------------------------------------------------------------------
(* The commit.                                                             *)

LEMMA CommitApiStep ==
    ASSUME ApiInv, NEW t \in Threads, CommitApi(t) PROVE ApiInv'
<1>1. /\ api[t] = "commit" /\ Commit(t) /\ api' = [api EXCEPT ![t] = "committing"]
      /\ UNCHANGED <<request, isHook, success, saved, hooked>>
  BY DEF CommitApi, AtApi, ApiGoto
<1>2. TypeInv /\ TypeInv'
  BY <1>1, Types, ClientType DEF ClientNext
<1>3. Owns(t) /\ pc[t] = "client" /\ success[t] \in BOOLEAN
  BY <1>1, Unchanged DEF ApiInv, PlaceInv, Commit, FinishRefused, CommitStarts,
     CommitRollsBack, Calls
<1>4. PICK place \in {"patch", "abort"} :
          /\ pc' = [pc EXCEPT ![t] = place]
          /\ place = "patch" => cursor' = 1
          /\ place = "abort" => s_nPendingError # "NO_ERROR"
          /\ UNCHANGED <<statics, flags, memory, suspended>>
  BY <1>1, <1>3 DEF Commit, FinishRefused, CommitStarts, CommitRollsBack, NoPendingError, Goto
<1>5. pc'[t] = place /\ \A u \in Threads \ {t} : pc'[u] = pc[u]
  BY <1>2, <1>4 DEF TypeInv, TypeOK
<1>6. /\ UNCHANGED <<code, pointer, trampoline, s_nPendingThreadId, s_pPendingOperations,
                     s_nPendingError>>
      /\ Staged(t)' <=> Staged(t)
  BY <1>4 DEF memory, statics, Staged, Owns
<1>7. Moves(t, "committing", success[t])
  BY <1>1, <1>6, Unchanged DEF Moves
<1>8. Staged(t) => place = "patch" /\ ~PatchedFor(t)' /\ ~PatchedFor(t)
  BY <1>3, <1>4, <1>5 DEF Staged, PatchedFor, ApiInv, OwnOperationInv
<1>9. IF Staged(t) THEN Before(t) ELSE Outcome(t)
  BY <1>1, <1>8 DEF ApiInv, CallsInv, CallInv
<1>10. OwnOperationInv'
  <2>1. CASE ~Staged(t)
    <3>1. s_pPendingOperations = <<>>
      BY <1>3, <2>1 DEF Staged
    <3> QED
      BY <1>6, <3>1 DEF OwnOperationInv
  <2>2. CASE Staged(t)
    <3>1. /\ api'[t] = "committing" /\ pc'[t] = "patch" /\ success'[t] = success[t]
          /\ isHook'[t] = isHook[t] /\ Target(t)' = Target(t)
      BY <1>1, <1>5, <1>8, <2>2 DEF Target, ApiInv, ApiTypeInv, ApiTypeOK
    <3> QED
      BY <1>3, <1>6, <2>2, <3>1 DEF ApiInv, OwnOperationInv, Staged, Owns
  <2> QED
    BY <2>1, <2>2
<1>11. OthersRun(t)
  BY <1>3, <1>4, <1>5, <1>6 DEF OthersRun, Staged, Owns, Running, ApiInv, PlaceInv
<1>12. Arrives(t, "committing", success[t])
  BY <1>5, <1>6, <1>8, <1>9 DEF Arrives, Outcome
<1>13. SlotInv'
  BY <1>6, SlotFrame DEF ApiInv
<1>14. ApiTypeInv'
  BY <1>2, <1>3, <1>7, AdvancesType DEF ApiPlaces
<1> QED
  BY <1>1, <1>3, <1>7, <1>10, <1>11, <1>12, <1>13, <1>14, Advances DEF ApiPlaces

\* A call that is in the engine, outside the loop that patches.
LEMMA Commits ==
    ASSUME ApiInv, TypeInv', SlotInv', OwnOperationInv', NEW t \in Threads,
           api[t] = "committing", NEW place \in {"committing", "store"},
           Moves(t, place, success[t]),
           \A u \in Threads \ {t} : pc'[u] = pc[u],
           suspended' = suspended \/ Owns(t),
           \/ Owns(t)
           \/ UNCHANGED <<s_nPendingThreadId, s_pPendingOperations, cursor>>,
           s_nPendingThreadId' \in {s_nPendingThreadId, NoThread},
           (pc'[t] \notin {"client", "push"}) <=> (place = "committing"),
           pc'[t] # "push",
           IF Staged(t)' THEN Staged(t) /\ (PatchedFor(t)' <=> PatchedFor(t))
           ELSE Staged(t) => success[t] /\ PatchedFor(t)
    PROVE  ApiInv'
<1>1. success[t] \in BOOLEAN
  BY Unchanged
<1>2. OthersRun(t)
  <2>1. CASE Owns(t)
    BY <2>1, NoThreadAssumption DEF OthersRun, Staged, Owns, ApiInv, PlaceInv
  <2>2. CASE ~Owns(t)
    BY <2>2 DEF OthersRun, Staged, Owns, Running, ApiInv, PlaceInv
  <2> QED
    BY <2>1, <2>2
<1>3. IF Staged(t) THEN IF PatchedFor(t) THEN After(t) ELSE Before(t) ELSE Outcome(t)
  BY DEF ApiInv, CallsInv, CallInv
<1>4. Arrives(t, place, success[t])
  BY <1>3 DEF Arrives, Outcome
<1>5. ApiTypeInv'
  BY <1>1, AdvancesType DEF ApiPlaces
<1> QED
  BY <1>1, <1>2, <1>4, <1>5, Advances DEF ApiPlaces

\* A step in the engine is one of a commit.
LEMMA InCommit ==
    ASSUME ApiInv, NEW t \in Threads, InsideCall(t)
    PROVE  /\ api[t] = "committing" /\ TypeInv /\ TypeInv' /\ ~PushThread(t)
           /\ pc \in [Threads -> Places]
           /\ api' = [api EXCEPT ![t] = IF pc'[t] = "client" THEN "store" ELSE "committing"]
           /\ UNCHANGED <<request, isHook, success, saved, hooked>>
<1>1. CallNext(t) /\ TypeInv /\ TypeInv'
  BY Types, CallType DEF InsideCall
<1>2. pc[t] # "client" /\ Running(t)
  BY <1>1 DEF CallNext, PushThread, PatchOperation, PatchingDone, RestoreOperation,
     AbortOperation, SettleRegions, ResumeThreads, Release, CommitReturns, At
<1>3. api[t] = "committing" /\ pc[t] # "push"
  BY <1>2 DEF ApiInv, PlaceInv
<1>4. ~PushThread(t)
  BY <1>3 DEF PushThread, At
<1> QED
  BY <1>1, <1>3, <1>4, Unchanged DEF InsideCall, ApiGoto, TypeInv, TypeOK

LEMMA PatchOperationStep ==
    ASSUME ApiInv, NEW t \in Threads, InsideCall(t), PatchOperation(t) PROVE ApiInv'
<1> DEFINE o == s_pPendingOperations[1]
           f == Target(t)
           r == request[t]
<1>1. /\ api[t] = "committing" /\ TypeInv /\ TypeInv' /\ pc[t] = "patch" /\ Owns(t)
      /\ cursor \in Nat /\ cursor > 0
  BY InCommit DEF PatchOperation, At, TypeInv, TypeOK, ControlOK, OwnerPlaces
<1>2. cursor <= Len(s_pPendingOperations) /\ s_pPendingOperations \in Seq(Operation)
  BY <1>1 DEF PatchOperation, TypeInv, TypeOK
<1>3. s_pPendingOperations # <<>> /\ Staged(t)
  BY <1>1, <1>2 DEF Staged
<1>4. /\ Len(s_pPendingOperations) = 1 /\ success[t]
      /\ o.ppbPointer = t /\ o.pbTarget = f /\ (o.fIsRemove <=> ~isHook[t])
      /\ trampoline[o.pTrampoline].pbTarget = f
  BY <1>1, <1>3 DEF ApiInv, OwnOperationInv, Owns
<1>5. cursor = 1 /\ o \in Operation
  <2>1. Len(s_pPendingOperations) = 1
    BY <1>4
  <2>2. cursor = 1
    BY <1>1, <1>2, <2>1
  <2>3. s_pPendingOperations[1] \in Operation
    BY <1>2, <2>1
  <2> QED
    BY <2>2, <2>3
<1>6. /\ code' = [code EXCEPT ![f] = PatchedCode(o)]
      /\ pointer' = [pointer EXCEPT ![t] = PatchedPointer(o)]
      /\ cursor' = 2
      /\ UNCHANGED <<statics, flags, regions, trampoline, protect, suspended, hThread, pc,
                     path, freed, ret>>
  <2>1. o = s_pPendingOperations[cursor]
    BY <1>5
  <2> HIDE DEF o, f
  <2>2. /\ code' = [code EXCEPT ![o.pbTarget] = PatchedCode(o)]
        /\ pointer' = [pointer EXCEPT ![o.ppbPointer] = PatchedPointer(o)]
        /\ cursor' = cursor + 1
    BY <2>1 DEF PatchOperation
  <2>3. o.pbTarget = f /\ o.ppbPointer = t
    BY <1>4
  <2>4. cursor' = 2
    BY <1>5, <2>2
  <2> QED
    BY <2>2, <2>3, <2>4 DEF PatchOperation
<1>7. /\ r \in Hooks /\ f \in Funcs /\ (\A u \in Threads \ {t} : request[u] # r)
      /\ \A h \in Hooks \ {r} : h[1] # f
  BY <1>1, OwnFunction
<1>8. api' = api /\ UNCHANGED <<request, isHook, success, saved, hooked>>
  BY <1>1, <1>6, InCommit, Unchanged
<1>9. ApiTypeInv'
  BY <1>1, <1>8 DEF ApiInv, ApiTypeInv, ApiTypeOK, TypeInv
<1>10. /\ code'[f] = (IF isHook[t] THEN o.pTrampoline ELSE Original)
       /\ isHook[t] => pointer'[t] = o.pTrampoline
       /\ \A g \in Funcs \ {f} : code'[g] = code[g]
       /\ o.pTrampoline \in Trampolines
  BY <1>1, <1>4, <1>5, <1>6, <1>7, LocalsAssumption
  DEF PatchedCode, PatchedPointer, ApiInv, SlotInv, TypeInv, TypeOK, Operation
<1>11. SlotInv'
  BY <1>4, <1>6, <1>10 DEF ApiInv, SlotInv
<1>12. OthersKept(t, r)
  BY <1>1, <1>6, <1>7, <1>8, <1>10, LocalsAssumption, HookTypes
  DEF OthersKept, Staged, Owns, statics, TypeInv, TypeOK
<1>13. PlaceInv'
  BY <1>6, <1>8 DEF ApiInv, PlaceInv, Owns, Running, statics
<1>14. OwnOperationInv'
  <2> DEFINE Of(u) == /\ Owns(u)
                      /\ api[u] \in {"commit", "committing"}
                      /\ pc[u] \in {"client", "patch", "restore"}
                      /\ success[u]
                      /\ o.ppbPointer = u
                      /\ o.pbTarget = Target(u)
                      /\ o.fIsRemove <=> ~isHook[u]
                      /\ trampoline[o.pTrampoline].pbTarget = Target(u)
  <2>1. Of(t)
    BY <1>1, <1>4
  <2>2. Of(t)'
    BY <2>1, <1>6, <1>8 DEF Owns, Target, statics
  <2>3. /\ s_pPendingOperations' = s_pPendingOperations
        /\ s_nPendingError' = s_nPendingError
    BY <1>6 DEF statics
  <2> QED
    BY <1>3, <2>2, <2>3 DEF OwnOperationInv, ApiInv
<1>15. Staged(t)' /\ PatchedFor(t)'
  BY <1>1, <1>3, <1>6 DEF Staged, PatchedFor, Owns, statics
<1>16. After(t)'
  BY <1>8, <1>10, OriginalAssumption DEF After, Target
<1>17. CallInv(t)'
  BY <1>1, <1>8, <1>15, <1>16 DEF CallInv, ApiInv, CallsInv
<1>18. IdleInv' /\ CallsInv'
  BY <1>1, <1>7, <1>8, <1>12, <1>17, OneCall
<1> QED
  BY <1>9, <1>11, <1>13, <1>14, <1>18 DEF ApiInv

\* A list of one operation.
LEMMA TheOneOperation ==
    ASSUME NEW list \in Seq(Operation), Len(list) = 1
    PROVE  list[1] \in Operation /\ Head(list) = list[1] /\ Tail(list) = <<>>
<1>1. DOMAIN list = 1 .. 1
  OBVIOUS
<1>2. list[1] \in Operation /\ list = <<list[1]>>
  BY <1>1
<1>3. PICK o \in Operation : list = <<o>>
  BY <1>2
<1>4. Head(<<o>>) = o /\ Tail(<<o>>) = <<>> /\ <<o>>[1] = o
  OBVIOUS
<1> QED
  BY <1>3, <1>4

LEMMA RestoreOperationStep ==
    ASSUME ApiInv, NEW t \in Threads, InsideCall(t), RestoreOperation(t) PROVE ApiInv'
<1> DEFINE o == s_pPendingOperations[1]
           f == Target(t)
<1>1. /\ api[t] = "committing" /\ TypeInv /\ TypeInv' /\ pc[t] = "restore" /\ Owns(t)
  BY InCommit DEF RestoreOperation, At, TypeInv, ControlOK, OwnerPlaces
<1>2. s_pPendingOperations # <<>> /\ Staged(t) /\ PatchedFor(t)
  BY <1>1 DEF RestoreOperation, RestorePage, Staged, PatchedFor
<1>3. /\ Len(s_pPendingOperations) = 1 /\ success[t] /\ (o.fIsRemove <=> ~isHook[t])
      /\ trampoline[o.pTrampoline].pbTarget = f
  BY <1>1, <1>2 DEF ApiInv, OwnOperationInv, Owns
<1>4. o = Head(s_pPendingOperations) /\ o \in Operation /\ Tail(s_pPendingOperations) = <<>>
  BY <1>1, <1>3, TheOneOperation DEF TypeInv, TypeOK
<1>5. /\ trampoline' = IF o.fIsRemove = TRUE
                       THEN [trampoline EXCEPT ![o.pTrampoline] = FreeBlock] ELSE trampoline
      /\ s_pPendingOperations' = <<>>
      /\ UNCHANGED <<s_nPendingThreadId, code, pointer, suspended, pc, cursor>>
  BY <1>4 DEF RestoreOperation, RestorePage, FreesSlot
<1>6. After(t)
  BY <1>1, <1>2 DEF ApiInv, CallsInv, CallInv
<1>7. SlotInv'
  <2>1. CASE ~o.fIsRemove
    BY <1>5, <2>1, SlotFrame DEF ApiInv
  <2>2. CASE o.fIsRemove
    <3>1. code[f] = Original /\ o.fIsRemove = TRUE
      BY <1>3, <1>4, <1>6, <2>2 DEF After, Operation
    <3>2. \A g \in Funcs : code[g] # Original => code[g] # o.pTrampoline
      BY <1>3, <3>1 DEF ApiInv, SlotInv
    <3>3. \A s \in Trampolines :
              trampoline'[s] = IF s = o.pTrampoline THEN FreeBlock ELSE trampoline[s]
      BY <1>1, <1>4, <1>5, <3>1 DEF TypeInv, TypeOK
    <3> QED
      BY <1>1, <1>5, <3>2, <3>3 DEF ApiInv, SlotInv, FreeBlock, TypeInv, TypeOK
  <2> QED
    BY <2>1, <2>2
<1>8. OwnOperationInv'
  BY <1>5 DEF OwnOperationInv
<1>9. Moves(t, "committing", success[t])
  BY <1>1, <1>5, InCommit, Unchanged DEF Moves
<1> QED
  BY <1>1, <1>2, <1>3, <1>5, <1>7, <1>8, <1>9, Commits DEF Staged

LEMMA PatchedStep ==
    ASSUME ApiInv, NEW t \in Threads, InsideCall(t), PatchingDone(t) PROVE ApiInv'
<1>1. /\ api[t] = "committing" /\ TypeInv /\ TypeInv' /\ pc[t] = "patch" /\ Owns(t)
      /\ pc \in [Threads -> Places]
  BY InCommit DEF PatchingDone, At, TypeInv, ControlOK, OwnerPlaces
<1>2. /\ pc' = [pc EXCEPT ![t] = "restore"]
      /\ UNCHANGED <<s_nPendingThreadId, s_pPendingOperations, s_nPendingError, trampoline,
                     code, pointer, suspended>>
  BY DEF PatchingDone, Goto, statics, memory
<1>3. Moves(t, "committing", success[t])
  BY <1>1, <1>2, InCommit, Unchanged DEF Moves
<1>4. PatchedFor(t)' /\ (Staged(t) => PatchedFor(t)) /\ (Staged(t)' <=> Staged(t))
  <2>1. Staged(t) => cursor # 1
    BY DEF Staged, ApiInv, OwnOperationInv, PatchingDone, PastEnd
  <2> QED
    BY <1>1, <1>2, <2>1 DEF PatchedFor, Staged, Owns
<1>5. OwnOperationInv'
  <2>1. api'[t] = "committing" /\ pc'[t] = "restore" /\ Target(t)' = Target(t)
    BY <1>1, <1>2, InCommit DEF Target, ApiInv, ApiTypeInv, ApiTypeOK
  <2>2. s_pPendingOperations # <<>> =>
            /\ Len(s_pPendingOperations) = 1 /\ s_nPendingError = "NO_ERROR" /\ success[t]
            /\ LET o == s_pPendingOperations[1] IN
               /\ o.ppbPointer = t /\ o.pbTarget = Target(t)
               /\ o.fIsRemove <=> ~isHook[t]
               /\ trampoline[o.pTrampoline].pbTarget = Target(t)
    BY <1>1 DEF ApiInv, OwnOperationInv, Owns
  <2>3. success'[t] = success[t] /\ isHook'[t] = isHook[t] /\ Owns(t)'
    BY <1>1, <1>2, InCommit DEF Owns
  <2> QED
    BY <1>2, <2>1, <2>2, <2>3 DEF OwnOperationInv
<1>6. SlotInv'
  BY <1>2, SlotFrame DEF ApiInv
<1> QED
  BY <1>1, <1>2, <1>3, <1>4, <1>5, <1>6, Commits

\* The rest of a commit begins when the list is empty.
LEMMA EmptyStep ==
    ASSUME ApiInv, NEW t \in Threads, InsideCall(t), s_pPendingOperations = <<>>,
           NEW place \in Places \ {"push"}, pc' = [pc EXCEPT ![t] = place],
           s_nPendingThreadId' \in {s_nPendingThreadId, NoThread}, Owns(t),
           UNCHANGED <<s_pPendingOperations, trampoline, code, pointer>>
    PROVE  ApiInv'
<1>1. api[t] = "committing" /\ TypeInv' /\ pc \in [Threads -> Places]
  BY InCommit
<1>2. Moves(t, IF place = "client" THEN "store" ELSE "committing", success[t])
  BY <1>1, InCommit, Unchanged DEF Moves
<1>3. OwnOperationInv' /\ ~Staged(t) /\ ~Staged(t)'
  BY DEF OwnOperationInv, Staged
<1>4. SlotInv'
  BY SlotFrame DEF ApiInv
<1> QED
  BY <1>1, <1>2, <1>3, <1>4, Commits

LEMMA InsideCallStep ==
    ASSUME ApiInv, NEW t \in Threads, InsideCall(t) PROVE ApiInv'
<1>1. /\ api[t] = "committing" /\ TypeInv /\ TypeInv' /\ ~PushThread(t)
      /\ pc \in [Threads -> Places]
  BY InCommit
<1>2. CASE SettleRegions(t)
  <2>1. Owns(t)
    BY <1>1, <1>2 DEF SettleRegions, At, TypeInv, ControlOK, OwnerPlaces
  <2> QED
    BY <1>2, <2>1, EmptyStep DEF SettleRegions, Goto, statics, Places
<1>3. CASE AbortOperation(t)
  <2>1. Owns(t) /\ pc[t] = "abort" /\ s_pPendingOperations # <<>>
    BY <1>1, <1>3 DEF AbortOperation, RestorePage, At, TypeInv, ControlOK, OwnerPlaces
  <2> QED
    BY <2>1, NoneStaged
<1>4. CASE ResumeThreads(t)
  <2>1. Owns(t) /\ pc[t] = "resume"
    BY <1>1, <1>4 DEF ResumeThreads, At, TypeInv, ControlOK, OwnerPlaces
  <2>2. s_pPendingOperations = <<>>
    BY <2>1, NoneStaged
  <2> QED
    BY <1>4, <2>1, <2>2, EmptyStep DEF ResumeThreads, Goto, memory, Places
<1>5. CASE Release(t)
  <2>1. Owns(t) /\ pc[t] = "release"
    BY <1>1, <1>5 DEF Release, At, TypeInv, ControlOK, OwnerPlaces
  <2>2. s_pPendingOperations = <<>>
    BY <2>1, NoneStaged
  <2>3. PICK place \in {"client", "returnCommitted", "returnRolledBack"} :
            pc' = [pc EXCEPT ![t] = place]
    BY <1>5 DEF Release, Goto
  <2> QED
    BY <1>5, <2>1, <2>2, <2>3, EmptyStep DEF Release, memory, Places
<1>6. CASE CommitReturns(t)
  <2>1. /\ pc[t] \in {"returnCommitted", "returnRolledBack"}
        /\ pc' = [pc EXCEPT ![t] = "client"]
        /\ UNCHANGED <<statics, memory, suspended, cursor>>
    BY <1>6 DEF CommitReturns, At, Goto
  <2>2. ~Staged(t) /\ ~Staged(t)'
    BY <2>1, NoneStaged DEF Staged, Owns, statics
  <2>3. Moves(t, "store", success[t])
    BY <1>1, <2>1, InCommit, Unchanged DEF Moves, memory
  <2>4. \A u \in Threads \ {t} :
            /\ pc'[u] = pc[u] /\ api'[u] = api[u] /\ request'[u] = request[u]
            /\ isHook'[u] = isHook[u] /\ success'[u] = success[u]
    BY <1>1, <2>1, InCommit DEF ApiInv, ApiTypeInv, ApiTypeOK
  <2>5. OwnOperationInv'
    BY <2>1, <2>2, <2>4, OperationFrame DEF statics, memory
  <2>6. SlotInv'
    BY <2>1, SlotFrame DEF ApiInv, memory
  <2> QED
    BY <1>1, <2>1, <2>2, <2>3, <2>4, <2>5, <2>6, Commits DEF statics
<1> QED
  BY <1>1, <1>2, <1>3, <1>4, <1>5, <1>6, PatchOperationStep, PatchedStep,
     RestoreOperationStep DEF InsideCall, CallNext

-----------------------------------------------------------------------------
(* The end of a call, and the invariant.                                   *)

LEMMA ReturnApiStep ==
    ASSUME ApiInv, NEW t \in Threads, ReturnApi(t) PROVE ApiInv'
<1> USE DEF ReturnApi, AtApi, ApiGoto, statics, flags, control
<1>a. PICK r \in Hooks : r = request[t]
  BY OwnFunction
<1>1. /\ api[t] = "store" /\ Target(t) \in Funcs
      /\ \A u \in Threads \ {t} : request[u] # r
  BY <1>a, OwnFunction
<1>2. /\ api' = [api EXCEPT ![t] = "idle"] /\ request' = [request EXCEPT ![t] = NoHook]
      /\ pointer' = [pointer EXCEPT ![t] = Null]
      /\ saved' = (IF isHook[t] THEN [saved EXCEPT ![r] = AsDword(pointer[t])] ELSE saved)
      /\ hooked' = (IF success[t] THEN [hooked EXCEPT ![r] = isHook[t]] ELSE hooked)
  BY <1>a DEF StoredPointer
<1>3. /\ api \in [Threads -> ApiPlaces] /\ request \in [Threads -> Hooks \cup {NoHook}]
      /\ pointer \in [Threads -> Addresses]
      /\ saved \in [Hooks -> Addresses]
      /\ hooked \in [Hooks -> BOOLEAN] /\ isHook \in [Threads -> BOOLEAN]
  BY LocalsAssumption DEF ApiInv, ApiTypeInv, ApiTypeOK, TypeOK
<1>4. ApiTypeInv'
  <2>1. /\ pointer' \in [Pointers -> Addresses]
        /\ api' \in [Threads -> ApiPlaces] /\ request' \in [Threads -> Hooks \cup {NoHook}]
        /\ saved' \in [Hooks -> Addresses]
    BY <1>1, <1>2, <1>3, LocalsAssumption, LowAssumption DEF ApiPlaces, Addresses, AsDword
  <2>2. hooked' \in [Hooks -> BOOLEAN]
    BY <1>2, <1>3
  <2> QED
    BY <2>1, <2>2 DEF ApiInv, ApiTypeInv, ApiTypeOK, TypeOK, ControlOK, Owns
<1>5. /\ \A u \in Threads \ {t} : /\ api'[u] = api[u] /\ request'[u] = request[u]
                                  /\ pointer'[u] = pointer[u]
      /\ \A h \in Hooks \ {r} : saved'[h] = saved[h] /\ hooked'[h] = hooked[h]
      /\ api'[t] = "idle" /\ request'[t] = NoHook
      /\ saved'[r] = (IF isHook[t] THEN AsDword(pointer[t]) ELSE saved[r])
      /\ hooked'[r] = (IF success[t] THEN isHook[t] ELSE hooked[r])
  BY <1>1, <1>2, <1>3
<1>6. ~Staged(t) /\ pc[t] = "client"
  <2>1. s_pPendingOperations = <<>> \/ ~Owns(t)
    BY <1>1, NoneStaged
  <2>2. pc[t] = "client"
    BY <1>1 DEF ApiInv, PlaceInv
  <2> QED
    BY <2>1, <2>2 DEF Staged
<1>7. OthersKept(t, r)
  BY <1>a, <1>1, <1>5 DEF OthersKept, Staged, Owns, PatchedFor
<1>8. SlotInv'
  BY SlotFrame DEF ApiInv
<1>9. OwnOperationInv'
  BY <1>5, <1>6, OperationFrame
<1>10. PlaceInv'
  BY <1>a, <1>1, <1>5, <1>6, <1>7, PlaceStep DEF Owns, Running, ApiInv, PlaceInv
<1>11. Settled(r)'
  <2>1. Outcome(t) /\ (hooked[r] <=> ~isHook[t])
    BY <1>a, <1>1, <1>6 DEF ApiInv, CallsInv, CallInv
  <2>2. code' = code
    OBVIOUS
  <2> HIDE DEF ReturnApi, AtApi, ApiGoto, statics, flags, control
  <2>3. Target(t) = r[1]
    BY <1>a DEF Target
  <2>4. CASE isHook[t] /\ Before(t)
    BY <1>1, <1>5, <2>1, <2>2, <2>3, <2>4, DisjointAssumption, UnmappedAssumption
    DEF Before, Settled, SavedOK, AsDword
  <2>5. CASE isHook[t] /\ After(t) /\ success[t]
    <3>1. saved'[r] = AsDword(code[r[1]]) /\ hooked'[r] = isHook[t]
      BY <1>5, <2>3, <2>5 DEF After
    <3> QED
      BY <2>2, <2>5, <3>1, UnmappedAssumption DEF Settled, SavedOK, AsDword
  <2>6. CASE ~isHook[t] /\ Before(t) /\ ~success[t]
    <3>1. SavedOK(r)
      BY <1>a, <2>6 DEF Before
    <3> QED
      BY <1>5, <2>1, <2>2, <2>6, <3>1 DEF Settled, SavedOK
  <2>7. CASE ~isHook[t] /\ After(t) /\ success[t]
    BY <1>5, <2>2, <2>3, <2>7 DEF After, Settled
  <2> QED
    BY <2>1, <2>4, <2>5, <2>6, <2>7 DEF Outcome
<1>12. IdleInv' /\ CallsInv'
  BY <1>a, <1>1, <1>5, <1>7, <1>11, OneCall
<1> QED
  BY <1>4, <1>8, <1>9, <1>10, <1>12 DEF ApiInv

LEMMA InitApi == ApiInit => ApiInv
<1> SUFFICES ASSUME ApiInit PROVE ApiInv
    OBVIOUS
<1> USE DEF ApiInit
<1>1. TypeInv
  BY InitType
<1>2. ApiTypeInv
  BY <1>1 DEF ApiTypeInv, ApiTypeOK, ApiPlaces, Addresses, TypeInv
<1>3. SlotInv
  BY DEF SlotInv, Init, FreeBlock
<1>4. PlaceInv
  BY DEF PlaceInv, Init
<1>5. OwnOperationInv
  BY DEF OwnOperationInv, Init
<1>6. IdleInv
  BY HookTypes DEF IdleInv, Settled, Init
<1>7. CallsInv
  BY DEF CallsInv
<1> QED
  BY <1>2, <1>3, <1>4, <1>5, <1>6, <1>7 DEF ApiInv

LEMMA ApiInvStep == ApiInv /\ [ApiNext]_allVars => ApiInv'
<1> SUFFICES ASSUME ApiInv, [ApiNext]_allVars PROVE ApiInv'
    OBVIOUS
<1>1. ASSUME NEW t \in Threads, NEW h \in Hooks, NEW hook \in BOOLEAN, CallApi(t, h, hook)
      PROVE  ApiInv'
  BY <1>1, CallApiStep
<1>2. ASSUME NEW t \in Threads, ApiStep(t) PROVE ApiInv'
  BY <1>2, BeginApiStep, UpdateSelfStep, SnapshotFailsStep, UpdateAllThreadsStep,
     NothingNewStep, AttachApiStep, DetachFaultsStep, DetachApiStep, CommitApiStep,
     InsideCallStep, ReturnApiStep DEF ApiStep
<1>3. CASE UNCHANGED allVars
  <2> USE <1>3 DEF allVars, vars, apiVars, statics, flags, memory, control
  <2>1. ApiTypeInv'
    BY DEF ApiInv, ApiTypeInv, ApiTypeOK, TypeOK, ControlOK, OwnerPlaces, Owns
  <2>2. SlotInv' /\ PlaceInv'
    BY DEF ApiInv, SlotInv, PlaceInv, Owns, Running
  <2>3. OwnOperationInv'
    BY DEF ApiInv, OwnOperationInv, Owns, Target
  <2>4. IdleInv' /\ CallsInv'
    BY DEF ApiInv, IdleInv, CallsInv, CallInv, Free, Settled, SavedOK, Outcome, Before, After,
       Staged, PatchedFor, Owns, Target
  <2> QED
    BY <2>1, <2>2, <2>3, <2>4 DEF ApiInv
<1> QED
  BY <1>1, <1>2, <1>3 DEF ApiNext, Ended

LEMMA ApiInvariant == ApiSpec => []ApiInv
BY InitApi, ApiInvStep, PTL DEF ApiSpec

\* A client that was told it has no hook may unload its detour: no call goes
\* there, whatever failed in HookFuncByName and UnHookFunc on any thread.
THEOREM ToldWhatIs == ApiSpec => []NotInEffectUnlessTold
<1>1. ApiInv => NotInEffectUnlessTold
  BY OriginalAssumption
  DEF ApiInv, IdleInv, Settled, NotInEffectUnlessTold, InEffect
<1> QED
  BY <1>1, ApiInvariant, PTL

\* A hook that is in effect between two calls about it, and whose trampoline
\* lies below 4 GB, has that trampoline in the client's variable, so that
\* UnHookFunc can remove it.  Nothing is said of a trampoline above 4 GB, of
\* whose address HookFuncByName stores half.
THEOREM EffectsCanBeRemoved == ApiSpec => []InEffectIsRemovable
<1>1. ApiInv => InEffectIsRemovable
  BY OriginalAssumption
  DEF ApiInv, IdleInv, Settled, SavedOK, InEffectIsRemovable, InEffect, AsDword
<1> QED
  BY <1>1, ApiInvariant, PTL
=============================================================================
