--------------------------- MODULE DetourRefinement ---------------------------
(***************************************************************************)
(* The transaction engine implements HookTransactions.  A commit takes     *)
(* effect when it patches its first operation: from there on nothing can   *)
(* stop it, and the operations still to patch count as done.  Staged       *)
(* changes are given up as a whole when the abort loop begins.             *)
(***************************************************************************)
EXTENDS DetourTransaction

\* The two words the mapping puts in place of a detour are not detours.
ASSUME NamesAssumption == {"Nothing", "Removal"} \cap (Detours \cup {Null}) = {}

\* The trampolines a call of f goes through, and the detours they lead to.
Depth(f) == CHOOSE n \in 0 .. Cardinality(Trampolines) :
                /\ CallChain(f)[n] = Original
                /\ \A m \in 0 .. n - 1 : CallChain(f)[m] # Original
HookedIn(f) == [n \in 1 .. Depth(f) |->
                   trampoline[CallChain(f)[n - 1]].pbDetour]

CommitPoint == /\ path = "commit"
               /\ \/ cursor > 1
                  \/ \E t \in Threads : pc[t] # "patch" /\ Owns(t)

\* The operations of f that a commit past its first patch has yet to make.
Unpatched(f) == {i \in Pending(f) : CommitPoint /\ i >= cursor /\ cursor > 0}

Change(i) == LET o == s_pPendingOperations[i] IN
             IF o.fIsRemove THEN "Removal" ELSE trampoline[o.pTrampoline].pbDetour

HooksBar == [f \in Funcs |->
    IF Unpatched(f) = {} THEN HookedIn(f)
    ELSE LET c == Change(CHOOSE i \in Unpatched(f) : TRUE) IN
         IF c = "Removal" THEN Tail(HookedIn(f)) ELSE <<c>> \o HookedIn(f)]

StagedBar == [f \in Funcs |->
    IF Pending(f) = {} \/ CommitPoint \/ path \in {"abort", "rollback"}
    THEN "Nothing"
    ELSE Change(CHOOSE i \in Pending(f) : TRUE)]

FailedBar == s_nPendingThreadId # NoThread /\ s_nPendingError # "NO_ERROR"

Promise == INSTANCE HookTransactions WITH
               owner <- s_nPendingThreadId, hooks <- HooksBar,
               staged <- StagedBar, failed <- FailedBar,
               Nothing <- "Nothing", Removal <- "Removal"

\* All or nothing: the hooks change in one step, by everything that was staged,
\* and only in a transaction in which no call failed; one thread at a time.
AllOrNothing == Promise!Spec
=============================================================================
