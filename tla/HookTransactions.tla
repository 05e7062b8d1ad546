--------------------------- MODULE HookTransactions ---------------------------
(***************************************************************************)
(* What the transaction engine promises.  Each function has a stack of the *)
(* detours hooked into it, the latest first.  One thread at a time stages  *)
(* changes to the stacks; they all take effect in one step or none does,   *)
(* and after a failure none can.                                           *)
(***************************************************************************)
EXTENDS Sequences

CONSTANTS Threads, Funcs, Detours, NoThread, Nothing, Removal

VARIABLES
    owner,   \* the thread whose transaction is open
    hooks,   \* the detours in effect, for each function
    staged,  \* the change to make to each function: a detour, or Removal
    failed   \* the transaction can only be given up

vars == <<owner, hooks, staged, failed>>

Unstaged == [f \in Funcs |-> Nothing]

Init ==
    /\ owner = NoThread
    /\ hooks = [f \in Funcs |-> <<>>]
    /\ staged = Unstaged
    /\ failed = FALSE

Open(t) ==
    /\ owner = NoThread
    /\ owner' = t
    /\ failed' \in BOOLEAN
    /\ UNCHANGED <<hooks, staged>>

StageAttach(f, d) ==
    /\ ~failed
    /\ staged[f] = Nothing
    /\ staged' = [staged EXCEPT ![f] = d]
    /\ UNCHANGED <<owner, hooks, failed>>

StageDetach(f) ==
    /\ ~failed
    /\ staged[f] = Nothing
    /\ hooks[f] # <<>>
    /\ staged' = [staged EXCEPT ![f] = Removal]
    /\ UNCHANGED <<owner, hooks, failed>>

Fail ==
    /\ owner # NoThread
    /\ failed' = TRUE
    /\ UNCHANGED <<owner, hooks, staged>>

Changed(f) ==
    CASE staged[f] = Nothing -> hooks[f]
      [] staged[f] = Removal -> Tail(hooks[f])
      [] OTHER               -> <<staged[f]>> \o hooks[f]

CommitAll ==
    /\ ~failed
    /\ hooks' = [f \in Funcs |-> Changed(f)]
    /\ staged' = Unstaged
    /\ UNCHANGED <<owner, failed>>

GiveUp ==
    /\ staged' = Unstaged
    /\ UNCHANGED <<owner, hooks, failed>>

Close ==
    /\ staged = Unstaged
    /\ owner' = NoThread
    /\ failed' = FALSE
    /\ UNCHANGED <<hooks, staged>>

Next ==
    \/ \E t \in Threads : Open(t)
    \/ /\ owner # NoThread
       /\ \/ \E f \in Funcs, d \in Detours : StageAttach(f, d)
          \/ \E f \in Funcs : StageDetach(f)
          \/ Fail
          \/ CommitAll
          \/ GiveUp
          \/ Close

Spec == Init /\ [][Next]_vars
=============================================================================
