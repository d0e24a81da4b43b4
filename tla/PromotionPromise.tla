-------------------------- MODULE PromotionPromise --------------------------
(* What the promotion of a shell into a managed provider promises, without  *)
(* markers, leases, panes or files: the abstract specification that          *)
(* Onboarding implements.                                                    *)
(*                                                                           *)
(* A reservation is cancelled without a trace or becomes owned.  An owned    *)
(* promotion creates at most one provider session and runs at most one       *)
(* provider process, the session first.  It is managed only if its process   *)
(* ran, and given up only if none did.                                       *)
EXTENDS Naturals

CONSTANT Operations

VARIABLES
  status,    \* of each operation
  effects    \* native sessions and provider processes created for it

vars == <<status, effects>>

Init ==
  /\ status = [o \in Operations |-> "free"]
  /\ effects = [o \in Operations |-> [sessions |-> 0, processes |-> 0]]

Becomes(o, before, after) ==
  /\ status[o] = before
  /\ status' = [status EXCEPT ![o] = after]
  /\ UNCHANGED effects

\* One reservation at a time.
Reserve(o) ==
  /\ \A other \in Operations : status[other] # "reserved"
  /\ Becomes(o, "free", "reserved")

Cancel(o) == Becomes(o, "reserved", "cancelled")

TakeOwnership(o) == Becomes(o, "reserved", "owned")

CreateSession(o) ==
  /\ status[o] = "owned"
  /\ effects[o].sessions = 0 /\ effects[o].processes = 0
  /\ effects' = [effects EXCEPT ![o].sessions = 1]
  /\ UNCHANGED status

RunProvider(o) ==
  /\ status[o] = "owned"
  /\ effects[o].processes = 0
  /\ effects' = [effects EXCEPT ![o].processes = 1]
  /\ UNCHANGED status

BecomeManaged(o) ==
  /\ effects[o].processes = 1
  /\ Becomes(o, "owned", "managed")

GiveUp(o) ==
  /\ effects[o].processes = 0
  /\ Becomes(o, "owned", "failed")

Resolve(o) == Becomes(o, "failed", "resolved")

Next ==
  \E o \in Operations :
    \/ Reserve(o) \/ Cancel(o) \/ TakeOwnership(o)
    \/ CreateSession(o) \/ RunProvider(o)
    \/ BecomeManaged(o) \/ GiveUp(o) \/ Resolve(o)

Spec == Init /\ [][Next]_vars
=============================================================================
