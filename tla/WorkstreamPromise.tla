-------------------------- MODULE WorkstreamPromise --------------------------
(***************************************************************************)
(* What the Runtime actions promise the user of one Workstream, with no    *)
(* tmux, no files, no revisions and no reads that can be stale: at most    *)
(* one provider runs; parking, archiving and forgetting happen only when   *)
(* none does; a parked Workstream is reopened before it runs again.        *)
(***************************************************************************)
CONSTANT Providers   \* every provider that may ever be launched

VARIABLES
  life,      \* "open", "parked", "recovery_required" or "gone"
  archived,  \* hidden from the active catalog
  running    \* the providers that run, named by their generation

promiseVars == <<life, archived, running>>

PromiseInit == life = "open" /\ archived = FALSE /\ running = {}

Launch == /\ running = {}
          /\ life \in {"open", "recovery_required"}
          /\ \E g \in Providers : running' = {g}
          /\ UNCHANGED <<life, archived>>

\* A provider ends: it exits, is stopped, or dies with its server.
End == running' = {} /\ UNCHANGED <<life, archived>>

Reopen == /\ life = "parked" /\ running = {}
          /\ life' = "open"
          /\ UNCHANGED <<archived, running>>

Park == /\ life # "gone" /\ running = {}
        /\ life' = "parked"
        /\ UNCHANGED <<archived, running>>

\* Lost evidence: whether the provider still runs is exactly what is unknown.
Lose == /\ life = "open"
        /\ life' = "recovery_required"
        /\ UNCHANGED <<archived, running>>

Recovered == /\ life = "recovery_required"
             /\ life' = "open"
             /\ UNCHANGED <<archived, running>>

Archive == /\ life # "gone" /\ ~archived /\ running = {}
           /\ archived' = TRUE
           /\ UNCHANGED <<life, running>>

\* Restoring makes a parked Workstream an open one and starts nothing.
Restore == /\ life # "gone" /\ archived
           /\ archived' = FALSE
           /\ life' = IF life = "parked" THEN "open" ELSE life
           /\ UNCHANGED running

Forget == /\ life # "gone" /\ archived /\ running = {}
          /\ life' = "gone"
          /\ UNCHANGED <<archived, running>>

PromiseNext == Launch \/ End \/ Reopen \/ Park \/ Lose \/ Recovered
               \/ Archive \/ Restore \/ Forget

PromiseSpec == PromiseInit /\ [][PromiseNext]_promiseVars
=============================================================================
