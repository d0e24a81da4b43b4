-------------------------- MODULE SessionCreation --------------------------
(***************************************************************************)
(* Blank OpenCode sessions: the creation journal (state/compound.rs), the  *)
(* short-lived `opencode serve` and its guardian (provider/opencode.rs,    *)
(* provider/opencode/guardian.rs), and the start action that drives them   *)
(* (actions/start.rs, actions/attachment.rs, actions/cleanup.rs).          *)
(*                                                                         *)
(* POST /session cannot be repeated: the session it makes stays in the     *)
(* provider's history.  A start journals the operation, lets a guardian    *)
(* process run the server, journals that the POST may happen, posts, stops *)
(* the server and binds the session it got.  The start may die at any      *)
(* step, the guardian and the server too, and another start of the same    *)
(* Workstream may run at the same time.                                    *)
(*                                                                         *)
(* One OpenCode Workstream with its Runtime row.  A row is never written   *)
(* back to contents it had before within a generation, so a stale revision *)
(* is a changed row.  What a live Runtime does, and how it is launched and *)
(* stopped in detail, is in SessionObserver and RuntimeControl.            *)
(***************************************************************************)
EXTENDS Naturals, FiniteSets

CONSTANTS
  Creators,        \* processes that run start and recover actions
  LastGeneration,  \* bound: Runtime generations reserved
  Kills            \* TRUE if processes may be killed

ASSUME LastGenerationAssumption == LastGeneration \in Nat \ {0}
ASSUME KillsAssumption == Kills \in BOOLEAN

Generations == 1..LastGeneration

VARIABLES
  runtimeRow,  \* the Runtime row: generation, lifecycle, provider identity recorded
  lifecycle,   \* of the Workstream
  binding,     \* the binding row: whose session, bound for which generation
  creation,    \* the creation operation of each generation
  guardian,    \* the guardian process of each generation
  helper,      \* its barrier process, which becomes the server in place
  lease,       \* generations whose owner holds the guardian's input open
  posted,      \* history: POSTs that reached the provider
  pane,        \* the generation whose provider runs in the private pane
  creator      \* each process: its step, and what it read or holds

rows == <<runtimeRow, lifecycle, binding, creation>>
serving == <<guardian, helper, lease>>
sessionVars == <<runtimeRow, lifecycle, binding, creation, guardian, helper, lease,
                 posted, pane, creator>>

NoRow == [gen |-> 0, status |-> "none", provider |-> FALSE]
Unbound == [session |-> 0, gen |-> 0]
Unresolved == {"prepared", "external_effect_started"}
GuardianExits == {"exited", "failed", "killed"}

SessionInit ==
  /\ runtimeRow = NoRow
  /\ lifecycle = "open"
  /\ binding = Unbound
  /\ creation = [g \in Generations |-> "none"]
  /\ guardian = [g \in Generations |-> "none"]
  /\ helper = [g \in Generations |-> "none"]
  /\ lease = {}
  /\ posted = [g \in Generations |-> 0]
  /\ pane = 0
  /\ creator = [c \in Creators |-> [at |-> "idle", row |-> NoRow, session |-> 0, ok |-> FALSE]]

-----------------------------------------------------------------------------
(* A process and the rows it writes.                                       *)

Doing(c, step) == creator[c].at = step
Then(c, step) == creator' = [creator EXCEPT ![c].at = step]
GenOf(c) == creator[c].row.gen

(* A step of a process that only reads.                                    *)
Nothing == UNCHANGED <<rows, serving, posted, pane>>

(* The compare-and-swap on the revision the process read.                  *)
Unchanged(c) == runtimeRow = creator[c].row

(* validate_opencode_session_creation_runtime.                             *)
StillStarting(c) == runtimeRow.gen = GenOf(c) /\ runtimeRow.status = "starting"

(* mark_runtime_recovery_required, and the same two updates of             *)
(* mark_opencode_session_creation_recovery.                                *)
RequireRecovery ==
  /\ runtimeRow' = [runtimeRow EXCEPT !.status = "unknown"]
  /\ lifecycle' = "recovery_required"

\* Mutant: the Runtime gets the lifecycle of a parked Workstream.
MarkParked == runtimeRow' = [runtimeRow EXCEPT !.status = "parked"]

MarkStopped == runtimeRow' = [runtimeRow EXCEPT !.status = "stopped"]

-----------------------------------------------------------------------------
(* start_opencode and inspect_opencode_prior_runtime.                      *)

(* The overview is open; the Runtime row is read after it.                 *)
ReadOverview(c) ==
  /\ Doing(c, "idle")
  /\ lifecycle = "open"
  /\ Then(c, "inspect")
  /\ Nothing

InspectPrior(c) ==
  /\ Doing(c, "inspect")
  /\ creator' = [creator EXCEPT ![c].row = runtimeRow,
                                ![c].at = IF runtimeRow = NoRow THEN "reserve" ELSE "probe",
                                ![c].session = 0]
  /\ Nothing

(* A pane that runs is the live Runtime or ambiguous: nothing to start.    *)
ProbeLive(c) ==
  /\ Doing(c, "probe")
  /\ pane # 0
  /\ Then(c, "idle")
  /\ Nothing

ProbeMissing(c) ==
  /\ Doing(c, "probe")
  /\ pane = 0
  /\ Then(c, "missing")
  /\ Nothing

\* Mutant: only a recorded provider makes a missing Runtime a lost one.
LostProvider(c) == creator[c].row.provider /\ creator[c].row.status # "stopped"

(* An unresolved creation, or a provider that was lost, needs recovery.    *)
Lost(c) ==
  \/ creation[GenOf(c)] \in Unresolved
  \/ creator[c].row.provider /\ creator[c].row.status # "stopped"

MissingIsLost(c) ==
  /\ Doing(c, "missing")
  /\ Lost(c)
  /\ Then(c, "idle")
  /\ IF Unchanged(c) THEN RequireRecovery ELSE UNCHANGED <<runtimeRow, lifecycle>>
  /\ UNCHANGED <<binding, creation, serving, posted, pane>>

MissingIsClean(c) ==
  /\ Doing(c, "missing")
  /\ ~ Lost(c)
  /\ creator[c].row.status = "stopped"
  /\ Then(c, "read_binding")
  /\ Nothing

MissingIsStopped(c) ==
  /\ Doing(c, "missing")
  /\ ~ Lost(c)
  /\ creator[c].row.status # "stopped"
  /\ IF Unchanged(c) THEN MarkStopped /\ Then(c, "read_binding")
                     ELSE Then(c, "idle") /\ UNCHANGED runtimeRow
  /\ UNCHANGED <<lifecycle, binding, creation, serving, posted, pane>>

ReadBinding(c) ==
  /\ Doing(c, "read_binding")
  /\ creator' = [creator EXCEPT ![c].session = binding.session, ![c].at = "reserve"]
  /\ Nothing

-----------------------------------------------------------------------------
(* prepare_opencode_runtime.                                               *)

NextGeneration == [gen |-> runtimeRow.gen + 1, status |-> "starting", provider |-> FALSE]

Reserve(c) ==
  /\ Doing(c, "reserve")
  /\ lifecycle = "open"
  /\ runtimeRow.status \in {"none", "stopped", "unknown"}
  /\ runtimeRow.gen < LastGeneration
  /\ runtimeRow' = NextGeneration
  /\ creator' = [creator EXCEPT ![c].row = NextGeneration,
                   ![c].at = IF creator[c].session = 0 THEN "prepare" ELSE "rebind"]
  /\ UNCHANGED <<lifecycle, binding, creation, serving, posted, pane>>

ReserveRefused(c) ==
  /\ Doing(c, "reserve")
  /\ lifecycle # "open" \/ runtimeRow.status \notin {"none", "stopped", "unknown"}
  /\ Then(c, "idle")
  /\ Nothing

(* bind_opencode_session "resume": the session of an earlier generation.   *)
Rebind(c) ==
  /\ Doing(c, "rebind")
  /\ IF StillStarting(c) /\ binding.session = creator[c].session
       THEN Then(c, "launch") /\ binding' = [binding EXCEPT !.gen = GenOf(c)]
       ELSE Then(c, "unlaunched") /\ UNCHANGED binding
  /\ UNCHANGED <<runtimeRow, lifecycle, creation, serving, posted, pane>>

(* fail_unlaunched_runtime.                                                *)
FailUnlaunched(c) ==
  /\ Doing(c, "unlaunched")
  /\ IF Unchanged(c) THEN MarkStopped ELSE UNCHANGED runtimeRow
  /\ Then(c, "idle")
  /\ UNCHANGED <<lifecycle, binding, creation, serving, posted, pane>>

(* prepare_opencode_session_creation.                                      *)
Prepare(c) ==
  /\ Doing(c, "prepare")
  /\ IF StillStarting(c)
       THEN Then(c, "spawn") /\ creation' = [creation EXCEPT ![GenOf(c)] = "prepared"]
       ELSE Then(c, "unlaunched") /\ UNCHANGED creation
  /\ UNCHANGED <<runtimeRow, lifecycle, binding, serving, posted, pane>>

-----------------------------------------------------------------------------
(* create_blank_session_with_lease and wait_for_blank_session: the owner.  *)

Boundary(c, step, ok) == creator' = [creator EXCEPT ![c].at = step, ![c].ok = ok]
Crossed(c) == creation[GenOf(c)] # "prepared"

SpawnGuardian(c) ==
  /\ Doing(c, "spawn")
  /\ guardian' = [guardian EXCEPT ![GenOf(c)] = "spawned"]
  /\ lease' = lease \union {GenOf(c)}
  /\ Then(c, "await_ready")
  /\ UNCHANGED <<rows, helper, posted, pane>>

SpawnFails(c) == Doing(c, "spawn") /\ Then(c, "known_absent") /\ Nothing

(* READY was read, and the guardian lives and its group owns the port.     *)
Alive(c) == guardian[GenOf(c)] = "ready" /\ helper[GenOf(c)] = "serving"

ServerReady(c) ==
  /\ Doing(c, "await_ready")
  /\ Alive(c)
  /\ Then(c, "begin")
  /\ Nothing

(* begin_opencode_session_creation, in the callback before the POST.       *)
Begin(c) ==
  /\ Doing(c, "begin")
  /\ IF StillStarting(c) /\ creation[GenOf(c)] = "prepared"
       THEN Then(c, "post") /\ creation' = [creation EXCEPT ![GenOf(c)] = "external_effect_started"]
       ELSE Boundary(c, "close", FALSE) /\ UNCHANGED creation
  /\ UNCHANGED <<runtimeRow, lifecycle, binding, serving, posted, pane>>

Post(c) ==
  /\ Doing(c, "post")
  /\ Alive(c)
  /\ posted' = [posted EXCEPT ![GenOf(c)] = @ + 1]
  /\ Then(c, "verify")
  /\ UNCHANGED <<rows, serving, pane>>

(* The response arrived, and the new session is blank and the only one.    *)
Verify(c) ==
  /\ Doing(c, "verify")
  /\ Alive(c)
  /\ Boundary(c, "close", TRUE)
  /\ Nothing

(* A timeout, a lost response, a dead guardian or server.                  *)
CreationFails(c) ==
  /\ creator[c].at \in {"await_ready", "post", "verify"}
  /\ Boundary(c, "close", FALSE)
  /\ Nothing

CloseLease(c) ==
  /\ Doing(c, "close")
  /\ lease' = lease \ {GenOf(c)}
  /\ Then(c, "await_exit")
  /\ UNCHANGED <<rows, guardian, helper, posted, pane>>

\* Mutant: before the POST nothing can have been left behind.
OutcomeIgnoresCleanup(c, stopped) ==
  Then(c, IF creator[c].ok /\ stopped THEN "commit"
          ELSE IF Crossed(c) THEN "unknown" ELSE "known_absent")

(* close_and_wait; its failure outweighs the session that was created.     *)
Outcome(c, stopped) ==
  Then(c, IF creator[c].ok /\ stopped THEN "commit"
          ELSE IF Crossed(c) THEN "unknown"
          ELSE IF stopped THEN "known_absent" ELSE "cleanup_unknown")

GuardianExited(c) ==
  /\ Doing(c, "await_exit")
  /\ guardian[GenOf(c)] = "exited"
  /\ Outcome(c, TRUE)
  /\ Nothing

(* It failed, or did not exit in time.                                     *)
GuardianFailed(c) ==
  /\ Doing(c, "await_exit")
  /\ guardian[GenOf(c)] # "exited"
  /\ Outcome(c, FALSE)
  /\ Nothing

-----------------------------------------------------------------------------
(* The outcome is recorded.                                                *)

Commits(c) ==
  /\ StillStarting(c)
  /\ creation[GenOf(c)] = "external_effect_started"
  /\ binding = Unbound

Commit(c) ==
  /\ Doing(c, "commit")
  /\ IF Commits(c)
       THEN /\ creation' = [creation EXCEPT ![GenOf(c)] = "committed"]
            /\ binding' = [session |-> GenOf(c), gen |-> GenOf(c)]
            /\ Then(c, "launch")
       ELSE Then(c, "unknown") /\ UNCHANGED <<creation, binding>>
  /\ UNCHANGED <<runtimeRow, lifecycle, serving, posted, pane>>

(* mark_opencode_session_creation_unknown and ..._cleanup_unknown.         *)
MarkCreation(c, step, phase) ==
  /\ Doing(c, step)
  /\ IF StillStarting(c) /\ creation[GenOf(c)] = phase
       THEN RequireRecovery /\ creation' = [creation EXCEPT ![GenOf(c)] = "failed"]
       ELSE UNCHANGED <<runtimeRow, lifecycle, creation>>
  /\ Then(c, "idle")
  /\ UNCHANGED <<binding, serving, posted, pane>>

MarkUnknown(c) == MarkCreation(c, "unknown", "external_effect_started")
MarkCleanupUnknown(c) == MarkCreation(c, "cleanup_unknown", "prepared")

(* fail_known_absent_...: the journal first, then the Runtime.             *)
FailKnownAbsent(c) ==
  /\ Doing(c, "known_absent")
  /\ creation' = IF StillStarting(c) /\ ~ Crossed(c)
                  THEN [creation EXCEPT ![GenOf(c)] = "failed"] ELSE creation
  /\ Then(c, "unlaunched")
  /\ UNCHANGED <<runtimeRow, lifecycle, binding, serving, posted, pane>>

-----------------------------------------------------------------------------
(* launch_reserved_opencode_runtime, its failure, and recover_opencode,    *)
(* each up to what this module tells apart.                                *)

Launch(c) ==
  /\ Doing(c, "launch")
  /\ Unchanged(c) /\ pane = 0
  /\ pane' = GenOf(c)
  /\ runtimeRow' = [runtimeRow EXCEPT !.provider = TRUE]
  /\ Then(c, "idle")
  /\ UNCHANGED <<lifecycle, binding, creation, serving, posted>>

LaunchFails(c) ==
  /\ Doing(c, "launch")
  /\ IF runtimeRow.status # "unknown" THEN RequireRecovery
                                      ELSE UNCHANGED <<runtimeRow, lifecycle>>
  /\ Then(c, "idle")
  /\ UNCHANGED <<binding, creation, serving, posted, pane>>

Recover(c) ==
  /\ Doing(c, "idle")
  /\ lifecycle = "recovery_required"
  /\ runtimeRow.status = "unknown" /\ runtimeRow.provider
  /\ binding # Unbound /\ binding.gen = runtimeRow.gen
  /\ pane = 0
  /\ runtimeRow.gen < LastGeneration
  /\ runtimeRow' = NextGeneration
  /\ binding' = [binding EXCEPT !.gen = NextGeneration.gen]
  /\ creator' = [creator EXCEPT ![c] = [at |-> "launch", row |-> NextGeneration,
                                        session |-> binding.session, ok |-> FALSE]]
  /\ UNCHANGED <<lifecycle, creation, serving, posted, pane>>

-----------------------------------------------------------------------------
(* The guardian (run_inner) and its helper.                                *)

Guards(g, step) == guardian[g] = step
Becomes(g, step) == guardian' = [guardian EXCEPT ![g] = step]
OnlyGuardian == UNCHANGED <<rows, lease, posted, pane, creator>>

SpawnBarrier(g) ==
  /\ Guards(g, "spawned")
  /\ helper' = [helper EXCEPT ![g] = "barrier"]
  /\ Becomes(g, "barrier")
  /\ OnlyGuardian

(* The port is taken, or the helper or its group cannot be identified: the *)
(* guardian exits and a barrier that loses its release pipe exits too.     *)
GuardianRefuses(g) ==
  /\ guardian[g] \in {"spawned", "barrier"}
  /\ helper' = [helper EXCEPT ![g] = "gone"]
  /\ Becomes(g, "failed")
  /\ OnlyGuardian

ReleaseBarrier(g) ==
  /\ Guards(g, "barrier")
  /\ helper[g] = "barrier"
  /\ g \in lease
  /\ helper' = [helper EXCEPT ![g] = "serving"]
  /\ Becomes(g, "released")
  /\ OnlyGuardian

PublishReady(g) ==
  /\ Guards(g, "released")
  /\ g \in lease /\ helper[g] = "serving"
  /\ Becomes(g, "ready")
  /\ UNCHANGED helper
  /\ OnlyGuardian

\* Mutant: a guardian whose lease ends exits and leaves the server.
LeaseEndsOnly(g) ==
  /\ Guards(g, "ready")
  /\ g \notin lease
  /\ Becomes(g, "exited")
  /\ UNCHANGED helper
  /\ OnlyGuardian

(* The owner closed the lease or died, the server exited, or it was not    *)
(* ready in time.  Only the end of a lease that was ready is no error.     *)
LeaseEnds(g) ==
  /\ Guards(g, "ready")
  /\ g \notin lease
  /\ Becomes(g, "clean")
  /\ UNCHANGED helper
  /\ OnlyGuardian

ServeFails(g) ==
  /\ \/ guardian[g] \in {"barrier", "released"}
     \/ Guards(g, "ready") /\ helper[g] = "gone"
  /\ Becomes(g, "clean_failed")
  /\ UNCHANGED helper
  /\ OnlyGuardian

(* cleanup_helper: terminate the proven group, reap, see the port free.    *)
CleanUp(g) ==
  /\ guardian[g] \in {"clean", "clean_failed"}
  /\ helper' = [helper EXCEPT ![g] = "gone"]
  /\ Becomes(g, IF Guards(g, "clean") THEN "exited" ELSE "failed")
  /\ OnlyGuardian

CleanUpFails(g) ==
  /\ Kills
  /\ guardian[g] \in {"clean", "clean_failed"}
  /\ Becomes(g, "failed")
  /\ UNCHANGED helper
  /\ OnlyGuardian

(* run_barrier: end of file instead of a release byte.                     *)
BarrierEnds(g) ==
  /\ helper[g] = "barrier"
  /\ guardian[g] \in GuardianExits
  /\ helper' = [helper EXCEPT ![g] = "gone"]
  /\ UNCHANGED guardian
  /\ OnlyGuardian

-----------------------------------------------------------------------------
(* The environment.                                                        *)

ServerExits(g) ==
  /\ helper[g] = "serving"
  /\ helper' = [helper EXCEPT ![g] = "gone"]
  /\ UNCHANGED guardian
  /\ OnlyGuardian

KillGuardian(g) ==
  /\ Kills
  /\ guardian[g] \notin GuardianExits \union {"none"}
  /\ Becomes(g, "killed")
  /\ UNCHANGED helper
  /\ OnlyGuardian

Leasing == {"await_ready", "begin", "post", "verify", "close"}

KillCreator(c) ==
  /\ Kills
  /\ ~ Doing(c, "idle")
  /\ lease' = IF creator[c].at \in Leasing THEN lease \ {GenOf(c)} ELSE lease
  /\ Then(c, "idle")
  /\ UNCHANGED <<rows, guardian, helper, posted, pane>>

(* The provider in the pane is lost, or is parked.                         *)
ProviderLost ==
  /\ pane # 0
  /\ pane' = 0
  /\ UNCHANGED <<rows, serving, posted, creator>>

ProviderParked ==
  /\ pane # 0 /\ pane = runtimeRow.gen
  /\ pane' = 0
  /\ MarkStopped
  /\ UNCHANGED <<lifecycle, binding, creation, serving, posted, creator>>

-----------------------------------------------------------------------------

InspectRuntime(c) ==
  \/ InspectPrior(c) \/ ProbeLive(c) \/ ProbeMissing(c)
  \/ MissingIsLost(c) \/ MissingIsClean(c) \/ MissingIsStopped(c) \/ ReadBinding(c)

CreateSession(c) ==
  \/ Reserve(c) \/ ReserveRefused(c) \/ Rebind(c) \/ FailUnlaunched(c) \/ Prepare(c)
  \/ SpawnGuardian(c) \/ SpawnFails(c) \/ ServerReady(c) \/ Begin(c)
  \/ Post(c) \/ Verify(c) \/ CreationFails(c) \/ CloseLease(c)
  \/ GuardianExited(c) \/ GuardianFailed(c)
  \/ Commit(c) \/ MarkUnknown(c) \/ MarkCleanupUnknown(c) \/ FailKnownAbsent(c)
  \/ Launch(c) \/ LaunchFails(c)

Guard(g) ==
  \/ SpawnBarrier(g) \/ GuardianRefuses(g) \/ ReleaseBarrier(g) \/ PublishReady(g)
  \/ LeaseEnds(g) \/ ServeFails(g) \/ CleanUp(g) \/ CleanUpFails(g) \/ BarrierEnds(g)

SessionNext ==
  \/ \E c \in Creators :
       ReadOverview(c) \/ Recover(c) \/ InspectRuntime(c) \/ CreateSession(c) \/ KillCreator(c)
  \/ \E g \in Generations : Guard(g) \/ ServerExits(g) \/ KillGuardian(g)
  \/ ProviderLost \/ ProviderParked

(* An action that began runs on, and so does every guardian.               *)
SessionFairness ==
  /\ \A c \in Creators : WF_sessionVars(InspectRuntime(c) \/ CreateSession(c))
  /\ \A g \in Generations : WF_sessionVars(Guard(g))

SessionSpec == SessionInit /\ [][SessionNext]_sessionVars
FairSessionSpec == SessionSpec /\ SessionFairness

-----------------------------------------------------------------------------
(* Properties.                                                             *)

CreatorSteps == {"idle", "inspect", "probe", "missing", "read_binding", "reserve", "rebind",
                 "unlaunched", "prepare", "spawn", "await_ready", "begin", "post", "verify",
                 "close", "await_exit", "commit", "unknown", "cleanup_unknown",
                 "known_absent", "launch"}
Rows == [gen : 0..LastGeneration, status : {"none", "starting", "stopped", "unknown"},
         provider : BOOLEAN]

(* Every variable keeps its type.                                          *)
SessionTypeOK ==
  /\ runtimeRow \in Rows
  /\ lifecycle \in {"open", "recovery_required"}
  /\ binding \in [session : 0..LastGeneration, gen : 0..LastGeneration]
  /\ creation \in [Generations -> Unresolved \union {"none", "committed", "failed"}]
  /\ guardian \in [Generations -> GuardianExits \union
                     {"none", "spawned", "barrier", "released", "ready", "clean", "clean_failed"}]
  /\ helper \in [Generations -> {"none", "barrier", "serving", "gone"}]
  /\ lease \subseteq Generations
  /\ posted \in [Generations -> Nat]
  /\ pane \in 0..LastGeneration
  /\ creator \in [Creators -> [at : CreatorSteps, row : Rows, session : 0..LastGeneration,
                               ok : BOOLEAN]]

(* One POST for a generation at most, and after a POST whose session was   *)
(* not bound the Workstream never posts again, whoever died or raced with  *)
(* the creation.                                                           *)
NeverPostsAgain ==
  /\ \A g \in Generations : posted[g] <= 1
  /\ \A g, h \in Generations :
       g < h /\ posted[g] = 1 /\ creation[g] # "committed" => posted[h] = 0

(* The bound session is one a POST created and a verified creation bound.  *)
BoundIsPosted ==
  binding # Unbound => posted[binding.session] = 1 /\ creation[binding.session] = "committed"

(* The sessions of a Workstream are posted once, and bound as posted.      *)
PostsOnce == NeverPostsAgain /\ BoundIsPosted

(* A server that its guardian left behind is never followed by another     *)
(* generation of the Workstream as long as no session is bound.            *)
Abandoned(g) == helper[g] = "serving" /\ guardian[g] \in GuardianExits

AbandonedIsFenced ==
  \A g \in Generations : Abandoned(g) /\ binding = Unbound => runtimeRow.gen = g

(* Servers whose lease has ended, and that their guardian must stop.       *)
Owed == {g \in Generations : /\ helper[g] = "serving" /\ g \notin lease
                             /\ guardian[g] \notin {"failed", "killed"}}

(* The server does not outlive the lease: when the owner closes it or      *)
(* dies, the guardian stops the server, or somebody stopped the guardian.  *)
ServerEndsWithLease == []<>(Owed = {})

=============================================================================
