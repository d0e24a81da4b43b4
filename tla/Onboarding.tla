----------------------------- MODULE Onboarding -----------------------------
(***************************************************************************)
(* The promotion of a provisional account shell into a managed Runtime     *)
(* (src/src/provisional.rs, onboarding_broker.rs, onboarding_helper.rs,    *)
(* shell_control.rs, provider_reconcile.rs, state/current/onboarding.rs).  *)
(*                                                                         *)
(* A presentation owns at most one marker file.  It names a slot: one      *)
(* candidate Runtime id with its private directory and tmux server.  The   *)
(* marker is presentation-private; the journal and the Runtime row are in  *)
(* SQLite.  Neither can be written with the other, so every operation is a *)
(* sequence of single writes that a crash may cut between any two.         *)
(*                                                                         *)
(* One non-blocking host-wide file lock, the provisional lease, serializes *)
(* all of those sequences: job is the sequence that holds it.  The kernel  *)
(* drops the lock with its process, and execve drops it with the helper.   *)
(* Outside the lease run the shell and the provider in the pane, the       *)
(* detached OpenCode observer, and the Runtime actions Park and Archive.   *)
(***************************************************************************)
EXTENDS Naturals, FiniteSets

CONSTANTS
  Presentations,   \* presentations (Navigator windows) of one state root
  Slots,           \* bound: candidate Runtime ids ever allocated
  Nil,             \* neither of them
  Failures         \* the failures the environment may inject

AllFailures ==
  {"crash", "torn_marker", "server_lost", "shell_exit", "provider_exit", "observer_fails"}

ASSUME NilAssumption == Nil \notin Presentations /\ Nil \notin Slots
ASSUME FailuresAssumption == Failures \subseteq AllFailures

VARIABLES
  marker,    \* each presentation's marker file
  journal,   \* the phase of each slot's compound operation; "absent": no row
  row,       \* each slot's Runtime row and OpenCode handle
  pane,      \* the process in the pane of each slot's tmux server
  dir,       \* the private Runtime directory exists
  effects,   \* native sessions and provider processes really created
  job        \* the holder of the provisional lease and its next step

vars == <<marker, journal, row, pane, dir, effects, job>>

Candidate == {"materializing", "materialized", "handoff_issued"}
Markers == Candidate \union {"none", "torn", "runtime_owned", "exec_proven"}

Fenced == {"runtime_owned", "preparation", "effect_started", "exec_started", "known_absent"}
Consumed == Fenced \union {"recovery", "exec_proven"}
Phases == Consumed \union {"absent", "capability_issued", "rolled_back", "committed"}

Providers == {"codex", "opencode"}

RowState == [life : {"none", "starting", "active", "stopped", "archived"},
             provider : Providers \union {"none"}, pid : BOOLEAN, session : BOOLEAN,
             handle : {"none", "starting", "spawned", "ready", "unknown"}]

PaneState == {"none", "shell", "helper", "provider", "exited", "dead"}

Kinds == {"none", "materialize", "gate", "helper", "prove", "reconcile", "close"}

Steps == {"none", "mark", "create_dir", "new_session", "observe",
          "reserve", "issue", "deliver",
          "consume", "own", "prepare", "effect", "post", "bind", "handle",
          "exec_fence", "exec", "known_absent", "give_up",
          "record", "spawn", "await", "finalize", "complete", "retire",
          "repair", "cancel", "kill", "artifacts", "unmark"}

\* Steps that rewrite the marker in place: truncate, then write.
MarkerWrites == {"mark", "observe", "issue", "own", "complete", "repair"}

NoMarker == [phase |-> "none", slot |-> Nil]
NoRow == [life |-> "none", provider |-> "none", pid |-> FALSE, session |-> FALSE,
          handle |-> "none"]
NoEffects == [sessions |-> 0, processes |-> 0]
NoJob == [kind |-> "none", pres |-> Nil, slot |-> Nil, pc |-> "none"]

\* Every store holds a value its writer can have written.
TypeOK ==
  /\ marker \in [Presentations -> [phase : Markers, slot : Slots \union {Nil}]]
  /\ journal \in [Slots -> Phases]
  /\ row \in [Slots -> RowState]
  /\ pane \in [Slots -> PaneState]
  /\ dir \in [Slots -> BOOLEAN]
  /\ effects \in [Slots -> [sessions : Nat, processes : Nat]]
  /\ job \in [kind : Kinds, pres : Presentations \union {Nil},
              slot : Slots \union {Nil}, pc : Steps]

Init ==
  /\ marker = [p \in Presentations |-> NoMarker]
  /\ journal = [s \in Slots |-> "absent"]
  /\ row = [s \in Slots |-> NoRow]
  /\ pane = [s \in Slots |-> "none"]
  /\ dir = [s \in Slots |-> FALSE]
  /\ effects = [s \in Slots |-> NoEffects]
  /\ job = NoJob

-----------------------------------------------------------------------------
(* The lease, the marker and the journal.                                  *)

Idle == job.kind = "none"
At(kind, pc) == job.kind = kind /\ job.pc = pc

Acquire(kind, p, s, pc) ==
  /\ Idle
  /\ job' = [kind |-> kind, pres |-> p, slot |-> s, pc |-> pc]
Goto(pc) == job' = [job EXCEPT !.pc = pc]
Release == job' = NoJob

Slot == job.slot
\* Mutant: the marker is given the journal's name of the state.
SetMarkerToJournal(phase) ==
  marker' = [marker EXCEPT ![job.pres] = [phase |-> journal[job.slot], slot |-> job.slot]]

SetMarker(phase) == marker' = [marker EXCEPT ![job.pres] = [phase |-> phase, slot |-> job.slot]]
RemoveMarker == marker' = [marker EXCEPT ![job.pres] = NoMarker]
SetPane(process) == pane' = [pane EXCEPT ![Slot] = process]

\* The transitions the journal accepts.
NextPhases(phase) ==
  CASE phase = "capability_issued" -> {"runtime_owned", "rolled_back"}
    [] phase = "runtime_owned" -> {"preparation", "recovery"}
    [] phase = "preparation" -> {"effect_started", "exec_started", "recovery"}
    [] phase = "effect_started" -> {"exec_started", "recovery"}
    [] phase = "exec_started" -> {"exec_proven", "known_absent", "recovery"}
    [] phase = "known_absent" -> {"rolled_back", "recovery"}
    [] phase = "recovery" -> {"exec_proven", "rolled_back"}
    [] OTHER -> {}

Advance(s, phase) ==
  /\ phase \in NextPhases(journal[s])
  /\ journal' = [journal EXCEPT ![s] = phase]

\* observe_live_shell: the pane process has a birth.  The shell, the helper and
\* the provider are one process: each replaces the one before by execve.  A shell
\* that was handed the capability counts as the helper it is about to become.
Live(s) == pane[s] \in {"shell", "helper", "provider"}

-----------------------------------------------------------------------------
(* The host-wide singleton classifier.                                     *)

\* Mutant: an issued handoff is not counted as a candidate.
MarkerIsSettledOrIssued(p) ==
  LET m == marker[p] IN
  \/ m.phase \in {"none", "handoff_issued"}
  \/ m.phase = "runtime_owned" /\ journal[m.slot] \in Consumed /\ row[m.slot] # NoRow
  \/ m.phase = "exec_proven" /\ journal[m.slot] = "exec_proven" /\ row[m.slot] # NoRow

\* No candidate: the marker is gone or its Runtime is owned and registered.
MarkerIsSettled(p) ==
  LET m == marker[p] IN
  \/ m.phase = "none"
  \/ m.phase = "runtime_owned" /\ journal[m.slot] \in Consumed /\ row[m.slot] # NoRow
  \/ m.phase = "exec_proven" /\ journal[m.slot] = "exec_proven" /\ row[m.slot] # NoRow

\* ProvisionalInventory::Vacant, with every cross-check the classifier makes.
Vacant ==
  /\ \A p \in Presentations : MarkerIsSettled(p)
  /\ \A s \in Slots :
       /\ journal[s] \in (Consumed \ {"exec_proven"}) \union {"capability_issued"} =>
            \E p \in Presentations : marker[p].slot = s
       /\ journal[s] = "rolled_back" => row[s] = NoRow
       /\ journal[s] \in Consumed \union {"capability_issued"} => row[s] # NoRow
       /\ dir[s] => row[s] # NoRow

-----------------------------------------------------------------------------
(* Materializing a provisional shell.                                      *)

\* The slot is a fresh random id: nothing anywhere refers to it.
BeginMaterialize(p, s) ==
  /\ marker[p] = NoMarker
  /\ Vacant
  /\ journal[s] = "absent" /\ row[s] = NoRow /\ ~dir[s] /\ pane[s] = "none"
  /\ \A q \in Presentations : marker[q].slot # s
  /\ Acquire("materialize", p, s, "mark")
  /\ UNCHANGED <<marker, journal, row, pane, dir, effects>>

WriteNewMarker ==
  /\ At("materialize", "mark")
  /\ SetMarker("materializing")
  /\ Goto("create_dir")
  /\ UNCHANGED <<journal, row, pane, dir, effects>>

CreateDirectory ==
  /\ At("materialize", "create_dir")
  /\ dir' = [dir EXCEPT ![Slot] = TRUE]
  /\ Goto("new_session")
  /\ UNCHANGED <<marker, journal, row, pane, effects>>

NewSession ==
  /\ At("materialize", "new_session")
  /\ SetPane("shell")
  /\ Goto("observe")
  /\ UNCHANGED <<marker, journal, row, dir, effects>>

RecordShellEvidence ==
  /\ At("materialize", "observe")
  /\ Live(Slot)
  /\ SetMarker("materialized")
  /\ Release
  /\ UNCHANGED <<journal, row, pane, dir, effects>>

Materialize ==
  \/ \E p \in Presentations, s \in Slots : BeginMaterialize(p, s)
  \/ WriteNewMarker
  \/ CreateDirectory
  \/ NewSession
  \/ RecordShellEvidence


-----------------------------------------------------------------------------
(* The gate: the shell's wrapper asks for a managed provider.  A marker that *)
(* already has an operation is refused (ExistingOperation).                *)

BeginGate(p) ==
  LET s == marker[p].slot IN
  /\ marker[p].phase = "materialized"
  /\ pane[s] = "shell"
  /\ journal[s] = "absent" /\ row[s] = NoRow
  /\ Acquire("gate", p, s, "reserve")
  /\ UNCHANGED <<marker, journal, row, pane, dir, effects>>

\* One transaction inserts the Location, the Workstream, the Runtime and the
\* operation with its hashed capability.
ReserveOnboarding(provider) ==
  /\ At("gate", "reserve")
  /\ journal' = [journal EXCEPT ![Slot] = "capability_issued"]
  /\ row' = [row EXCEPT ![Slot] = [NoRow EXCEPT !.life = "starting", !.provider = provider]]
  /\ Goto("issue")
  /\ UNCHANGED <<marker, pane, dir, effects>>

IssueHandoff ==
  /\ At("gate", "issue")
  /\ SetMarker("handoff_issued")
  /\ Goto("deliver")
  /\ UNCHANGED <<journal, row, pane, dir, effects>>

\* The gate exits with the capability and the shell execs the helper.
DeliverCapability ==
  /\ At("gate", "deliver")
  /\ pane[Slot] = "shell"
  /\ SetPane("helper")
  /\ Release
  /\ UNCHANGED <<marker, journal, row, dir, effects>>

Gate ==
  \/ \E p \in Presentations : BeginGate(p)
  \/ \E provider \in Providers : ReserveOnboarding(provider)
  \/ IssueHandoff
  \/ DeliverCapability

-----------------------------------------------------------------------------
(* The helper, in the pane, holding the lease until it execs the provider. *)

BeginHelper(p) ==
  LET s == marker[p].slot IN
  /\ marker[p].phase = "handoff_issued"
  /\ pane[s] = "helper"
  /\ journal[s] = "capability_issued"
  /\ Acquire("helper", p, s, "consume")
  /\ UNCHANGED <<marker, journal, row, pane, dir, effects>>

\* A journal step of the helper: the phase it fences, then what comes next.
HelperFence(pc, phase, next) ==
  /\ At("helper", pc)
  /\ Advance(Slot, phase)
  /\ Goto(next)
  /\ UNCHANGED <<marker, row, pane, dir, effects>>

IsCodex == row[Slot].provider = "codex"

ConsumeCapability == HelperFence("consume", "runtime_owned", "own")

OwnMarker ==
  /\ At("helper", "own")
  /\ SetMarker("runtime_owned")
  /\ Goto("prepare")
  /\ UNCHANGED <<journal, row, pane, dir, effects>>

\* Mutant: OpenCode's session is posted without the effect fence.
PrepareWithoutFence ==
  HelperFence("prepare", "preparation", IF IsCodex THEN "exec_fence" ELSE "post")

PrepareProvider ==
  HelperFence("prepare", "preparation", IF IsCodex THEN "exec_fence" ELSE "effect")

FenceEffect == HelperFence("effect", "effect_started", "post")

\* The POST that creates a blank OpenCode session; it is not idempotent.
CreateSession ==
  /\ At("helper", "post")
  /\ effects' = [effects EXCEPT ![Slot].sessions = @ + 1]
  /\ Goto("bind")
  /\ UNCHANGED <<marker, journal, row, pane, dir>>

BindSession ==
  /\ At("helper", "bind")
  /\ row' = [row EXCEPT ![Slot].session = TRUE]
  /\ Goto("handle")
  /\ UNCHANGED <<marker, journal, pane, dir, effects>>

RecordHandle ==
  /\ At("helper", "handle")
  /\ row' = [row EXCEPT ![Slot].handle = "starting"]
  /\ Goto("exec_fence")
  /\ UNCHANGED <<marker, journal, pane, dir, effects>>

\* Codex execs from its preparation, OpenCode only from its effect fence.
FenceExec ==
  /\ At("helper", "exec_fence")
  /\ journal[Slot] = IF IsCodex THEN "preparation" ELSE "effect_started"
  /\ HelperFence("exec_fence", "exec_started", "exec")

ExecProvider ==
  /\ At("helper", "exec")
  /\ effects' = [effects EXCEPT ![Slot].processes = @ + 1]
  /\ SetPane("provider")
  /\ Release
  /\ UNCHANGED <<marker, journal, row, dir>>

\* The POST fails: its answer may be lost after the session was created.
PostFails ==
  /\ At("helper", "post")
  /\ \/ effects' = effects
     \/ effects' = [effects EXCEPT ![Slot].sessions = @ + 1]
  /\ Goto("give_up")
  /\ UNCHANGED <<marker, journal, row, pane, dir>>

\* A failure after the preparation that OpenCode's helper records itself.
StepFails ==
  /\ job.kind = "helper"
  /\ job.pc \in {"effect", "bind", "handle"} \/ (job.pc = "exec_fence" /\ ~IsCodex)
  /\ Goto("give_up")
  /\ UNCHANGED <<marker, journal, row, pane, dir, effects>>

ExecFails ==
  /\ At("helper", "exec")
  /\ Goto(IF IsCodex THEN "known_absent" ELSE "give_up")
  /\ UNCHANGED <<marker, journal, row, pane, dir, effects>>

\* The helper writes how it ended and exits; the dead pane is retained.
HelperEnds(pc, phase) ==
  /\ At("helper", pc)
  /\ Advance(Slot, phase)
  /\ SetPane("dead")
  /\ Release
  /\ UNCHANGED <<marker, row, dir, effects>>

RecordRecovery == HelperEnds("give_up", "recovery")
RecordKnownAbsent == HelperEnds("known_absent", "known_absent")

\* The helper exits, at any step, without recording anything.
HelperDies ==
  /\ job.kind = "helper"
  /\ SetPane("dead")
  /\ Release
  /\ UNCHANGED <<marker, journal, row, dir, effects>>

\* It never gets so far: the lease is busy, or the capability is cancelled or expired.
HelperRefused(s) ==
  /\ pane[s] = "helper"
  /\ ~(job.kind = "helper" /\ job.slot = s)
  /\ pane' = [pane EXCEPT ![s] = "dead"]
  /\ UNCHANGED <<marker, journal, row, dir, effects, job>>

Helper ==
  \/ \E p \in Presentations : BeginHelper(p)
  \/ ConsumeCapability \/ OwnMarker \/ PrepareProvider
  \/ FenceEffect \/ CreateSession \/ BindSession \/ RecordHandle
  \/ FenceExec \/ ExecProvider
  \/ PostFails \/ StepFails \/ ExecFails
  \/ RecordRecovery \/ RecordKnownAbsent
  \/ HelperDies
  \/ \E s \in Slots : HelperRefused(s)

-----------------------------------------------------------------------------
(* The reconciler proves the exec, and retires the marker.                 *)

\* load_exec_proof_target: the Runtime row a proof may still be recorded in.
Provable(s) ==
  /\ journal[s] = "exec_started"
  /\ row[s].life = "starting"
  /\ row[s].pid => row[s].provider = "opencode"

\* The pane process is the recorded native executable.
BeginProve(p) ==
  LET s == marker[p].slot IN
  /\ marker[p].phase = "runtime_owned"
  /\ Provable(s)
  /\ pane[s] = "provider"
  /\ Acquire("prove", p, s, "record")
  /\ UNCHANGED <<marker, journal, row, pane, dir, effects>>

\* The proof was committed by a reconciler that did not finish.
BeginComplete(p) ==
  LET s == marker[p].slot IN
  /\ marker[p].phase = "runtime_owned"
  /\ journal[s] = "exec_proven" /\ row[s].pid
  /\ Acquire("prove", p, s, "complete")
  /\ UNCHANGED <<marker, journal, row, pane, dir, effects>>

BeginRetire(p) ==
  /\ marker[p].phase = "exec_proven"
  /\ Acquire("prove", p, marker[p].slot, "retire")
  /\ UNCHANGED <<marker, journal, row, pane, dir, effects>>

\* Mutant: the identity of a Codex process is committed before its proof.
RecordIdentityOnly ==
  /\ At("prove", "record")
  /\ Provable(Slot)
  /\ row' = [row EXCEPT ![Slot].pid = TRUE]
  /\ Goto("spawn")
  /\ UNCHANGED <<marker, journal, pane, dir, effects>>

\* The process identity is recorded; for Codex that is the proof.
RecordProcess ==
  /\ At("prove", "record")
  /\ Provable(Slot)
  /\ row' = [row EXCEPT ![Slot].pid = TRUE]
  /\ \/ IsCodex /\ Advance(Slot, "exec_proven") /\ Goto("complete")
     \/ ~IsCodex /\ Goto("spawn") /\ UNCHANGED journal
  /\ UNCHANGED <<marker, pane, dir, effects>>

\* Only a handle without an observer may get one.
SpawnObserver ==
  /\ At("prove", "spawn")
  /\ row[Slot].handle = "starting"
  /\ row' = [row EXCEPT ![Slot].handle = "spawned"]
  /\ Goto("await")
  /\ UNCHANGED <<marker, journal, pane, dir, effects>>

AwaitObserver ==
  /\ At("prove", "await")
  /\ Provable(Slot) /\ row[Slot].handle = "ready"
  /\ pane[Slot] = "provider"
  /\ Goto("finalize")
  /\ UNCHANGED <<marker, journal, row, pane, dir, effects>>

FinalizeProof ==
  /\ At("prove", "finalize")
  /\ Provable(Slot) /\ row[Slot].handle = "ready"
  /\ Advance(Slot, "exec_proven")
  /\ Goto("complete")
  /\ UNCHANGED <<marker, row, pane, dir, effects>>

CompleteMarker ==
  /\ At("prove", "complete")
  /\ SetMarker("exec_proven")
  /\ Goto("retire")
  /\ UNCHANGED <<journal, row, pane, dir, effects>>

RetireMarker ==
  /\ At("prove", "retire")
  /\ journal[Slot] = "exec_proven" /\ row[Slot].pid
  /\ RemoveMarker
  /\ Release
  /\ UNCHANGED <<journal, row, pane, dir, effects>>

Prove ==
  \/ \E p \in Presentations : BeginProve(p) \/ BeginComplete(p) \/ BeginRetire(p)
  \/ RecordProcess \/ SpawnObserver \/ AwaitObserver \/ FinalizeProof
  \/ CompleteMarker \/ RetireMarker

-----------------------------------------------------------------------------
(* Reconciling and closing a presentation before its handoff is consumed.  *)

\* Mutant: the journal is not consulted.
RepairUnconsumed(p) ==
  LET s == marker[p].slot IN
  /\ marker[p].phase = "handoff_issued"
  /\ row[s] # NoRow
  /\ Acquire("reconcile", p, s, "repair")
  /\ UNCHANGED <<marker, journal, row, pane, dir, effects>>

\* The journal owns the Runtime and only the marker is behind.
BeginRepair(p) ==
  LET s == marker[p].slot IN
  /\ marker[p].phase = "handoff_issued"
  /\ journal[s] \in Consumed /\ row[s] # NoRow
  /\ Acquire("reconcile", p, s, "repair")
  /\ UNCHANGED <<marker, journal, row, pane, dir, effects>>

RepairMarker ==
  /\ At("reconcile", "repair")
  /\ SetMarker("runtime_owned")
  /\ Release
  /\ UNCHANGED <<journal, row, pane, dir, effects>>

\* A live or unknown server is left alone.
BeginReconcile(p) ==
  LET s == marker[p].slot IN
  /\ marker[p].phase \in Candidate
  /\ marker[p].phase = "materializing" => journal[s] = "absent"
  /\ row[s] # NoRow => journal[s] = "capability_issued"
  /\ pane[s] = "none"
  /\ Acquire("reconcile", p, s, "cancel")
  /\ UNCHANGED <<marker, journal, row, pane, dir, effects>>

\* Closing the presentation may stop the live shell it recorded.
BeginClose(p) ==
  LET s == marker[p].slot IN
  /\ marker[p].phase \in Candidate
  /\ pane[s] = "none" \/ (marker[p].phase # "materializing" /\ Live(s))
  /\ Acquire("close", p, s, "cancel")
  /\ UNCHANGED <<marker, journal, row, pane, dir, effects>>

\* Mutant: a reservation is cancellable for as long as no process is recorded.
CancellableUntilProven(s) ==
  \/ journal[s] = "absent" /\ row[s] = NoRow
  \/ journal[s] = "rolled_back"
  \/ row[s].life = "starting" /\ ~row[s].pid

\* Nothing to cancel, already cancelled, or a reservation nobody consumed.
Cancellable(s) ==
  \/ journal[s] = "absent" /\ row[s] = NoRow
  \/ journal[s] = "rolled_back"
  \/ journal[s] = "capability_issued" /\ row[s].life = "starting" /\ ~row[s].pid

\* Mutant: the marker is removed before the server and the directory.
CancelAndUnmark ==
  /\ job.pc = "cancel"
  /\ Cancellable(Slot)
  /\ row' = [row EXCEPT ![Slot] = NoRow]
  /\ journal' = [journal EXCEPT ![Slot] = IF @ = "absent" THEN @ ELSE "rolled_back"]
  /\ Goto("unmark")
  /\ UNCHANGED <<marker, pane, dir, effects>>

\* Mutant: the transaction leaves the Runtime row.
CancelJournalOnly ==
  /\ job.pc = "cancel"
  /\ Cancellable(Slot)
  /\ journal' = [journal EXCEPT ![Slot] = IF @ = "absent" THEN @ ELSE "rolled_back"]
  /\ Goto(IF pane[Slot] = "none" THEN "artifacts" ELSE "kill")
  /\ UNCHANGED <<marker, row, pane, dir, effects>>

CancelOnboarding ==
  /\ job.pc = "cancel"
  /\ Cancellable(Slot)
  /\ row' = [row EXCEPT ![Slot] = NoRow]
  /\ journal' = [journal EXCEPT ![Slot] = IF @ = "absent" THEN @ ELSE "rolled_back"]
  /\ Goto(IF pane[Slot] = "none" THEN "artifacts" ELSE "kill")
  /\ UNCHANGED <<marker, pane, dir, effects>>

StopServer ==
  /\ job.pc = "kill"
  /\ SetPane("none")
  /\ Goto("artifacts")
  /\ UNCHANGED <<marker, journal, row, dir, effects>>

RemoveArtifacts ==
  /\ job.pc = "artifacts"
  /\ dir' = [dir EXCEPT ![Slot] = FALSE]
  /\ Goto("unmark")
  /\ UNCHANGED <<marker, journal, row, pane, effects>>

UnmarkSlot ==
  /\ job.pc = "unmark"
  /\ RemoveMarker
  /\ Release
  /\ UNCHANGED <<journal, row, pane, dir, effects>>

Reconcile ==
  \/ \E p \in Presentations : BeginRepair(p) \/ BeginReconcile(p) \/ BeginClose(p)
  \/ RepairMarker \/ CancelOnboarding \/ StopServer \/ RemoveArtifacts \/ UnmarkSlot

-----------------------------------------------------------------------------
(* Outside the lease: the observer, provider events and Archive.           *)

ObserverReady(s) ==
  /\ row[s].handle = "spawned"
  /\ pane[s] = "provider"
  /\ row' = [row EXCEPT ![s].handle = "ready"]
  /\ UNCHANGED <<marker, journal, pane, dir, effects, job>>

ObserverFails(s) ==
  /\ "observer_fails" \in Failures
  /\ row[s].handle \in {"spawned", "ready"}
  /\ row' = [row EXCEPT ![s].handle = "unknown"]
  /\ UNCHANGED <<marker, journal, pane, dir, effects, job>>

\* A provider event, from a Codex hook or from the OpenCode observer.  Neither
\* is fenced by the onboarding journal.
Observed(s) ==
  /\ row[s].life = "starting" /\ row[s].pid
  /\ row[s].provider = "opencode" => row[s].handle = "ready"
  /\ pane[s] = "provider"
  /\ row' = [row EXCEPT ![s].life = "active"]
  /\ UNCHANGED <<marker, journal, pane, dir, effects, job>>

\* Archive parks a Runtime in recovery or past its onboarding.  Unless its
\* server is gone, the pane must be the recorded process.
Park(s) ==
  /\ journal[s] \in {"recovery", "exec_proven"}
  /\ row[s].life \in {"starting", "active"}
  /\ pane[s] = "none" \/ (row[s].pid /\ pane[s] \in {"provider", "exited"})
  /\ row' = [row EXCEPT ![s].life = "stopped", ![s].handle = "none"]
  /\ pane' = [pane EXCEPT ![s] = "none"]
  /\ dir' = [dir EXCEPT ![s] = FALSE]
  /\ UNCHANGED <<marker, journal, effects, job>>

\* resolve_parked_recovery_current takes the lease for its one transaction.
ResolveParked(s) ==
  /\ Idle
  /\ journal[s] = "recovery" /\ row[s].life = "stopped"
  /\ journal' = [journal EXCEPT ![s] = "committed"]
  /\ UNCHANGED <<marker, row, pane, dir, effects, job>>

Archive(s) ==
  /\ journal[s] \in {"exec_proven", "committed"}
  /\ row[s].life = "stopped"
  /\ row' = [row EXCEPT ![s].life = "archived"]
  /\ UNCHANGED <<marker, journal, pane, dir, effects, job>>

Runtime ==
  \E s \in Slots : ObserverReady(s) \/ ObserverFails(s) \/ Observed(s)
                    \/ Park(s) \/ ResolveParked(s) \/ Archive(s)

-----------------------------------------------------------------------------
(* Refusals and failures.                                                  *)

\* The holder of the lease meets a state its next step does not accept.
Refused ==
  \/ job.pc = "observe" /\ ~Live(Slot)
  \/ job.pc = "deliver" /\ pane[Slot] # "shell"
  \/ job.pc = "record" /\ ~Provable(Slot)
  \/ job.pc = "spawn" /\ row[Slot].handle # "starting"
  \/ job.pc = "await" /\ ~(Provable(Slot) /\ row[Slot].handle \in {"spawned", "ready"}
                               /\ pane[Slot] = "provider")
  \/ job.pc = "finalize" /\ ~(Provable(Slot) /\ row[Slot].handle = "ready")
  \/ job.pc = "retire" /\ ~(journal[Slot] = "exec_proven" /\ row[Slot].pid)
  \/ job.pc = "cancel" /\ ~Cancellable(Slot)

\* The sequence ends early: refused, a step of it failed, or its process died.
Abort ==
  /\ ~Idle /\ job.kind # "helper"
  /\ Refused \/ "crash" \in Failures
  /\ Release
  /\ UNCHANGED <<marker, journal, row, pane, dir, effects>>

\* A crash between the truncation of a marker and its new contents.  The file
\* keeps its owner, but nothing can be read from it.
TearMarker ==
  /\ "torn_marker" \in Failures
  /\ job.pc \in MarkerWrites
  /\ job.pc = "observe" => Live(Slot)
  /\ SetMarker("torn")
  /\ pane' = IF job.kind = "helper" THEN [pane EXCEPT ![Slot] = "dead"] ELSE pane
  /\ Release
  /\ UNCHANGED <<journal, row, dir, effects>>

ShellExits(s) ==
  /\ "shell_exit" \in Failures
  /\ pane[s] = "shell"
  /\ pane' = [pane EXCEPT ![s] = "dead"]
  /\ UNCHANGED <<marker, journal, row, dir, effects, job>>

ProviderExits(s) ==
  /\ "provider_exit" \in Failures
  /\ pane[s] = "provider"
  /\ \E how \in {"exited", "dead"} : pane' = [pane EXCEPT ![s] = how]
  /\ UNCHANGED <<marker, journal, row, dir, effects, job>>

\* A helper that holds the lease dies by HelperDies first.
ServerLost(s) ==
  /\ "server_lost" \in Failures
  /\ pane[s] # "none"
  /\ ~(job.kind = "helper" /\ job.slot = s)
  /\ pane' = [pane EXCEPT ![s] = "none"]
  /\ UNCHANGED <<marker, journal, row, dir, effects, job>>

Failure ==
  \/ Abort
  \/ TearMarker
  \/ \E s \in Slots : ShellExits(s) \/ ProviderExits(s) \/ ServerLost(s)

Next == Materialize \/ Gate \/ Helper \/ Prove \/ Reconcile \/ Runtime \/ Failure

Spec == Init /\ [][Next]_vars

-----------------------------------------------------------------------------
(* Safety.                                                                 *)

Unowned == {"absent", "capability_issued", "rolled_back"}
Unresolved == {"capability_issued", "recovery"} \union Fenced
Names(p, s) == marker[p].phase # "none" /\ marker[p].slot = s

\* The derived new-session card is a singleton: over all presentations, at most
\* one slot has a directory or a server that no managed Runtime owns yet
\* (classify_host_provisional), however the sequences are cut.
AtMostOneCandidate ==
  \A s, t \in Slots :
    /\ journal[s] \in Unowned /\ (dir[s] \/ pane[s] # "none")
    /\ journal[t] \in Unowned /\ (dir[t] \/ pane[t] # "none")
    => s = t

\* Whatever still needs a decision has a marker from which one of the recovery
\* paths can find it: an unresolved operation, and a shell or a directory that
\* belongs to no managed Runtime.
NothingIsOrphaned ==
  \A s \in Slots :
    journal[s] \in Unresolved \/ (journal[s] \in Unowned /\ (dir[s] \/ pane[s] # "none"))
    => \E p \in Presentations : Names(p, s)

\* The phases of the journal that each marker may stand beside.  The journal may
\* be ahead of the marker by one write, never behind it.
MayStandBeside(phase) ==
  CASE phase = "materializing" -> {"absent"}
    [] phase = "materialized" -> Unowned
    [] phase = "handoff_issued" -> {"capability_issued", "rolled_back", "runtime_owned"}
    [] phase = "runtime_owned" -> Consumed \union {"committed"}
    [] phase = "exec_proven" -> {"exec_proven"}
    [] OTHER -> Phases

\* Marker and journal are two stores written one after the other; reconciliation
\* reads one as evidence about the other.
MarkerAgrees ==
  /\ \A p \in Presentations :
       marker[p].phase # "none" => journal[marker[p].slot] \in MayStandBeside(marker[p].phase)
  /\ \A p, q \in Presentations, s \in Slots : Names(p, s) /\ Names(q, s) => p = q

\* The journal is never ahead of or behind the effects in a way that misleads:
\* no effect before its fence, none at all if the exec is known absent or the
\* reservation was rolled back, one session and one process at the most, and a
\* proof only of a provider that really ran.
EffectsAreFenced ==
  \A s \in Slots :
    /\ effects[s].sessions <= 1 /\ effects[s].processes <= 1
    /\ effects[s].sessions = 1 =>
         /\ row[s].provider = "opencode"
         /\ journal[s] \in {"effect_started", "exec_started", "exec_proven", "recovery", "committed"}
    /\ effects[s].processes = 1 => journal[s] \in {"exec_started", "exec_proven"}
    /\ journal[s] = "exec_proven" => effects[s].processes = 1

\* A Runtime row exists exactly while its operation owns or reserves it, and its
\* recorded process is the provider that ran.
RowAgrees ==
  \A s \in Slots :
    /\ row[s] = NoRow <=> journal[s] \in {"absent", "rolled_back"}
    /\ row[s].pid => effects[s].processes = 1
    /\ row[s].session => effects[s].sessions = 1

-----------------------------------------------------------------------------
(* What a promotion promises.                                              *)

Status(phase) ==
  CASE phase = "absent" -> "free"
    [] phase = "capability_issued" -> "reserved"
    [] phase = "rolled_back" -> "cancelled"
    [] phase = "exec_proven" -> "managed"
    [] phase \in {"known_absent", "recovery"} -> "failed"
    [] phase = "committed" -> "resolved"
    [] OTHER -> "owned"

Promise == INSTANCE PromotionPromise WITH
  Operations <- Slots,
  status <- [s \in Slots |-> Status(journal[s])],
  effects <- effects

\* The sequences of single writes implement the abstract promotion.
PromotionKept == Promise!Spec

-----------------------------------------------------------------------------
(* Liveness.                                                               *)

JobStep ==
  \/ WriteNewMarker \/ CreateDirectory \/ NewSession \/ RecordShellEvidence
  \/ \E provider \in Providers : ReserveOnboarding(provider)
  \/ IssueHandoff \/ DeliverCapability
  \/ ConsumeCapability \/ OwnMarker \/ PrepareProvider \/ FenceEffect
  \/ CreateSession \/ BindSession \/ RecordHandle \/ FenceExec \/ ExecProvider
  \/ RecordRecovery \/ RecordKnownAbsent
  \/ RecordProcess \/ SpawnObserver \/ AwaitObserver \/ FinalizeProof
  \/ CompleteMarker \/ RetireMarker
  \/ RepairMarker \/ CancelOnboarding \/ StopServer \/ RemoveArtifacts \/ UnmarkSlot

\* A holder of the lease goes on or returns its error, since all its waits have
\* deadlines.  Every presentation polls its reconciler for as long as it runs; a
\* poll may find the lease busy, or crash, any number of times but not for ever.
FairSpec ==
  /\ Spec
  /\ WF_vars(JobStep) /\ WF_vars(Refused /\ Abort)
  /\ \A p \in Presentations : SF_vars(BeginProve(p))
  /\ \A s \in Slots : SF_vars(job.slot = s /\ RecordProcess) /\ WF_vars(ObserverReady(s))

Running(s, provider) ==
  /\ journal[s] = "exec_started" /\ pane[s] = "provider" /\ row[s].provider = provider

Settled(s) == journal[s] = "exec_proven" \/ pane[s] # "provider"

\* A Codex provider that was executed is proven, unless it stops running, although
\* the reconciler may crash at every step.
CodexIsProven == \A s \in Slots : Running(s, "codex") ~> Settled(s)

\* The same for OpenCode, whose observer must come up first (design.md: "It records
\* Ready under the same exact identity, and only then does the reconciler commit
\* provider_exec_proven").
OpenCodeIsProven == \A s \in Slots : Running(s, "opencode") ~> Settled(s)

\* An exec that is known not to have happened does not stay fenced (design.md: "the
\* reconciler must atomically resolve it").
KnownAbsentIsResolved ==
  \A s \in Slots : journal[s] = "known_absent" ~> journal[s] # "known_absent"
=============================================================================
