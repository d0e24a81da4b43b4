-------------------------- MODULE OnboardingProofs --------------------------
(***************************************************************************)
(* What is proved of Onboarding, for any number of presentations and       *)
(* candidate Runtimes and under every failure.                             *)
(*                                                                         *)
(* The lease makes it possible: between two steps of its holder nobody     *)
(* else writes a marker or the journal, so the program counter of the      *)
(* holder says what both of them contain (JobAgrees).                      *)
(***************************************************************************)
EXTENDS Onboarding, TLAPS

\* What the marker of the lease's holder contains before its next step.
MarkerAt(pc) ==
  CASE pc = "mark" -> {"none"}
    [] pc \in {"create_dir", "new_session", "observe"} -> {"materializing"}
    [] pc \in {"reserve", "issue"} -> {"materialized"}
    [] pc \in {"deliver", "consume", "own", "repair"} -> {"handoff_issued"}
    [] pc \in {"cancel", "kill", "artifacts", "unmark"} -> Candidate
    [] pc = "retire" -> {"exec_proven"}
    [] OTHER -> {"runtime_owned"}

\* What the journal says of its slot before its next step.
JournalAt(pc) ==
  CASE pc \in {"mark", "create_dir", "new_session", "observe", "reserve"} -> {"absent"}
    [] pc \in {"issue", "deliver", "consume"} -> {"capability_issued"}
    [] pc \in {"own", "prepare"} -> {"runtime_owned"}
    [] pc = "effect" -> {"preparation"}
    [] pc \in {"post", "bind", "handle"} -> {"effect_started"}
    [] pc = "exec_fence" -> {"preparation", "effect_started"}
    [] pc = "give_up" -> {"preparation", "effect_started", "exec_started"}
    [] pc \in {"complete", "retire"} -> {"exec_proven"}
    [] pc = "repair" -> Consumed
    [] pc = "cancel" -> Phases
    [] pc \in {"kill", "artifacts", "unmark"} -> {"absent", "rolled_back"}
    [] OTHER -> {"exec_started"}

\* What really happened for its slot before its next step.
EffectsAt(pc, s) ==
  /\ pc \in {"effect", "post", "bind", "handle"} => row[s].provider = "opencode"
  /\ pc = "known_absent" => row[s].provider = "codex"
  /\ pc = "post" => effects[s].sessions = 0
  /\ pc = "bind" => effects[s].sessions = 1
  /\ pc \in {"exec", "known_absent", "give_up"} => effects[s].processes = 0
  /\ pc \in {"record", "spawn", "await", "finalize"} => effects[s].processes = 1
  /\ pc \in {"artifacts", "unmark"} => pane[s] = "none"
  /\ pc = "unmark" => ~dir[s]

JobAgrees ==
  \/ job = NoJob
  \/ /\ job.kind # "none" /\ job.pc # "none"
     /\ job.pres \in Presentations /\ job.slot \in Slots
     /\ marker[job.pres].phase \in MarkerAt(job.pc)
     /\ job.pc = "mark" => job.kind = "materialize"
     /\ job.pc # "mark" => marker[job.pres].slot = job.slot
     /\ journal[job.slot] \in JournalAt(job.pc)
     /\ EffectsAt(job.pc, job.slot)

\* A marker names a slot; no slot is named by two.
MarkersAreApart ==
  /\ \A p \in Presentations : marker[p].phase # "none" => marker[p].slot \in Slots
  /\ \A p, q \in Presentations, s \in Slots : Names(p, s) /\ Names(q, s) => p = q

\* One presentation at most has a slot that no managed Runtime owns, and none
\* has while a new one is about to be marked.
CandidateIsSole ==
  /\ \A p, q \in Presentations, s, t \in Slots :
       /\ Names(p, s) /\ journal[s] \in Unowned
       /\ Names(q, t) /\ journal[t] \in Unowned
       => p = q
  /\ job.pc = "mark" =>
       \A p \in Presentations, s \in Slots : Names(p, s) => journal[s] \notin Unowned

ProviderRan == \A s \in Slots : pane[s] = "provider" => effects[s].processes = 1

RowHasProvider == \A s \in Slots : row[s] = NoRow \/ row[s].provider \in Providers

IInv ==
  /\ TypeOK
  /\ JobAgrees
  /\ MarkersAreApart /\ CandidateIsSole /\ MarkerAgrees
  /\ NothingIsOrphaned
  /\ EffectsAreFenced /\ RowAgrees /\ RowHasProvider /\ ProviderRan

-----------------------------------------------------------------------------
(* Types.                                                                  *)

\* What the steps write into a Runtime row are rows.
LEMMA RowTyped ==
  ASSUME NEW r \in RowState
  PROVE  /\ [r EXCEPT !.session = TRUE] \in RowState
         /\ [r EXCEPT !.pid = TRUE] \in RowState
         /\ \A h \in {"none", "starting", "spawned", "ready", "unknown"} :
              [r EXCEPT !.handle = h] \in RowState
         /\ \A life \in {"active", "stopped", "archived"} : [r EXCEPT !.life = life] \in RowState
         /\ [r EXCEPT !.life = "stopped", !.handle = "none"] \in RowState
         /\ NoRow \in RowState
         /\ \A provider \in Providers :
              [NoRow EXCEPT !.life = "starting", !.provider = provider] \in RowState
BY DEF RowState, Providers, NoRow

\* One more effect is still a count.
LEMMA EffectsTyped ==
  ASSUME NEW e \in [sessions : Nat, processes : Nat]
  PROVE  /\ [e EXCEPT !.sessions = @ + 1] \in [sessions : Nat, processes : Nat]
         /\ [e EXCEPT !.processes = @ + 1] \in [sessions : Nat, processes : Nat]
OBVIOUS

\* The type of job and of a marker.
JobType == [kind : Kinds, pres : Presentations \union {Nil}, slot : Slots \union {Nil}, pc : Steps]
MarkerType == [phase : Markers, slot : Slots \union {Nil}]

\* The holder of the lease moves among its steps.
LEMMA JobTyped ==
  ASSUME job \in JobType
  PROVE  /\ \A pc \in Steps : [job EXCEPT !.pc = pc] \in JobType
         /\ NoJob \in JobType
<1>1. ASSUME NEW pc \in Steps PROVE [job EXCEPT !.pc = pc] \in JobType
  BY DEF JobType
<1>2. NoJob \in JobType
  BY DEF JobType, NoJob, Kinds, Steps
<1> QED BY <1>1, <1>2

\* Every step keeps the types (TypeOK).
LEMMA TypeStep ==
  ASSUME TypeOK, JobAgrees, [Next]_vars
  PROVE  TypeOK'
<1> USE DEF JobType, MarkerType
<1>0. job \in JobType /\ (~Idle \/ job.pc # "none" => job.slot \in Slots /\ job.pres \in Presentations)
  BY DEF TypeOK, JobAgrees, Idle, NoJob
<1>1. /\ row \in [Slots -> RowState] /\ journal \in [Slots -> Phases]
      /\ marker \in [Presentations -> MarkerType] /\ pane \in [Slots -> PaneState]
      /\ effects \in [Slots -> [sessions : Nat, processes : Nat]] /\ dir \in [Slots -> BOOLEAN]
  BY DEF TypeOK
<1>2. \A p \in Presentations : marker[p].slot \in Slots \union {Nil}
  BY <1>1
<1>3. CASE Materialize
  <2>1. ASSUME NEW p \in Presentations, NEW s \in Slots, BeginMaterialize(p, s) PROVE TypeOK'
    BY <2>1, <1>0, <1>1, <1>2 DEF BeginMaterialize, Acquire, TypeOK, Kinds, Steps
  <2>2. CASE WriteNewMarker
    BY <2>2, <1>0, <1>1, JobTyped DEF WriteNewMarker, SetMarker, Markers, Candidate, TypeOK, At, Idle, Goto, Steps
  <2>3. CASE CreateDirectory
    BY <2>3, <1>0, <1>1, JobTyped DEF CreateDirectory, Slot, TypeOK, At, Idle, Goto, Steps
  <2>4. CASE NewSession
    BY <2>4, <1>0, <1>1, JobTyped DEF NewSession, SetPane, Slot, PaneState, TypeOK, At, Idle, Goto, Steps
  <2>5. CASE RecordShellEvidence
    BY <2>5, <1>0, <1>1, JobTyped DEF RecordShellEvidence, SetMarker, Markers, Candidate, TypeOK, At, Idle, Release
  <2> QED BY <1>3, <2>1, <2>2, <2>3, <2>4, <2>5 DEF Materialize
<1>4. CASE Gate
  <2>1. ASSUME NEW p \in Presentations, BeginGate(p) PROVE TypeOK'
    BY <2>1, <1>0, <1>1, <1>2 DEF BeginGate, Acquire, TypeOK, Kinds, Steps
  <2>2. ASSUME NEW provider \in Providers, ReserveOnboarding(provider) PROVE TypeOK'
    <3>1. Slot \in Slots
      BY <2>2, <1>0 DEF ReserveOnboarding, At, Idle, Slot
    <3> DEFINE next == [NoRow EXCEPT !.life = "starting", !.provider = provider]
    <3>2. next \in RowState
      BY <3>1, <1>1, RowTyped DEF RowState, NoRow, Providers
    <3>3. row' = [row EXCEPT ![Slot] = next]
      BY <2>2 DEF ReserveOnboarding
    <3> HIDE DEF next
    <3> QED BY <3>1, <3>2, <3>3, <2>2, <1>0, <1>1, JobTyped DEF ReserveOnboarding, Slot, Phases, Consumed, Fenced, TypeOK, At, Idle, Goto, Steps
  <2>3. CASE IssueHandoff
    BY <2>3, <1>0, <1>1, JobTyped DEF IssueHandoff, SetMarker, Markers, Candidate, TypeOK, At, Idle, Goto, Steps
  <2>4. CASE DeliverCapability
    BY <2>4, <1>0, <1>1, JobTyped DEF DeliverCapability, SetPane, Slot, PaneState, TypeOK, At, Idle, Release
  <2> QED BY <1>4, <2>1, <2>2, <2>3, <2>4 DEF Gate
<1>5. CASE Helper
  <2>1. ASSUME NEW p \in Presentations, BeginHelper(p) PROVE TypeOK'
    BY <2>1, <1>0, <1>1, <1>2 DEF BeginHelper, Acquire, TypeOK, Kinds, Steps
  <2>2. CASE ConsumeCapability
    BY <2>2, <1>0, <1>1, JobTyped DEF ConsumeCapability, HelperFence, Advance, Slot, Phases, Consumed, Fenced, TypeOK, At, Idle, Goto, Steps
  <2>3. CASE OwnMarker
    BY <2>3, <1>0, <1>1, JobTyped DEF OwnMarker, SetMarker, Markers, Candidate, TypeOK, At, Idle, Goto, Steps
  <2>4. CASE PrepareProvider
    BY <2>4, <1>0, <1>1, JobTyped DEF PrepareProvider, HelperFence, Advance, Slot, Phases, Consumed, Fenced, TypeOK, At, Idle, Goto, Steps, IsCodex
  <2>5. CASE FenceEffect
    BY <2>5, <1>0, <1>1, JobTyped DEF FenceEffect, HelperFence, Advance, Slot, Phases, Consumed, Fenced, TypeOK, At, Idle, Goto, Steps
  <2>6. CASE CreateSession
    <3>1. Slot \in Slots /\ effects[Slot] \in [sessions : Nat, processes : Nat]
      BY <2>6, <1>0, <1>1 DEF CreateSession, At, Idle, Slot
    <3>2. effects' \in [Slots -> [sessions : Nat, processes : Nat]]
      BY <2>6, <3>1, <1>1, EffectsTyped DEF CreateSession
    <3> QED BY <3>1, <3>2, <2>6, <1>0, <1>1, JobTyped DEF CreateSession, Slot, TypeOK, At, Idle, Goto, Steps
  <2>7. CASE BindSession
    <3>1. Slot \in Slots
      BY <2>7, <1>0 DEF BindSession, At, Idle, Slot
    <3> DEFINE next == [row[Slot] EXCEPT !.session = TRUE]
    <3>2. next \in RowState
      BY <3>1, <1>1, RowTyped
    <3>3. row' = [row EXCEPT ![Slot] = next]
      BY <2>7 DEF BindSession
    <3> HIDE DEF next
    <3> QED BY <3>1, <3>2, <3>3, <2>7, <1>0, <1>1, JobTyped DEF BindSession, Slot, TypeOK, At, Idle, Goto, Steps
  <2>8. CASE RecordHandle
    <3>1. Slot \in Slots
      BY <2>8, <1>0 DEF RecordHandle, At, Idle, Slot
    <3> DEFINE next == [row[Slot] EXCEPT !.handle = "starting"]
    <3>2. next \in RowState
      BY <3>1, <1>1, RowTyped
    <3>3. row' = [row EXCEPT ![Slot] = next]
      BY <2>8 DEF RecordHandle
    <3> HIDE DEF next
    <3> QED BY <3>1, <3>2, <3>3, <2>8, <1>0, <1>1, JobTyped DEF RecordHandle, Slot, TypeOK, At, Idle, Goto, Steps
  <2>9. CASE FenceExec
    BY <2>9, <1>0, <1>1, JobTyped DEF FenceExec, HelperFence, Advance, Slot, Phases, Consumed, Fenced, TypeOK, At, Idle, Goto, Steps
  <2>10. CASE ExecProvider
    <3>1. Slot \in Slots /\ effects[Slot] \in [sessions : Nat, processes : Nat]
      BY <2>10, <1>0, <1>1 DEF ExecProvider, At, Idle, Slot
    <3>2. effects' \in [Slots -> [sessions : Nat, processes : Nat]]
      BY <2>10, <3>1, <1>1, EffectsTyped DEF ExecProvider
    <3> QED BY <3>1, <3>2, <2>10, <1>0, <1>1, JobTyped DEF ExecProvider, SetPane, Slot, PaneState, TypeOK, At, Idle, Release
  <2>11. CASE PostFails
    <3>1. Slot \in Slots /\ effects[Slot] \in [sessions : Nat, processes : Nat]
      BY <2>11, <1>0, <1>1 DEF PostFails, At, Idle, Slot
    <3>2. effects' \in [Slots -> [sessions : Nat, processes : Nat]]
      BY <2>11, <3>1, <1>1, EffectsTyped DEF PostFails
    <3> QED BY <3>1, <3>2, <2>11, <1>0, <1>1, JobTyped DEF PostFails, Slot, TypeOK, At, Idle, Goto, Steps
  <2>12. CASE StepFails
    BY <2>12, <1>0, <1>1, JobTyped DEF StepFails, TypeOK, At, Idle, Goto, Steps
  <2>13. CASE ExecFails
    BY <2>13, <1>0, <1>1, JobTyped DEF ExecFails, TypeOK, At, Idle, Goto, Steps, IsCodex
  <2>14. CASE RecordRecovery
    BY <2>14, <1>0, <1>1, JobTyped DEF RecordRecovery, HelperEnds, Advance, SetPane, Slot, PaneState, Phases, Consumed, Fenced, TypeOK, At, Idle, Release
  <2>15. CASE RecordKnownAbsent
    BY <2>15, <1>0, <1>1, JobTyped DEF RecordKnownAbsent, HelperEnds, Advance, SetPane, Slot, PaneState, Phases, Consumed, Fenced, TypeOK, At, Idle, Release
  <2>16. CASE HelperDies
    BY <2>16, <1>0, <1>1, JobTyped DEF HelperDies, SetPane, Slot, PaneState, TypeOK, At, Idle, Release
  <2>17. ASSUME NEW s \in Slots, HelperRefused(s) PROVE TypeOK'
    BY <2>17, <1>0, <1>1 DEF HelperRefused, PaneState, TypeOK
  <2> QED BY <1>5, <2>1, <2>2, <2>3, <2>4, <2>5, <2>6, <2>7, <2>8, <2>9, <2>10, <2>11, <2>12, <2>13, <2>14, <2>15, <2>16, <2>17 DEF Helper
<1>6. CASE Prove
  <2>1. ASSUME NEW p \in Presentations, BeginProve(p) PROVE TypeOK'
    BY <2>1, <1>0, <1>1, <1>2 DEF BeginProve, Acquire, TypeOK, Kinds, Steps
  <2>2. ASSUME NEW p \in Presentations, BeginComplete(p) PROVE TypeOK'
    BY <2>2, <1>0, <1>1, <1>2 DEF BeginComplete, Acquire, TypeOK, Kinds, Steps
  <2>3. ASSUME NEW p \in Presentations, BeginRetire(p) PROVE TypeOK'
    BY <2>3, <1>0, <1>1, <1>2 DEF BeginRetire, Acquire, TypeOK, Kinds, Steps
  <2>4. CASE RecordProcess
    <3>1. Slot \in Slots
      BY <2>4, <1>0 DEF RecordProcess, At, Idle, Slot
    <3> DEFINE next == [row[Slot] EXCEPT !.pid = TRUE]
    <3>2. next \in RowState
      BY <3>1, <1>1, RowTyped
    <3>3. row' = [row EXCEPT ![Slot] = next]
      BY <2>4 DEF RecordProcess
    <3> HIDE DEF next
    <3>4. journal' \in [Slots -> Phases]
      BY <2>4, <3>1, <1>1 DEF RecordProcess, Advance, Slot, Phases, Consumed
    <3>5. job' \in JobType
      BY <2>4, <1>0, JobTyped DEF RecordProcess, Goto, Steps
    <3> QED BY <3>1, <3>2, <3>3, <3>4, <3>5, <2>4, <1>1 DEF RecordProcess, TypeOK
  <2>5. CASE SpawnObserver
    <3>1. Slot \in Slots
      BY <2>5, <1>0 DEF SpawnObserver, At, Idle, Slot
    <3> DEFINE next == [row[Slot] EXCEPT !.handle = "spawned"]
    <3>2. next \in RowState
      BY <3>1, <1>1, RowTyped
    <3>3. row' = [row EXCEPT ![Slot] = next]
      BY <2>5 DEF SpawnObserver
    <3> HIDE DEF next
    <3> QED BY <3>1, <3>2, <3>3, <2>5, <1>0, <1>1, JobTyped DEF SpawnObserver, Slot, TypeOK, At, Idle, Goto, Steps
  <2>6. CASE AwaitObserver
    BY <2>6, <1>0, <1>1, JobTyped DEF AwaitObserver, TypeOK, At, Idle, Goto, Steps
  <2>7. CASE FinalizeProof
    BY <2>7, <1>0, <1>1, JobTyped DEF FinalizeProof, Slot, Advance, Phases, Consumed, Fenced, TypeOK, At, Idle, Goto, Steps
  <2>8. CASE CompleteMarker
    BY <2>8, <1>0, <1>1, JobTyped DEF CompleteMarker, SetMarker, Markers, Candidate, TypeOK, At, Idle, Goto, Steps
  <2>9. CASE RetireMarker
    BY <2>9, <1>0, <1>1, JobTyped DEF RetireMarker, RemoveMarker, NoMarker, Markers, TypeOK, At, Idle, Release
  <2> QED BY <1>6, <2>1, <2>2, <2>3, <2>4, <2>5, <2>6, <2>7, <2>8, <2>9 DEF Prove
<1>7. CASE Reconcile
  <2>1. ASSUME NEW p \in Presentations, BeginRepair(p) PROVE TypeOK'
    BY <2>1, <1>0, <1>1, <1>2 DEF BeginRepair, Acquire, TypeOK, Kinds, Steps
  <2>2. ASSUME NEW p \in Presentations, BeginReconcile(p) PROVE TypeOK'
    BY <2>2, <1>0, <1>1, <1>2 DEF BeginReconcile, Acquire, TypeOK, Kinds, Steps
  <2>3. ASSUME NEW p \in Presentations, BeginClose(p) PROVE TypeOK'
    BY <2>3, <1>0, <1>1, <1>2 DEF BeginClose, Acquire, TypeOK, Kinds, Steps
  <2>4. CASE RepairMarker
    BY <2>4, <1>0, <1>1, JobTyped DEF RepairMarker, SetMarker, Markers, Candidate, TypeOK, At, Idle, Release
  <2>5. CASE CancelOnboarding
    <3>1. Slot \in Slots
      BY <2>5, <1>0 DEF CancelOnboarding, At, Idle, Slot
    <3> DEFINE next == NoRow
    <3>2. next \in RowState
      BY <3>1, <1>1, RowTyped DEF RowState, NoRow, Providers
    <3>3. row' = [row EXCEPT ![Slot] = next]
      BY <2>5 DEF CancelOnboarding
    <3> HIDE DEF next
    <3>4. journal' \in [Slots -> Phases]
      BY <2>5, <3>1, <1>1 DEF CancelOnboarding, Slot, Phases
    <3>5. job' \in JobType
      BY <2>5, <1>0, JobTyped DEF CancelOnboarding, Goto, Steps
    <3> QED BY <3>1, <3>2, <3>3, <3>4, <3>5, <2>5, <1>1 DEF CancelOnboarding, TypeOK
  <2>6. CASE StopServer
    BY <2>6, <1>0, <1>1, JobTyped DEF StopServer, SetPane, Slot, PaneState, TypeOK, At, Idle, Goto, Steps
  <2>7. CASE RemoveArtifacts
    BY <2>7, <1>0, <1>1, JobTyped DEF RemoveArtifacts, Slot, TypeOK, At, Idle, Goto, Steps
  <2>8. CASE UnmarkSlot
    BY <2>8, <1>0, <1>1, JobTyped DEF UnmarkSlot, RemoveMarker, NoMarker, Markers, TypeOK, At, Idle, Release
  <2> QED BY <1>7, <2>1, <2>2, <2>3, <2>4, <2>5, <2>6, <2>7, <2>8 DEF Reconcile
<1>8. CASE Runtime
  <2>1. ASSUME NEW s \in Slots, ObserverReady(s) PROVE TypeOK'
    <3>1. s \in Slots
      BY <2>1, <1>0 DEF ObserverReady, At, Idle, Slot
    <3> DEFINE next == [row[s] EXCEPT !.handle = "ready"]
    <3>2. next \in RowState
      BY <3>1, <1>1, RowTyped
    <3>3. row' = [row EXCEPT ![s] = next]
      BY <2>1 DEF ObserverReady
    <3> HIDE DEF next
    <3> QED BY <3>1, <3>2, <3>3, <2>1, <1>0, <1>1 DEF ObserverReady, TypeOK
  <2>2. ASSUME NEW s \in Slots, ObserverFails(s) PROVE TypeOK'
    <3>1. s \in Slots
      BY <2>2, <1>0 DEF ObserverFails, At, Idle, Slot
    <3> DEFINE next == [row[s] EXCEPT !.handle = "unknown"]
    <3>2. next \in RowState
      BY <3>1, <1>1, RowTyped
    <3>3. row' = [row EXCEPT ![s] = next]
      BY <2>2 DEF ObserverFails
    <3> HIDE DEF next
    <3> QED BY <3>1, <3>2, <3>3, <2>2, <1>0, <1>1 DEF ObserverFails, TypeOK
  <2>3. ASSUME NEW s \in Slots, Observed(s) PROVE TypeOK'
    <3>1. s \in Slots
      BY <2>3, <1>0 DEF Observed, At, Idle, Slot
    <3> DEFINE next == [row[s] EXCEPT !.life = "active"]
    <3>2. next \in RowState
      BY <3>1, <1>1, RowTyped
    <3>3. row' = [row EXCEPT ![s] = next]
      BY <2>3 DEF Observed
    <3> HIDE DEF next
    <3> QED BY <3>1, <3>2, <3>3, <2>3, <1>0, <1>1 DEF Observed, TypeOK
  <2>4. ASSUME NEW s \in Slots, Park(s) PROVE TypeOK'
    <3>1. s \in Slots
      BY <2>4, <1>0 DEF Park, At, Idle, Slot
    <3> DEFINE next == [row[s] EXCEPT !.life = "stopped", !.handle = "none"]
    <3>2. next \in RowState
      BY <3>1, <1>1, RowTyped
    <3>3. row' = [row EXCEPT ![s] = next]
      BY <2>4 DEF Park
    <3> HIDE DEF next
    <3> QED BY <3>1, <3>2, <3>3, <2>4, <1>0, <1>1 DEF Park, PaneState, TypeOK
  <2>5. ASSUME NEW s \in Slots, ResolveParked(s) PROVE TypeOK'
    BY <2>5, <1>0, <1>1 DEF ResolveParked, Phases, Consumed, Fenced, TypeOK
  <2>6. ASSUME NEW s \in Slots, Archive(s) PROVE TypeOK'
    <3>1. s \in Slots
      BY <2>6, <1>0 DEF Archive, At, Idle, Slot
    <3> DEFINE next == [row[s] EXCEPT !.life = "archived"]
    <3>2. next \in RowState
      BY <3>1, <1>1, RowTyped
    <3>3. row' = [row EXCEPT ![s] = next]
      BY <2>6 DEF Archive
    <3> HIDE DEF next
    <3> QED BY <3>1, <3>2, <3>3, <2>6, <1>0, <1>1 DEF Archive, TypeOK
  <2> QED BY <1>8, <2>1, <2>2, <2>3, <2>4, <2>5, <2>6 DEF Runtime
<1>9. CASE Failure
  <2>1. CASE Abort
    BY <2>1, <1>0, <1>1, JobTyped DEF Abort, TypeOK, At, Idle, Release
  <2>2. CASE TearMarker
    BY <2>2, <1>0, <1>1, JobTyped DEF TearMarker, SetMarker, Markers, Candidate, Slot, PaneState, TypeOK, At, Idle, Release
  <2>3. ASSUME NEW s \in Slots, ShellExits(s) PROVE TypeOK'
    BY <2>3, <1>0, <1>1 DEF ShellExits, PaneState, TypeOK
  <2>4. ASSUME NEW s \in Slots, ProviderExits(s) PROVE TypeOK'
    BY <2>4, <1>0, <1>1 DEF ProviderExits, PaneState, TypeOK
  <2>5. ASSUME NEW s \in Slots, ServerLost(s) PROVE TypeOK'
    BY <2>5, <1>0, <1>1 DEF ServerLost, PaneState, TypeOK
  <2> QED BY <1>9, <2>1, <2>2, <2>3, <2>4, <2>5 DEF Failure
<1>10. CASE UNCHANGED vars
  BY <1>10 DEF vars, TypeOK
<1> QED BY <1>3, <1>4, <1>5, <1>6, <1>7, <1>8, <1>9, <1>10 DEF Next

-----------------------------------------------------------------------------
(* The lease: what its holder relies on stays true until its next step.    *)

\* Steps outside the lease touch nothing that the holder relies on.
LEMMA JobFrame ==
  ASSUME JobAgrees, UNCHANGED <<marker, journal, effects, job>>,
         \A s \in Slots : row'[s].provider = row[s].provider,
         \A s \in Slots : pane[s] = "none" => pane'[s] = "none",
         \A s \in Slots : dir'[s] => dir[s]
  PROVE  JobAgrees'
BY DEF JobAgrees, EffectsAt

\* What a step of the lease's holder may rely on.
LEMMA JobHeld ==
  ASSUME JobAgrees, TypeOK, ~Idle \/ job.pc # "none"
  PROVE  /\ job.kind # "none" /\ job.pc # "none"
         /\ job.pres \in Presentations /\ job.slot \in Slots
         /\ marker[job.pres].phase \in MarkerAt(job.pc)
         /\ job.pc = "mark" => job.kind = "materialize"
         /\ job.pc # "mark" => marker[job.pres].slot = job.slot
         /\ journal[job.slot] \in JournalAt(job.pc)
         /\ EffectsAt(job.pc, job.slot)
BY DEF JobAgrees, Idle, NoJob

\* The holder goes on: what its next step relies on holds when it gets there.
LEMMA JobGoesOn ==
  ASSUME TypeOK, JobAgrees, NEW pc \in Steps \ {"none", "mark"}, job.pc # "none",
         job' = [job EXCEPT !.pc = pc],
         marker'[job.pres].slot = job.slot, marker'[job.pres].phase \in MarkerAt(pc),
         journal'[job.slot] \in JournalAt(pc),
         EffectsAt(pc, job.slot)'
  PROVE  JobAgrees'
<1>1. /\ job'.pc = pc /\ job'.kind = job.kind /\ job'.pres = job.pres /\ job'.slot = job.slot
  BY DEF TypeOK
<1>2. job.kind # "none" /\ job.pres \in Presentations /\ job.slot \in Slots
  BY JobHeld
<1> QED BY <1>1, <1>2 DEF JobAgrees

\* Nothing has happened yet for a journal that is not past its fence.
LEMMA NotYet ==
  ASSUME TypeOK, EffectsAreFenced, NEW s \in Slots
  PROVE  /\ effects[s].sessions \in {0, 1} /\ effects[s].processes \in {0, 1}
         /\ journal[s] \notin {"exec_started", "exec_proven"} => effects[s].processes = 0
         /\ journal[s] \notin {"effect_started", "exec_started", "exec_proven", "recovery", "committed"}
              => effects[s].sessions = 0
<1>1. effects[s].sessions \in Nat /\ effects[s].processes \in Nat
  BY DEF TypeOK
<1> QED BY <1>1 DEF EffectsAreFenced

\* Every step keeps JobAgrees: the holder by what it writes before it goes on,
\* everybody else because the lease keeps them out.
LEMMA JobAgreesStep ==
  ASSUME TypeOK, JobAgrees, MarkersAreApart, MarkerAgrees, EffectsAreFenced, RowAgrees,
         RowHasProvider, ProviderRan, [Next]_vars
  PROVE  JobAgrees'
<1> USE DEF JobType, MarkerType
<1>0. /\ job \in JobType
      /\ row \in [Slots -> RowState] /\ journal \in [Slots -> Phases]
      /\ marker \in [Presentations -> MarkerType] /\ pane \in [Slots -> PaneState]
      /\ effects \in [Slots -> [sessions : Nat, processes : Nat]] /\ dir \in [Slots -> BOOLEAN]
  BY DEF TypeOK
<1>1. CASE job' = NoJob
  BY <1>1 DEF JobAgrees
<1>2. CASE Materialize
  <2>1. ASSUME NEW p \in Presentations, NEW s \in Slots, BeginMaterialize(p, s) PROVE JobAgrees'
    BY <2>1, <1>0 DEF BeginMaterialize, Acquire, JobAgrees, MarkerAt, JournalAt, EffectsAt, NoMarker
  <2>2. CASE WriteNewMarker
    BY <2>2, <1>0, JobHeld DEF WriteNewMarker, JobAgrees, MarkerAt, JournalAt, EffectsAt, At, Idle, Goto, SetMarker
  <2>3. CASE CreateDirectory
    BY <2>3, <1>0, JobHeld DEF CreateDirectory, JobAgrees, MarkerAt, JournalAt, EffectsAt, At, Idle, Goto, Slot
  <2>4. CASE NewSession
    BY <2>4, <1>0, JobHeld DEF NewSession, JobAgrees, MarkerAt, JournalAt, EffectsAt, At, Idle, Goto, SetPane, Slot
  <2>5. CASE RecordShellEvidence
    BY <2>5, <1>1 DEF RecordShellEvidence, Release
  <2> QED BY <1>2, <2>1, <2>2, <2>3, <2>4, <2>5 DEF Materialize
<1>3. CASE Gate
  <2>1. ASSUME NEW p \in Presentations, BeginGate(p) PROVE JobAgrees'
    BY <2>1, <1>0 DEF BeginGate, Acquire, JobAgrees, MarkerAt, JournalAt, EffectsAt, MarkersAreApart
  <2>2. ASSUME NEW provider \in Providers, ReserveOnboarding(provider) PROVE JobAgrees'
    BY <2>2, <1>0, JobHeld DEF ReserveOnboarding, JobAgrees, MarkerAt, JournalAt, EffectsAt, At, Idle, Goto, Slot
  <2>3. CASE IssueHandoff
    BY <2>3, <1>0, JobHeld DEF IssueHandoff, JobAgrees, MarkerAt, JournalAt, EffectsAt, At, Idle, Goto, SetMarker
  <2>4. CASE DeliverCapability
    BY <2>4, <1>1 DEF DeliverCapability, Release
  <2> QED BY <1>3, <2>1, <2>2, <2>3, <2>4 DEF Gate
<1>4. CASE Helper
  <2>1. ASSUME NEW p \in Presentations, BeginHelper(p) PROVE JobAgrees'
    BY <2>1, <1>0 DEF BeginHelper, Acquire, JobAgrees, MarkerAt, JournalAt, EffectsAt, MarkersAreApart
  <2>2. CASE ConsumeCapability
    BY <2>2, <1>0, JobHeld DEF ConsumeCapability, JobAgrees, MarkerAt, JournalAt, EffectsAt, At, Idle, Goto, HelperFence, Advance, Slot
  <2>3. CASE OwnMarker
    BY <2>3, <1>0, JobHeld DEF OwnMarker, JobAgrees, MarkerAt, JournalAt, EffectsAt, At, Idle, Goto, SetMarker
  <2>4. CASE PrepareProvider
    <3>1. /\ Slot \in Slots /\ job.pc = "prepare" /\ journal[Slot] = "runtime_owned"
          /\ marker[job.pres].phase = "runtime_owned" /\ marker[job.pres].slot = Slot
      BY <2>4, JobHeld DEF PrepareProvider, HelperFence, At, Idle, Slot, MarkerAt, JournalAt
    <3>2. /\ journal' = [journal EXCEPT ![Slot] = "preparation"]
          /\ job' = [job EXCEPT !.pc = IF IsCodex THEN "exec_fence" ELSE "effect"]
          /\ UNCHANGED <<marker, row, pane, dir, effects>>
      BY <2>4 DEF PrepareProvider, HelperFence, Advance, Goto
    <3>3. row[Slot].provider \in Providers
      BY <3>1 DEF RowAgrees, RowHasProvider
    <3>4. CASE IsCodex
      BY <3>1, <3>2, <3>4, <1>0, JobGoesOn DEF MarkerAt, JournalAt, EffectsAt, Slot, Steps
    <3>5. CASE ~IsCodex
      <4>1. row[Slot].provider = "opencode"
        BY <3>3, <3>5 DEF Providers, IsCodex
      <4> QED BY <4>1, <3>1, <3>2, <3>5, <1>0, JobGoesOn DEF MarkerAt, JournalAt, EffectsAt, Slot, Steps
    <3> QED BY <3>4, <3>5
  <2>5. CASE FenceEffect
    <3>1. /\ Slot \in Slots /\ job.pc = "effect" /\ journal[Slot] = "preparation"
          /\ marker[job.pres].phase = "runtime_owned" /\ marker[job.pres].slot = Slot
          /\ row[Slot].provider = "opencode"
      BY <2>5, JobHeld DEF FenceEffect, HelperFence, At, Idle, Slot, MarkerAt, JournalAt, EffectsAt
    <3>2. /\ journal' = [journal EXCEPT ![Slot] = "effect_started"]
          /\ job' = [job EXCEPT !.pc = "post"]
          /\ UNCHANGED <<marker, row, pane, dir, effects>>
      BY <2>5 DEF FenceEffect, HelperFence, Advance, Goto
    <3>3. effects[Slot].sessions = 0
      BY <3>1, NotYet
    <3> QED BY <3>1, <3>2, <3>3, <1>0, JobGoesOn DEF MarkerAt, JournalAt, EffectsAt, Slot, Steps
  <2>6. CASE CreateSession
    BY <2>6, <1>0, JobHeld DEF CreateSession, JobAgrees, MarkerAt, JournalAt, EffectsAt, At, Idle, Goto, Slot
  <2>7. CASE BindSession
    BY <2>7, <1>0, JobHeld DEF BindSession, JobAgrees, MarkerAt, JournalAt, EffectsAt, At, Idle, Goto, Slot
  <2>8. CASE RecordHandle
    BY <2>8, <1>0, JobHeld DEF RecordHandle, JobAgrees, MarkerAt, JournalAt, EffectsAt, At, Idle, Goto, Slot
  <2>9. CASE FenceExec
    BY <2>9, <1>0, JobHeld DEF FenceExec, JobAgrees, MarkerAt, JournalAt, EffectsAt, At, Idle, Goto, HelperFence, Advance, Slot, EffectsAreFenced
  <2>10. CASE ExecProvider
    BY <2>10, <1>1 DEF ExecProvider, Release
  <2>11. CASE PostFails
    <3>1. /\ Slot \in Slots /\ job.pc = "post" /\ journal[Slot] = "effect_started"
          /\ effects[Slot].processes = 0
      BY <2>11, <1>0, JobHeld, NotYet DEF PostFails, At, Idle, Slot, JournalAt
    <3>2. UNCHANGED <<marker, journal, row, pane, dir>> /\ job' = [job EXCEPT !.pc = "give_up"]
      BY <2>11 DEF PostFails, Goto
    <3>3. effects'[Slot].processes = 0
      BY <2>11, <3>1, <1>0 DEF PostFails
    <3>4. marker[job.pres].phase = "runtime_owned" /\ marker[job.pres].slot = Slot
      BY <3>1, JobHeld DEF MarkerAt, Slot
    <3> QED BY <3>1, <3>2, <3>3, <3>4, JobGoesOn DEF MarkerAt, JournalAt, EffectsAt, Slot, Steps
  <2>12. CASE StepFails
    <3>1. job.kind = "helper" /\ job.pc \in {"effect", "bind", "handle", "exec_fence"}
      BY <2>12 DEF StepFails
    <3>2. /\ Slot \in Slots /\ journal[Slot] \in {"preparation", "effect_started"}
          /\ marker[job.pres].phase = "runtime_owned" /\ marker[job.pres].slot = Slot
      BY <3>1, JobHeld DEF Idle, Slot, JournalAt, MarkerAt
    <3>3. effects[Slot].processes = 0
      BY <3>2, NotYet
    <3>4. job' = [job EXCEPT !.pc = "give_up"] /\ UNCHANGED <<marker, journal, row, pane, dir, effects>>
      BY <2>12 DEF StepFails, Goto
    <3> QED BY <3>1, <3>2, <3>3, <3>4, JobGoesOn DEF MarkerAt, JournalAt, EffectsAt, Slot, Steps
  <2>13. CASE ExecFails
    BY <2>13, <1>0, JobHeld DEF ExecFails, JobAgrees, MarkerAt, JournalAt, EffectsAt, At, Idle, Goto, Slot, IsCodex
  <2>14. CASE RecordRecovery
    BY <2>14, <1>1 DEF RecordRecovery, Release, HelperEnds
  <2>15. CASE RecordKnownAbsent
    BY <2>15, <1>1 DEF RecordKnownAbsent, Release, HelperEnds
  <2>16. CASE HelperDies
    BY <2>16, <1>1 DEF HelperDies, Release
  <2>17. ASSUME NEW s \in Slots, HelperRefused(s) PROVE JobAgrees'
    BY <2>17, <1>0, JobFrame DEF HelperRefused, RowState
  <2> QED BY <1>4, <2>1, <2>2, <2>3, <2>4, <2>5, <2>6, <2>7, <2>8, <2>9, <2>10, <2>11, <2>12, <2>13, <2>14, <2>15, <2>16, <2>17 DEF Helper
<1>5. CASE Prove
  <2>1. ASSUME NEW p \in Presentations, BeginProve(p) PROVE JobAgrees'
    BY <2>1, <1>0 DEF BeginProve, Acquire, JobAgrees, MarkerAt, JournalAt, EffectsAt, MarkersAreApart, ProviderRan, Provable
  <2>2. ASSUME NEW p \in Presentations, BeginComplete(p) PROVE JobAgrees'
    BY <2>2, <1>0 DEF BeginComplete, Acquire, JobAgrees, MarkerAt, JournalAt, EffectsAt, MarkersAreApart
  <2>3. ASSUME NEW p \in Presentations, BeginRetire(p) PROVE JobAgrees'
    BY <2>3, <1>0 DEF BeginRetire, Acquire, JobAgrees, MarkerAt, JournalAt, EffectsAt, MarkersAreApart, MarkerAgrees, MayStandBeside
  <2>4. CASE RecordProcess
    BY <2>4, <1>0, JobHeld DEF RecordProcess, JobAgrees, MarkerAt, JournalAt, EffectsAt, At, Idle, Goto, Slot, Advance
  <2>5. CASE SpawnObserver
    BY <2>5, <1>0, JobHeld DEF SpawnObserver, JobAgrees, MarkerAt, JournalAt, EffectsAt, At, Idle, Goto, Slot
  <2>6. CASE AwaitObserver
    BY <2>6, <1>0, JobHeld DEF AwaitObserver, JobAgrees, MarkerAt, JournalAt, EffectsAt, At, Idle, Goto, Slot
  <2>7. CASE FinalizeProof
    BY <2>7, <1>0, JobHeld DEF FinalizeProof, JobAgrees, MarkerAt, JournalAt, EffectsAt, At, Idle, Goto, Slot, Advance
  <2>8. CASE CompleteMarker
    BY <2>8, <1>0, JobHeld DEF CompleteMarker, JobAgrees, MarkerAt, JournalAt, EffectsAt, At, Idle, Goto, SetMarker
  <2>9. CASE RetireMarker
    BY <2>9, <1>1 DEF RetireMarker, Release
  <2> QED BY <1>5, <2>1, <2>2, <2>3, <2>4, <2>5, <2>6, <2>7, <2>8, <2>9 DEF Prove
<1>6. CASE Reconcile
  <2>1. ASSUME NEW p \in Presentations, BeginRepair(p) PROVE JobAgrees'
    BY <2>1, <1>0 DEF BeginRepair, Acquire, JobAgrees, MarkerAt, JournalAt, EffectsAt, MarkersAreApart
  <2>2. ASSUME NEW p \in Presentations, BeginReconcile(p) PROVE JobAgrees'
    BY <2>2, <1>0 DEF BeginReconcile, Acquire, JobAgrees, MarkerAt, JournalAt, EffectsAt, MarkersAreApart, Candidate
  <2>3. ASSUME NEW p \in Presentations, BeginClose(p) PROVE JobAgrees'
    BY <2>3, <1>0 DEF BeginClose, Acquire, JobAgrees, MarkerAt, JournalAt, EffectsAt, MarkersAreApart, Candidate
  <2>4. CASE RepairMarker
    BY <2>4, <1>1 DEF RepairMarker, Release
  <2>5. CASE CancelOnboarding
    BY <2>5, <1>0, JobHeld DEF CancelOnboarding, JobAgrees, MarkerAt, JournalAt, EffectsAt, At, Idle, Goto, Slot, Cancellable
  <2>6. CASE StopServer
    BY <2>6, <1>0, JobHeld DEF StopServer, JobAgrees, MarkerAt, JournalAt, EffectsAt, At, Idle, Goto, SetPane, Slot, Candidate
  <2>7. CASE RemoveArtifacts
    BY <2>7, <1>0, JobHeld DEF RemoveArtifacts, JobAgrees, MarkerAt, JournalAt, EffectsAt, At, Idle, Goto, Slot, Candidate
  <2>8. CASE UnmarkSlot
    BY <2>8, <1>1 DEF UnmarkSlot, Release
  <2> QED BY <1>6, <2>1, <2>2, <2>3, <2>4, <2>5, <2>6, <2>7, <2>8 DEF Reconcile
<1>7. CASE Runtime
  <2>1. ASSUME NEW s \in Slots, ObserverReady(s) PROVE JobAgrees'
    BY <2>1, <1>0, JobFrame DEF ObserverReady, RowState
  <2>2. ASSUME NEW s \in Slots, ObserverFails(s) PROVE JobAgrees'
    BY <2>2, <1>0, JobFrame DEF ObserverFails, RowState
  <2>3. ASSUME NEW s \in Slots, Observed(s) PROVE JobAgrees'
    BY <2>3, <1>0, JobFrame DEF Observed, RowState
  <2>4. ASSUME NEW s \in Slots, Park(s) PROVE JobAgrees'
    BY <2>4, <1>0, JobFrame DEF Park, RowState
  <2>5. ASSUME NEW s \in Slots, ResolveParked(s) PROVE JobAgrees'
    BY <2>5, <1>1 DEF ResolveParked, Idle, JobAgrees
  <2>6. ASSUME NEW s \in Slots, Archive(s) PROVE JobAgrees'
    BY <2>6, <1>0, JobFrame DEF Archive, RowState
  <2> QED BY <1>7, <2>1, <2>2, <2>3, <2>4, <2>5, <2>6 DEF Runtime
<1>8. CASE Failure
  <2>1. CASE Abort
    BY <2>1, <1>1 DEF Abort, Release
  <2>2. CASE TearMarker
    BY <2>2, <1>1 DEF TearMarker, Release
  <2>3. ASSUME NEW s \in Slots, ShellExits(s) PROVE JobAgrees'
    BY <2>3, <1>0, JobFrame DEF ShellExits, RowState
  <2>4. ASSUME NEW s \in Slots, ProviderExits(s) PROVE JobAgrees'
    BY <2>4, <1>0, JobFrame DEF ProviderExits, RowState
  <2>5. ASSUME NEW s \in Slots, ServerLost(s) PROVE JobAgrees'
    BY <2>5, <1>0, JobFrame DEF ServerLost, RowState
  <2> QED BY <1>8, <2>1, <2>2, <2>3, <2>4, <2>5 DEF Failure
<1>9. CASE UNCHANGED vars
  BY <1>9, JobFrame DEF vars
<1> QED BY <1>2, <1>3, <1>4, <1>5, <1>6, <1>7, <1>8, <1>9 DEF Next

-----------------------------------------------------------------------------
(* The two stores: what a write to one of them preserves.                  *)

StoresAgree == MarkersAreApart /\ CandidateIsSole /\ MarkerAgrees /\ NothingIsOrphaned

\* Nothing is written, and no directory or server appears.
LEMMA StoresQuiet ==
  ASSUME StoresAgree, UNCHANGED <<marker, journal>>, job'.pc = "mark" => job.pc = "mark",
         \A s \in Slots : (dir'[s] => dir[s]) /\ (pane'[s] # "none" => pane[s] # "none")
  PROVE  StoresAgree'
<1>1. MarkersAreApart' /\ MarkerAgrees'
  BY DEF StoresAgree, MarkersAreApart, MarkerAgrees, Names
<1>2. CandidateIsSole'
  BY DEF StoresAgree, CandidateIsSole, Names
<1>3. NothingIsOrphaned'
  BY DEF StoresAgree, NothingIsOrphaned, Names
<1> QED BY <1>1, <1>2, <1>3 DEF StoresAgree

\* A directory or a server may appear for a slot that a marker names.
LEMMA StoresNamed ==
  ASSUME StoresAgree, UNCHANGED <<marker, journal>>, job'.pc # "mark",
         NEW p \in Presentations, NEW n \in Slots, Names(p, n),
         \A s \in Slots \ {n} : (dir'[s] => dir[s]) /\ (pane'[s] # "none" => pane[s] # "none")
  PROVE  StoresAgree'
<1>1. MarkersAreApart' /\ MarkerAgrees'
  BY DEF StoresAgree, MarkersAreApart, MarkerAgrees, Names
<1>2. CandidateIsSole'
  BY DEF StoresAgree, CandidateIsSole, Names
<1>3. NothingIsOrphaned'
  BY DEF StoresAgree, NothingIsOrphaned, Names
<1> QED BY <1>1, <1>2, <1>3 DEF StoresAgree

\* A marker that names a slot is written again for the same slot.
LEMMA StoresRewritten ==
  ASSUME TypeOK, StoresAgree, NEW p \in Presentations, NEW n \in Slots, Names(p, n),
         NEW phase \in Markers \ {"none"}, journal[n] \in MayStandBeside(phase),
         marker' = [marker EXCEPT ![p] = [phase |-> phase, slot |-> n]],
         UNCHANGED <<journal, dir>>, job'.pc # "mark",
         \A s \in Slots \ {n} : pane'[s] # "none" => pane[s] # "none"
  PROVE  StoresAgree'
<1>1. \A q \in Presentations, s \in Slots : Names(q, s)' <=> Names(q, s)
  BY DEF Names, TypeOK
<1>2. MarkersAreApart'
  BY <1>1 DEF StoresAgree, MarkersAreApart, Names, TypeOK
<1>3. MarkerAgrees'
  BY <1>1 DEF StoresAgree, MarkerAgrees, TypeOK
<1>4. CandidateIsSole'
  BY <1>1 DEF StoresAgree, CandidateIsSole
<1>5. NothingIsOrphaned'
  BY <1>1 DEF StoresAgree, NothingIsOrphaned
<1> QED BY <1>2, <1>3, <1>4, <1>5 DEF StoresAgree

\* The first marker of a fresh slot.
LEMMA StoresMarked ==
  ASSUME TypeOK, StoresAgree, NEW p \in Presentations, NEW n \in Slots, marker[p].phase = "none",
         job.pc = "mark", journal[n] = "absent",
         NEW phase \in {"materializing", "torn"},
         marker' = [marker EXCEPT ![p] = [phase |-> phase, slot |-> n]],
         UNCHANGED <<journal, dir>>, job'.pc # "mark",
         \A s \in Slots : pane'[s] # "none" => pane[s] # "none"
  PROVE  StoresAgree'
<1>1. \A q \in Presentations : ~Names(q, n)
  BY DEF StoresAgree, CandidateIsSole, Unowned
<1>2. \A q \in Presentations, s \in Slots : Names(q, s)' <=> Names(q, s) \/ (q = p /\ s = n)
  BY DEF Names, TypeOK
<1>3. \A q \in Presentations, s \in Slots : Names(q, s) => journal[s] \notin Unowned
  BY DEF StoresAgree, CandidateIsSole
<1>4. MarkersAreApart'
  BY <1>1, <1>2 DEF StoresAgree, MarkersAreApart, TypeOK
<1>5. MarkerAgrees'
  <2>1. journal[n] \in MayStandBeside(phase)
    BY DEF MayStandBeside, Unowned, Phases
  <2> QED BY <2>1, <1>1, <1>2 DEF StoresAgree, MarkerAgrees, TypeOK
<1>6. CandidateIsSole'
  BY <1>2, <1>3 DEF CandidateIsSole
<1>7. NothingIsOrphaned'
  BY <1>2 DEF StoresAgree, NothingIsOrphaned
<1> QED BY <1>4, <1>5, <1>6, <1>7 DEF StoresAgree

\* A marker may go once its slot needs no decision.
LEMMA StoresUnmarked ==
  ASSUME TypeOK, StoresAgree, NEW p \in Presentations, NEW n \in Slots, Names(p, n),
         journal[n] \notin Unresolved, journal[n] \in Unowned => ~dir[n] /\ pane[n] = "none",
         marker' = [marker EXCEPT ![p] = NoMarker],
         UNCHANGED <<journal, dir, pane>>, job'.pc # "mark"
  PROVE  StoresAgree'
<1>1. \A q \in Presentations, s \in Slots : Names(q, s)' <=> Names(q, s) /\ q # p
  BY DEF Names, TypeOK, NoMarker
<1>2. \A s \in Slots : Names(p, s) => s = n
  BY DEF Names
<1>3. MarkersAreApart'
  BY <1>1 DEF StoresAgree, MarkersAreApart, TypeOK, NoMarker
<1>4. MarkerAgrees'
  BY <1>1 DEF StoresAgree, MarkerAgrees, TypeOK, NoMarker
<1>5. CandidateIsSole'
  BY <1>1 DEF StoresAgree, CandidateIsSole
<1>6. NothingIsOrphaned'
  BY <1>1, <1>2 DEF StoresAgree, NothingIsOrphaned
<1> QED BY <1>3, <1>4, <1>5, <1>6 DEF StoresAgree

\* The journal of a slot is written: the marker that names it, if there is one,
\* must allow the new phase, and a slot that is owned stays so.
LEMMA StoresJournaled ==
  ASSUME TypeOK, StoresAgree, NEW n \in Slots, NEW phase \in Phases,
         \A q \in Presentations : Names(q, n) => phase \in MayStandBeside(marker[q].phase),
         (\E q \in Presentations : Names(q, n)) \/ phase \notin Unresolved \union Unowned,
         phase \in Unowned => journal[n] \in Unowned,
         journal' = [journal EXCEPT ![n] = phase],
         UNCHANGED <<marker, dir>>, job'.pc # "mark",
         \A s \in Slots \ {n} : pane'[s] # "none" => pane[s] # "none"
  PROVE  StoresAgree'
<1>1. \A q \in Presentations, s \in Slots : Names(q, s)' <=> Names(q, s)
  BY DEF Names
<1>2. \A s \in Slots : journal'[s] = IF s = n THEN phase ELSE journal[s]
  BY DEF TypeOK
<1>3. MarkersAreApart'
  BY <1>1 DEF StoresAgree, MarkersAreApart
<1>4. MarkerAgrees'
  <2>1. ASSUME NEW q \in Presentations, marker[q].phase # "none"
        PROVE  journal'[marker[q].slot] \in MayStandBeside(marker[q].phase)
    <3>1. marker[q].slot \in Slots
      BY <2>1 DEF StoresAgree, MarkersAreApart
    <3>2. CASE marker[q].slot = n
      BY <2>1, <3>2, <1>2 DEF Names
    <3>3. CASE marker[q].slot # n
      BY <2>1, <3>1, <3>3, <1>2 DEF StoresAgree, MarkerAgrees
    <3> QED BY <3>2, <3>3
  <2> QED BY <2>1, <1>1 DEF StoresAgree, MarkerAgrees
<1>5. CandidateIsSole'
  BY <1>1, <1>2 DEF StoresAgree, CandidateIsSole
<1>6. NothingIsOrphaned'
  BY <1>1, <1>2 DEF StoresAgree, NothingIsOrphaned
<1> QED BY <1>3, <1>4, <1>5, <1>6 DEF StoresAgree

\* Past its first write the holder has the one marker that names its slot.
LEMMA HolderNames ==
  ASSUME TypeOK, JobAgrees, StoresAgree, job.pc \notin {"none", "mark"}
  PROVE  /\ job.pres \in Presentations /\ Slot \in Slots /\ Names(job.pres, Slot)
         /\ \A q \in Presentations : Names(q, Slot) => q = job.pres
         /\ marker[job.pres].phase \in MarkerAt(job.pc) /\ journal[Slot] \in JournalAt(job.pc)
         /\ journal[Slot] \in MayStandBeside(marker[job.pres].phase)
         /\ EffectsAt(job.pc, Slot)
<1>1. /\ job.pres \in Presentations /\ job.slot \in Slots
      /\ marker[job.pres].phase \in MarkerAt(job.pc) /\ marker[job.pres].slot = job.slot
      /\ journal[job.slot] \in JournalAt(job.pc) /\ EffectsAt(job.pc, job.slot)
  BY JobHeld
<1>2. marker[job.pres].phase # "none"
  BY <1>1 DEF MarkerAt, Candidate
<1> QED BY <1>1, <1>2 DEF Names, Slot, StoresAgree, MarkersAreApart, MarkerAgrees

\* Every step keeps marker and journal in agreement.
LEMMA StoresStep ==
  ASSUME TypeOK, JobAgrees, StoresAgree, [Next]_vars
  PROVE  StoresAgree'
<1>0. /\ \A pc : Goto(pc) => job' = [job EXCEPT !.pc = pc] /\ job'.pc = pc
      /\ Release => job'.pc = "none"
      /\ job.pres \in Presentations /\ job.slot \in Slots => job.slot = Slot
  BY DEF TypeOK, Goto, Release, NoJob, Slot
<1>1. CASE Materialize
  <2>1. ASSUME NEW p \in Presentations, NEW s \in Slots, BeginMaterialize(p, s) PROVE StoresAgree'
    <3>1. \A q \in Presentations, n \in Slots : Names(q, n) => journal[n] \notin Unowned
      BY <2>1 DEF BeginMaterialize, Vacant, MarkerIsSettled, Names, Consumed, Fenced, Unowned
    <3>2. UNCHANGED <<marker, journal, dir, pane>>
      BY <2>1 DEF BeginMaterialize
    <3> QED BY <3>1, <3>2 DEF StoresAgree, MarkersAreApart, CandidateIsSole, MarkerAgrees, NothingIsOrphaned, Names
  <2>2. CASE WriteNewMarker
    <3>1. job.pc = "mark" /\ job'.pc # "mark" /\ UNCHANGED <<journal, dir, pane>>
      BY <2>2, <1>0 DEF WriteNewMarker, At
    <3>2. /\ job.pres \in Presentations /\ job.slot \in Slots
          /\ marker[job.pres].phase = "none" /\ journal[job.slot] = "absent"
      BY <3>1, JobHeld DEF MarkerAt, JournalAt
    <3>3. marker' = [marker EXCEPT ![job.pres] = [phase |-> "materializing", slot |-> job.slot]]
      BY <2>2 DEF WriteNewMarker, SetMarker
    <3> QED BY <3>1, <3>2, <3>3, StoresMarked
  <2>3. CASE CreateDirectory
    <3>1. job.pc \notin {"none", "mark"} /\ job'.pc # "mark"
      BY <2>3, <1>0 DEF CreateDirectory, At
    <3>2. /\ UNCHANGED <<marker, journal>>
          /\ \A s \in Slots \ {Slot} : dir'[s] = dir[s] /\ pane'[s] = pane[s]
      BY <2>3 DEF CreateDirectory, SetPane, TypeOK
    <3> QED BY <3>1, <3>2, HolderNames, StoresNamed
  <2>4. CASE NewSession
    <3>1. job.pc \notin {"none", "mark"} /\ job'.pc # "mark"
      BY <2>4, <1>0 DEF NewSession, At
    <3>2. /\ UNCHANGED <<marker, journal>>
          /\ \A s \in Slots \ {Slot} : dir'[s] = dir[s] /\ pane'[s] = pane[s]
      BY <2>4 DEF NewSession, SetPane, TypeOK
    <3> QED BY <3>1, <3>2, HolderNames, StoresNamed
  <2>5. CASE RecordShellEvidence
    <3>1. /\ job.pc \notin {"none", "mark"} /\ job'.pc # "mark" /\ UNCHANGED <<journal, dir, pane>>
          /\ marker' = [marker EXCEPT ![job.pres] = [phase |-> "materialized", slot |-> Slot]]
      BY <2>5, <1>0 DEF RecordShellEvidence, SetMarker, At, Slot
    <3>2. journal[Slot] \in MayStandBeside("materialized") /\ "materialized" \in Markers \ {"none"}
      BY <2>5, <3>1, HolderNames DEF RecordShellEvidence, At, JournalAt, MayStandBeside, Markers, Candidate, Unowned, Consumed, Fenced, MarkerAt
    <3> QED BY <3>1, <3>2, HolderNames, StoresRewritten
  <2> QED BY <1>1, <2>1, <2>2, <2>3, <2>4, <2>5 DEF Materialize
<1>2. CASE Gate
  <2>1. ASSUME NEW p \in Presentations, BeginGate(p) PROVE StoresAgree'
    BY <2>1, StoresQuiet DEF BeginGate, Acquire
  <2>2. ASSUME NEW provider \in Providers, ReserveOnboarding(provider) PROVE StoresAgree'
    <3>1. /\ job.pc \notin {"none", "mark"} /\ job'.pc # "mark" /\ UNCHANGED <<marker, dir>>
          /\ journal' = [journal EXCEPT ![Slot] = "capability_issued"]
      BY <2>2, <1>0 DEF ReserveOnboarding, At
    <3>2. \A s \in Slots \ {Slot} : pane'[s] = pane[s]
      BY <2>2 DEF ReserveOnboarding, TypeOK
    <3>3. /\ "capability_issued" \in MayStandBeside(marker[job.pres].phase) /\ "capability_issued" \in Phases
          /\ "capability_issued" \in Unowned => journal[Slot] \in Unowned
      BY <2>2, <3>1, HolderNames DEF ReserveOnboarding, At, JournalAt, MarkerAt, MayStandBeside, Unowned, Consumed, Fenced, Phases
    <3> QED BY <3>1, <3>2, <3>3, HolderNames, StoresJournaled
  <2>3. CASE IssueHandoff
    <3>1. /\ job.pc \notin {"none", "mark"} /\ job'.pc # "mark" /\ UNCHANGED <<journal, dir, pane>>
          /\ marker' = [marker EXCEPT ![job.pres] = [phase |-> "handoff_issued", slot |-> Slot]]
      BY <2>3, <1>0 DEF IssueHandoff, SetMarker, At, Slot
    <3>2. journal[Slot] \in MayStandBeside("handoff_issued") /\ "handoff_issued" \in Markers \ {"none"}
      BY <2>3, <3>1, HolderNames DEF IssueHandoff, At, JournalAt, MayStandBeside, Markers, Candidate, Unowned, Consumed, Fenced, MarkerAt
    <3> QED BY <3>1, <3>2, HolderNames, StoresRewritten
  <2>4. CASE DeliverCapability
    <3>1. job.pc \notin {"none", "mark"} /\ job'.pc # "mark" /\ UNCHANGED <<marker, journal, dir>>
      BY <2>4, <1>0 DEF DeliverCapability, At
    <3>2. \A s \in Slots \ {Slot} : pane'[s] = pane[s]
      BY <2>4 DEF DeliverCapability, SetPane, TypeOK
    <3> QED BY <3>1, <3>2, HolderNames, StoresNamed
  <2> QED BY <1>2, <2>1, <2>2, <2>3, <2>4 DEF Gate
<1>3. CASE Helper
  <2>1. ASSUME NEW p \in Presentations, BeginHelper(p) PROVE StoresAgree'
    BY <2>1, StoresQuiet DEF BeginHelper, Acquire
  <2>2. CASE ConsumeCapability
    <3>1. /\ job.pc \notin {"none", "mark"} /\ job'.pc # "mark" /\ UNCHANGED <<marker, dir>>
          /\ journal' = [journal EXCEPT ![Slot] = "runtime_owned"]
      BY <2>2, <1>0 DEF ConsumeCapability, At, HelperFence, Advance
    <3>2. \A s \in Slots \ {Slot} : pane'[s] = pane[s]
      BY <2>2 DEF ConsumeCapability, HelperFence, Advance, TypeOK
    <3>3. /\ "runtime_owned" \in MayStandBeside(marker[job.pres].phase) /\ "runtime_owned" \in Phases
          /\ "runtime_owned" \in Unowned => journal[Slot] \in Unowned
      BY <2>2, <3>1, HolderNames DEF ConsumeCapability, At, HelperFence, Advance, JournalAt, MarkerAt, MayStandBeside, Unowned, Consumed, Fenced, Phases
    <3> QED BY <3>1, <3>2, <3>3, HolderNames, StoresJournaled
  <2>3. CASE OwnMarker
    <3>1. /\ job.pc \notin {"none", "mark"} /\ job'.pc # "mark" /\ UNCHANGED <<journal, dir, pane>>
          /\ marker' = [marker EXCEPT ![job.pres] = [phase |-> "runtime_owned", slot |-> Slot]]
      BY <2>3, <1>0 DEF OwnMarker, SetMarker, At, Slot
    <3>2. journal[Slot] \in MayStandBeside("runtime_owned") /\ "runtime_owned" \in Markers \ {"none"}
      BY <2>3, <3>1, HolderNames DEF OwnMarker, At, JournalAt, MayStandBeside, Markers, Candidate, Unowned, Consumed, Fenced, MarkerAt
    <3> QED BY <3>1, <3>2, HolderNames, StoresRewritten
  <2>4. CASE PrepareProvider
    <3>1. /\ job.pc \notin {"none", "mark"} /\ job'.pc # "mark" /\ UNCHANGED <<marker, dir>>
          /\ journal' = [journal EXCEPT ![Slot] = "preparation"]
      BY <2>4, <1>0 DEF PrepareProvider, At, HelperFence, Advance
    <3>2. \A s \in Slots \ {Slot} : pane'[s] = pane[s]
      BY <2>4 DEF PrepareProvider, HelperFence, Advance, TypeOK
    <3>3. /\ "preparation" \in MayStandBeside(marker[job.pres].phase) /\ "preparation" \in Phases
          /\ "preparation" \in Unowned => journal[Slot] \in Unowned
      BY <2>4, <3>1, HolderNames DEF PrepareProvider, At, HelperFence, Advance, JournalAt, MarkerAt, MayStandBeside, Unowned, Consumed, Fenced, Phases
    <3> QED BY <3>1, <3>2, <3>3, HolderNames, StoresJournaled
  <2>5. CASE FenceEffect
    <3>1. /\ job.pc \notin {"none", "mark"} /\ job'.pc # "mark" /\ UNCHANGED <<marker, dir>>
          /\ journal' = [journal EXCEPT ![Slot] = "effect_started"]
      BY <2>5, <1>0 DEF FenceEffect, At, HelperFence, Advance
    <3>2. \A s \in Slots \ {Slot} : pane'[s] = pane[s]
      BY <2>5 DEF FenceEffect, HelperFence, Advance, TypeOK
    <3>3. /\ "effect_started" \in MayStandBeside(marker[job.pres].phase) /\ "effect_started" \in Phases
          /\ "effect_started" \in Unowned => journal[Slot] \in Unowned
      BY <2>5, <3>1, HolderNames DEF FenceEffect, At, HelperFence, Advance, JournalAt, MarkerAt, MayStandBeside, Unowned, Consumed, Fenced, Phases
    <3> QED BY <3>1, <3>2, <3>3, HolderNames, StoresJournaled
  <2>6. CASE CreateSession
    BY <2>6, <1>0, StoresQuiet DEF CreateSession, At
  <2>7. CASE BindSession
    BY <2>7, <1>0, StoresQuiet DEF BindSession, At
  <2>8. CASE RecordHandle
    BY <2>8, <1>0, StoresQuiet DEF RecordHandle, At
  <2>9. CASE FenceExec
    <3>1. /\ job.pc \notin {"none", "mark"} /\ job'.pc # "mark" /\ UNCHANGED <<marker, dir>>
          /\ journal' = [journal EXCEPT ![Slot] = "exec_started"]
      BY <2>9, <1>0 DEF FenceExec, At, HelperFence, Advance
    <3>2. \A s \in Slots \ {Slot} : pane'[s] = pane[s]
      BY <2>9 DEF FenceExec, HelperFence, Advance, TypeOK
    <3>3. /\ "exec_started" \in MayStandBeside(marker[job.pres].phase) /\ "exec_started" \in Phases
          /\ "exec_started" \in Unowned => journal[Slot] \in Unowned
      BY <2>9, <3>1, HolderNames DEF FenceExec, At, HelperFence, Advance, JournalAt, MarkerAt, MayStandBeside, Unowned, Consumed, Fenced, Phases
    <3> QED BY <3>1, <3>2, <3>3, HolderNames, StoresJournaled
  <2>10. CASE ExecProvider
    <3>1. job.pc \notin {"none", "mark"} /\ job'.pc # "mark" /\ UNCHANGED <<marker, journal, dir>>
      BY <2>10, <1>0 DEF ExecProvider, At
    <3>2. \A s \in Slots \ {Slot} : pane'[s] = pane[s]
      BY <2>10 DEF ExecProvider, SetPane, TypeOK
    <3> QED BY <3>1, <3>2, HolderNames, StoresNamed
  <2>11. CASE PostFails
    BY <2>11, <1>0, StoresQuiet DEF PostFails, At
  <2>12. CASE StepFails
    BY <2>12, <1>0, StoresQuiet DEF StepFails, At
  <2>13. CASE ExecFails
    BY <2>13, <1>0, StoresQuiet DEF ExecFails, At
  <2>14. CASE RecordRecovery
    <3>1. /\ job.pc \notin {"none", "mark"} /\ job'.pc # "mark" /\ UNCHANGED <<marker, dir>>
          /\ journal' = [journal EXCEPT ![Slot] = "recovery"]
      BY <2>14, <1>0 DEF RecordRecovery, At, HelperEnds, Advance, SetPane
    <3>2. \A s \in Slots \ {Slot} : pane'[s] = pane[s]
      BY <2>14 DEF RecordRecovery, HelperEnds, Advance, SetPane, TypeOK
    <3>3. /\ "recovery" \in MayStandBeside(marker[job.pres].phase) /\ "recovery" \in Phases
          /\ "recovery" \in Unowned => journal[Slot] \in Unowned
      BY <2>14, <3>1, HolderNames DEF RecordRecovery, At, HelperEnds, Advance, SetPane, JournalAt, MarkerAt, MayStandBeside, Unowned, Consumed, Fenced, Phases
    <3> QED BY <3>1, <3>2, <3>3, HolderNames, StoresJournaled
  <2>15. CASE RecordKnownAbsent
    <3>1. /\ job.pc \notin {"none", "mark"} /\ job'.pc # "mark" /\ UNCHANGED <<marker, dir>>
          /\ journal' = [journal EXCEPT ![Slot] = "known_absent"]
      BY <2>15, <1>0 DEF RecordKnownAbsent, At, HelperEnds, Advance, SetPane
    <3>2. \A s \in Slots \ {Slot} : pane'[s] = pane[s]
      BY <2>15 DEF RecordKnownAbsent, HelperEnds, Advance, SetPane, TypeOK
    <3>3. /\ "known_absent" \in MayStandBeside(marker[job.pres].phase) /\ "known_absent" \in Phases
          /\ "known_absent" \in Unowned => journal[Slot] \in Unowned
      BY <2>15, <3>1, HolderNames DEF RecordKnownAbsent, At, HelperEnds, Advance, SetPane, JournalAt, MarkerAt, MayStandBeside, Unowned, Consumed, Fenced, Phases
    <3> QED BY <3>1, <3>2, <3>3, HolderNames, StoresJournaled
  <2>16. CASE HelperDies
    <3>1. job.pc \notin {"none", "mark"} /\ job'.pc # "mark" /\ UNCHANGED <<marker, journal, dir>>
      BY <2>16, <1>0, JobHeld DEF HelperDies, Idle
    <3>2. \A s \in Slots \ {Slot} : pane'[s] = pane[s]
      BY <2>16 DEF HelperDies, SetPane, TypeOK
    <3> QED BY <3>1, <3>2, HolderNames, StoresNamed
  <2>17. ASSUME NEW s \in Slots, HelperRefused(s) PROVE StoresAgree'
    BY <2>17, StoresQuiet DEF HelperRefused, TypeOK
  <2> QED BY <1>3, <2>1, <2>2, <2>3, <2>4, <2>5, <2>6, <2>7, <2>8, <2>9, <2>10, <2>11, <2>12, <2>13, <2>14, <2>15, <2>16, <2>17 DEF Helper
<1>4. CASE Prove
  <2>1. ASSUME NEW p \in Presentations, BeginProve(p) PROVE StoresAgree'
    BY <2>1, StoresQuiet DEF BeginProve, Acquire
  <2>2. ASSUME NEW p \in Presentations, BeginComplete(p) PROVE StoresAgree'
    BY <2>2, StoresQuiet DEF BeginComplete, Acquire
  <2>3. ASSUME NEW p \in Presentations, BeginRetire(p) PROVE StoresAgree'
    BY <2>3, StoresQuiet DEF BeginRetire, Acquire
  <2>4. CASE RecordProcess
    <3>1. job.pc = "record" /\ job'.pc # "mark" /\ UNCHANGED <<marker, dir, pane>>
      BY <2>4, <1>0 DEF RecordProcess, At
    <3>2. CASE UNCHANGED journal
      BY <3>1, <3>2, StoresQuiet
    <3>3. CASE journal' = [journal EXCEPT ![Slot] = "exec_proven"]
      <4>1. \A q \in Presentations : Names(q, Slot) => marker[q].phase = "runtime_owned"
        BY <3>1, HolderNames DEF MarkerAt
      <4>2. "exec_proven" \in MayStandBeside("runtime_owned") /\ "exec_proven" \in Phases
            /\ "exec_proven" \notin Unowned
        BY DEF MayStandBeside, Consumed, Phases, Unowned
      <4> QED BY <3>1, <3>3, <4>1, <4>2, HolderNames, StoresJournaled
    <3> QED BY <2>4, <3>2, <3>3 DEF RecordProcess, Advance
  <2>5. CASE SpawnObserver
    BY <2>5, <1>0, StoresQuiet DEF SpawnObserver, At
  <2>6. CASE AwaitObserver
    BY <2>6, <1>0, StoresQuiet DEF AwaitObserver, At
  <2>7. CASE FinalizeProof
    <3>1. /\ job.pc \notin {"none", "mark"} /\ job'.pc # "mark" /\ UNCHANGED <<marker, dir>>
          /\ journal' = [journal EXCEPT ![Slot] = "exec_proven"]
      BY <2>7, <1>0 DEF FinalizeProof, At, Advance
    <3>2. \A s \in Slots \ {Slot} : pane'[s] = pane[s]
      BY <2>7 DEF FinalizeProof, Advance, TypeOK
    <3>3. /\ "exec_proven" \in MayStandBeside(marker[job.pres].phase) /\ "exec_proven" \in Phases
          /\ "exec_proven" \in Unowned => journal[Slot] \in Unowned
      BY <2>7, <3>1, HolderNames DEF FinalizeProof, At, Advance, JournalAt, MarkerAt, MayStandBeside, Unowned, Consumed, Fenced, Phases
    <3> QED BY <3>1, <3>2, <3>3, HolderNames, StoresJournaled
  <2>8. CASE CompleteMarker
    <3>1. /\ job.pc \notin {"none", "mark"} /\ job'.pc # "mark" /\ UNCHANGED <<journal, dir, pane>>
          /\ marker' = [marker EXCEPT ![job.pres] = [phase |-> "exec_proven", slot |-> Slot]]
      BY <2>8, <1>0 DEF CompleteMarker, SetMarker, At, Slot
    <3>2. journal[Slot] \in MayStandBeside("exec_proven") /\ "exec_proven" \in Markers \ {"none"}
      BY <2>8, <3>1, HolderNames DEF CompleteMarker, At, JournalAt, MayStandBeside, Markers, Candidate, Unowned, Consumed, Fenced, MarkerAt
    <3> QED BY <3>1, <3>2, HolderNames, StoresRewritten
  <2>9. CASE RetireMarker
    <3>1. job.pc = "retire" /\ job'.pc # "mark" /\ UNCHANGED <<journal, dir, pane>>
      BY <2>9, <1>0 DEF RetireMarker, At
    <3>2. /\ journal[Slot] \notin Unresolved
          /\ journal[Slot] \in Unowned => ~dir[Slot] /\ pane[Slot] = "none"
      BY <3>1, HolderNames DEF JournalAt, EffectsAt, Unresolved, Unowned, Fenced
    <3>3. marker' = [marker EXCEPT ![job.pres] = NoMarker]
      BY <2>9 DEF RetireMarker, RemoveMarker
    <3> QED BY <3>1, <3>2, <3>3, HolderNames, StoresUnmarked
  <2> QED BY <1>4, <2>1, <2>2, <2>3, <2>4, <2>5, <2>6, <2>7, <2>8, <2>9 DEF Prove
<1>5. CASE Reconcile
  <2>1. ASSUME NEW p \in Presentations, BeginRepair(p) PROVE StoresAgree'
    BY <2>1, StoresQuiet DEF BeginRepair, Acquire
  <2>2. ASSUME NEW p \in Presentations, BeginReconcile(p) PROVE StoresAgree'
    BY <2>2, StoresQuiet DEF BeginReconcile, Acquire
  <2>3. ASSUME NEW p \in Presentations, BeginClose(p) PROVE StoresAgree'
    BY <2>3, StoresQuiet DEF BeginClose, Acquire
  <2>4. CASE RepairMarker
    <3>1. /\ job.pc \notin {"none", "mark"} /\ job'.pc # "mark" /\ UNCHANGED <<journal, dir, pane>>
          /\ marker' = [marker EXCEPT ![job.pres] = [phase |-> "runtime_owned", slot |-> Slot]]
      BY <2>4, <1>0 DEF RepairMarker, SetMarker, At, Slot
    <3>2. journal[Slot] \in MayStandBeside("runtime_owned") /\ "runtime_owned" \in Markers \ {"none"}
      BY <2>4, <3>1, HolderNames DEF RepairMarker, At, JournalAt, MayStandBeside, Markers, Candidate, Unowned, Consumed, Fenced, MarkerAt
    <3> QED BY <3>1, <3>2, HolderNames, StoresRewritten
  <2>5. CASE CancelOnboarding
    <3> DEFINE phase == IF journal[Slot] = "absent" THEN "absent" ELSE "rolled_back"
    <3>1. job.pc = "cancel" /\ job'.pc # "mark" /\ UNCHANGED <<marker, dir, pane>>
      BY <2>5, <1>0 DEF CancelOnboarding
    <3>2. journal' = [journal EXCEPT ![Slot] = phase] /\ journal[Slot] \in Unowned
      BY <2>5 DEF CancelOnboarding, Cancellable, Unowned
    <3>3. marker[job.pres].phase \in Candidate /\ journal[Slot] \in MayStandBeside(marker[job.pres].phase)
      BY <3>1, HolderNames DEF MarkerAt
    <3>4. phase \in MayStandBeside(marker[job.pres].phase) /\ phase \in Phases
      BY <3>3 DEF MayStandBeside, Candidate, Unowned, Phases
    <3> HIDE DEF phase
    <3> QED BY <3>1, <3>2, <3>4, HolderNames, StoresJournaled
  <2>6. CASE StopServer
    BY <2>6, <1>0, StoresQuiet DEF StopServer, SetPane, TypeOK
  <2>7. CASE RemoveArtifacts
    BY <2>7, <1>0, StoresQuiet DEF RemoveArtifacts, SetPane, TypeOK
  <2>8. CASE UnmarkSlot
    <3>1. job.pc = "unmark" /\ job'.pc # "mark" /\ UNCHANGED <<journal, dir, pane>>
      BY <2>8, <1>0 DEF UnmarkSlot, At
    <3>2. /\ journal[Slot] \notin Unresolved
          /\ journal[Slot] \in Unowned => ~dir[Slot] /\ pane[Slot] = "none"
      BY <3>1, HolderNames DEF JournalAt, EffectsAt, Unresolved, Unowned, Fenced
    <3>3. marker' = [marker EXCEPT ![job.pres] = NoMarker]
      BY <2>8 DEF UnmarkSlot, RemoveMarker
    <3> QED BY <3>1, <3>2, <3>3, HolderNames, StoresUnmarked
  <2> QED BY <1>5, <2>1, <2>2, <2>3, <2>4, <2>5, <2>6, <2>7, <2>8 DEF Reconcile
<1>6. CASE Runtime
  <2>1. ASSUME NEW s \in Slots, ObserverReady(s) PROVE StoresAgree'
    BY <2>1, StoresQuiet DEF ObserverReady, TypeOK
  <2>2. ASSUME NEW s \in Slots, ObserverFails(s) PROVE StoresAgree'
    BY <2>2, StoresQuiet DEF ObserverFails, TypeOK
  <2>3. ASSUME NEW s \in Slots, Observed(s) PROVE StoresAgree'
    BY <2>3, StoresQuiet DEF Observed, TypeOK
  <2>4. ASSUME NEW s \in Slots, Park(s) PROVE StoresAgree'
    BY <2>4, StoresQuiet DEF Park, TypeOK
  <2>5. ASSUME NEW s \in Slots, ResolveParked(s) PROVE StoresAgree'
    <3>1. journal[s] = "recovery" /\ journal' = [journal EXCEPT ![s] = "committed"]
          /\ UNCHANGED <<marker, dir, pane, job>> /\ Idle
      BY <2>5 DEF ResolveParked
    <3>2. job'.pc # "mark"
      BY <3>1 DEF JobAgrees, Idle, NoJob
    <3>3. \A q \in Presentations : Names(q, s) => "committed" \in MayStandBeside(marker[q].phase)
      <4>1. SUFFICES ASSUME NEW q \in Presentations, Names(q, s)
                     PROVE  "committed" \in MayStandBeside(marker[q].phase)
        OBVIOUS
      <4>2. "recovery" \in MayStandBeside(marker[q].phase)
        BY <3>1, <4>1 DEF Names, StoresAgree, MarkerAgrees
      <4> QED BY <4>2 DEF MayStandBeside, Unowned, Phases
    <3>4. "committed" \in Phases /\ "committed" \notin Unresolved \union Unowned
      BY DEF Phases, Unresolved, Unowned, Fenced
    <3> QED BY <3>1, <3>2, <3>3, <3>4, StoresJournaled
  <2>6. ASSUME NEW s \in Slots, Archive(s) PROVE StoresAgree'
    BY <2>6, StoresQuiet DEF Archive, TypeOK
  <2> QED BY <1>6, <2>1, <2>2, <2>3, <2>4, <2>5, <2>6 DEF Runtime
<1>7. CASE Failure
  <2>1. CASE Abort
    BY <2>1, <1>0, StoresQuiet DEF Abort, At
  <2>2. CASE TearMarker
    <3>1. /\ job.pc \in MarkerWrites /\ job'.pc # "mark" /\ UNCHANGED <<journal, dir>>
          /\ marker' = [marker EXCEPT ![job.pres] = [phase |-> "torn", slot |-> job.slot]]
      BY <2>2, <1>0 DEF TearMarker, SetMarker
    <3>2. \A s \in Slots : job.kind # "helper" \/ s # Slot => pane'[s] = pane[s]
      BY <2>2 DEF TearMarker, TypeOK
    <3>3. CASE job.pc = "mark"
      <4>1. /\ job.pres \in Presentations /\ job.slot \in Slots
            /\ marker[job.pres].phase = "none" /\ journal[job.slot] = "absent"
        BY <3>3, JobHeld DEF MarkerAt, JournalAt
      <4>2. job.kind # "helper"
        BY <3>3, JobHeld
      <4> QED BY <3>1, <3>2, <3>3, <4>1, <4>2, StoresMarked
    <3>4. CASE job.pc # "mark"
      <4>1. job.pc # "none"
        BY <3>1 DEF MarkerWrites
      <4>2. /\ job.pres \in Presentations /\ Slot \in Slots /\ Names(job.pres, Slot)
            /\ journal[Slot] \in MayStandBeside("torn") /\ "torn" \in Markers \ {"none"}
        BY <3>4, <4>1, HolderNames DEF MayStandBeside, TypeOK, Markers
      <4> QED BY <3>1, <3>2, <4>2, StoresRewritten DEF Slot
    <3> QED BY <3>3, <3>4
  <2>3. ASSUME NEW s \in Slots, ShellExits(s) PROVE StoresAgree'
    BY <2>3, StoresQuiet DEF ShellExits, TypeOK
  <2>4. ASSUME NEW s \in Slots, ProviderExits(s) PROVE StoresAgree'
    BY <2>4, StoresQuiet DEF ProviderExits, TypeOK
  <2>5. ASSUME NEW s \in Slots, ServerLost(s) PROVE StoresAgree'
    BY <2>5, StoresQuiet DEF ServerLost, TypeOK
  <2> QED BY <1>7, <2>1, <2>2, <2>3, <2>4, <2>5 DEF Failure
<1>8. CASE UNCHANGED vars
  BY <1>8, StoresQuiet DEF vars
<1> QED BY <1>1, <1>2, <1>3, <1>4, <1>5, <1>6, <1>7, <1>8 DEF Next

-----------------------------------------------------------------------------
(* Effects and rows: a step changes those of one slot.                     *)

\* EffectsAgree, of one slot.
SlotAgrees(s) ==
  /\ effects[s].sessions \in {0, 1} /\ effects[s].processes \in {0, 1}
  /\ effects[s].sessions = 1 =>
       /\ row[s].provider = "opencode"
       /\ journal[s] \in {"effect_started", "exec_started", "exec_proven", "recovery", "committed"}
  /\ effects[s].processes = 1 => journal[s] \in {"exec_started", "exec_proven"}
  /\ journal[s] = "exec_proven" => effects[s].processes = 1
  /\ row[s] = NoRow <=> journal[s] \in {"absent", "rolled_back"}
  /\ row[s].pid => effects[s].processes = 1
  /\ row[s].session => effects[s].sessions = 1
  /\ row[s] = NoRow \/ row[s].provider \in Providers
  /\ pane[s] = "provider" => effects[s].processes = 1

EffectsAgree == EffectsAreFenced /\ RowAgrees /\ RowHasProvider /\ ProviderRan

\* The invariants about effects and rows speak of one slot at a time.
LEMMA EffectsBySlot ==
  ASSUME TypeOK
  PROVE  EffectsAgree <=> \A s \in Slots : SlotAgrees(s)
<1>1. \A s \in Slots : effects[s].sessions \in Nat /\ effects[s].processes \in Nat
  BY DEF TypeOK
<1>2. ASSUME EffectsAgree PROVE \A s \in Slots : SlotAgrees(s)
  BY <1>1, <1>2 DEF EffectsAgree, EffectsAreFenced, RowAgrees, RowHasProvider, ProviderRan, SlotAgrees
<1>3. ASSUME \A s \in Slots : SlotAgrees(s) PROVE EffectsAgree
  BY <1>1, <1>3 DEF EffectsAgree, EffectsAreFenced, RowAgrees, RowHasProvider, ProviderRan, SlotAgrees
<1> QED BY <1>2, <1>3

\* Owned rows keep their provider, so they are told from no row by it.
LEMMA RowIsOwned ==
  ASSUME NEW r \in RowState, r.provider \in Providers
  PROVE  r # NoRow
BY DEF NoRow, Providers

\* Only the slot n changes.
LEMMA SlotChanges ==
  ASSUME \A s \in Slots : SlotAgrees(s), NEW n \in Slots, SlotAgrees(n)',
         \A s \in Slots \ {n} : /\ journal'[s] = journal[s] /\ row'[s] = row[s]
                               /\ pane'[s] = pane[s] /\ effects'[s] = effects[s]
  PROVE  \A s \in Slots : SlotAgrees(s)'
BY DEF SlotAgrees

\* A pane changes, and no provider appears in it.
LEMMA PaneChanges ==
  ASSUME TypeOK, \A s \in Slots : SlotAgrees(s), UNCHANGED <<journal, row, effects>>,
         \A s \in Slots : pane'[s] = "provider" => pane[s] = "provider"
  PROVE  \A s \in Slots : SlotAgrees(s)'
BY DEF SlotAgrees

\* The row of an owned slot changes, but not its owner's provider.
LEMMA RowChanges ==
  ASSUME TypeOK, TypeOK', \A s \in Slots : SlotAgrees(s), NEW n \in Slots, NEW r \in RowState,
         row' = [row EXCEPT ![n] = r], UNCHANGED <<journal, effects>>,
         row[n] # NoRow, r.provider = row[n].provider,
         r.pid => effects[n].processes = 1, r.session => effects[n].sessions = 1,
         \A s \in Slots : pane'[s] = "provider" => pane[s] = "provider"
  PROVE  \A s \in Slots : SlotAgrees(s)'
<1>1. \A s \in Slots : row'[s] = IF s = n THEN r ELSE row[s]
  BY DEF TypeOK
<1>2. r # NoRow
  BY RowIsOwned DEF SlotAgrees
<1> QED BY <1>1, <1>2 DEF SlotAgrees

\* The journal of a slot moves, and nothing else does but a pane that ends.
LEMMA JournalMoves ==
  ASSUME TypeOK, \A s \in Slots : SlotAgrees(s), NEW n \in Slots, NEW phase \in Phases,
         journal' = [journal EXCEPT ![n] = phase], UNCHANGED <<row, effects>>,
         journal[n] \notin {"absent", "rolled_back"}, phase \notin {"absent", "rolled_back"},
         effects[n].sessions = 1 =>
           phase \in {"effect_started", "exec_started", "exec_proven", "recovery", "committed"},
         effects[n].processes = 1 => phase \in {"exec_started", "exec_proven"},
         phase = "exec_proven" => effects[n].processes = 1,
         \A s \in Slots : pane'[s] = "provider" => pane[s] = "provider"
  PROVE  \A s \in Slots : SlotAgrees(s)'
<1>1. \A s \in Slots : journal'[s] = IF s = n THEN phase ELSE journal[s]
  BY DEF TypeOK
<1> QED BY <1>1 DEF SlotAgrees

\* The POST at its fence creates the first session, whether or not it is answered.
LEMMA SessionPosted ==
  ASSUME TypeOK, JobAgrees, StoresAgree, \A s \in Slots : SlotAgrees(s), job.pc = "post",
         UNCHANGED <<journal, row, pane>>, effects' = [effects EXCEPT ![Slot].sessions = @ + 1]
  PROVE  \A s \in Slots : SlotAgrees(s)'
<1>1. /\ Slot \in Slots /\ journal[Slot] = "effect_started" /\ effects[Slot].sessions = 0
      /\ row[Slot].provider = "opencode" /\ effects[Slot] \in [sessions : Nat, processes : Nat]
  BY HolderNames DEF JournalAt, EffectsAt, TypeOK
<1> PICK n \in Slots : n = Slot
  BY <1>1
<1>2. /\ effects'[n].sessions = 1 /\ effects'[n].processes = effects[n].processes
      /\ \A s \in Slots \ {n} : effects'[s] = effects[s]
  BY <1>1 DEF TypeOK
<1>3. SlotAgrees(n)'
  BY <1>1, <1>2 DEF SlotAgrees
<1> QED BY <1>1, <1>2, <1>3, SlotChanges

\* Every step keeps the journal, the rows and the effects in agreement.
LEMMA EffectsStep ==
  ASSUME TypeOK, TypeOK', JobAgrees, StoresAgree, EffectsAgree, [Next]_vars
  PROVE  EffectsAgree'
<1>0. \A s \in Slots : SlotAgrees(s)
  BY EffectsBySlot
<1> SUFFICES \A s \in Slots : SlotAgrees(s)'
  <2>1. \A s \in Slots : effects'[s].sessions \in Nat /\ effects'[s].processes \in Nat
    BY DEF TypeOK
  <2> QED BY <2>1 DEF EffectsAgree, EffectsAreFenced, RowAgrees, RowHasProvider, ProviderRan, SlotAgrees
<1>a. row \in [Slots -> RowState] /\ journal \in [Slots -> Phases] /\ pane \in [Slots -> PaneState]
  BY DEF TypeOK
<1>1. CASE Materialize
  <2>1. ASSUME NEW p \in Presentations, NEW s \in Slots, BeginMaterialize(p, s) PROVE \A n \in Slots : SlotAgrees(n)'
    BY <2>1, <1>0, <1>a, PaneChanges DEF BeginMaterialize
  <2>2. CASE WriteNewMarker
    BY <2>2, <1>0, <1>a, PaneChanges DEF WriteNewMarker
  <2>3. CASE CreateDirectory
    BY <2>3, <1>0, <1>a, PaneChanges DEF CreateDirectory
  <2>4. CASE NewSession
    BY <2>4, <1>0, <1>a, PaneChanges DEF NewSession, SetPane
  <2>5. CASE RecordShellEvidence
    BY <2>5, <1>0, <1>a, PaneChanges DEF RecordShellEvidence
  <2> QED BY <1>1, <2>1, <2>2, <2>3, <2>4, <2>5 DEF Materialize
<1>2. CASE Gate
  <2>1. ASSUME NEW p \in Presentations, BeginGate(p) PROVE \A n \in Slots : SlotAgrees(n)'
    BY <2>1, <1>0, <1>a, PaneChanges DEF BeginGate
  <2>2. ASSUME NEW provider \in Providers, ReserveOnboarding(provider) PROVE \A n \in Slots : SlotAgrees(n)'
    <3> DEFINE next == [NoRow EXCEPT !.life = "starting", !.provider = provider]
    <3>1. job.pc = "reserve"
      BY <2>2 DEF ReserveOnboarding, At
    <3>2. Slot \in Slots /\ journal[Slot] = "absent"
      BY <3>1, HolderNames DEF JournalAt
    <3>3. /\ journal' = [journal EXCEPT ![Slot] = "capability_issued"]
          /\ row' = [row EXCEPT ![Slot] = next] /\ UNCHANGED <<pane, effects>>
      BY <2>2 DEF ReserveOnboarding
    <3>4. /\ next.provider \in Providers /\ next # NoRow
          /\ ~next.pid /\ ~next.session
      BY DEF NoRow, Providers
    <3> HIDE DEF next
    <3> PICK n \in Slots : n = Slot
      BY <3>2
    <3>5. /\ journal'[n] = "capability_issued" /\ row'[n] = next
          /\ \A s \in Slots \ {n} : journal'[s] = journal[s] /\ row'[s] = row[s]
      BY <3>3, <1>a
    <3>6. SlotAgrees(n)'
      BY <1>0, <3>2, <3>3, <3>4, <3>5 DEF SlotAgrees
    <3> QED BY <1>0, <3>3, <3>5, <3>6, SlotChanges
  <2>3. CASE IssueHandoff
    BY <2>3, <1>0, <1>a, PaneChanges DEF IssueHandoff
  <2>4. CASE DeliverCapability
    BY <2>4, <1>0, <1>a, PaneChanges DEF DeliverCapability, SetPane
  <2> QED BY <1>2, <2>1, <2>2, <2>3, <2>4 DEF Gate
<1>3. CASE Helper
  <2>1. ASSUME NEW p \in Presentations, BeginHelper(p) PROVE \A n \in Slots : SlotAgrees(n)'
    BY <2>1, <1>0, <1>a, PaneChanges DEF BeginHelper
  <2>2. CASE ConsumeCapability
    <3>1. /\ job.pc \notin {"none", "mark"} /\ UNCHANGED <<row, effects>>
          /\ journal' = [journal EXCEPT ![Slot] = "runtime_owned"]
      BY <2>2 DEF ConsumeCapability, At, HelperFence, Advance
    <3>2. \A s \in Slots : pane'[s] = "provider" => pane[s] = "provider"
      BY <2>2, <1>a DEF ConsumeCapability, HelperFence, Advance
    <3>3. /\ Slot \in Slots /\ journal[Slot] \notin {"absent", "rolled_back"}
          /\ effects[Slot].sessions = 1 =>
               "runtime_owned" \in {"effect_started", "exec_started", "exec_proven", "recovery", "committed"}
          /\ effects[Slot].processes = 1 => "runtime_owned" \in {"exec_started", "exec_proven"}
          /\ "runtime_owned" = "exec_proven" => effects[Slot].processes = 1
      BY <2>2, <3>1, <1>0, HolderNames DEF ConsumeCapability, At, HelperFence, Advance, JournalAt, EffectsAt, SlotAgrees
    <3>4. "runtime_owned" \in Phases
      BY DEF Phases, Consumed, Fenced
    <3> QED BY <1>0, <3>1, <3>2, <3>3, <3>4, JournalMoves
  <2>3. CASE OwnMarker
    BY <2>3, <1>0, <1>a, PaneChanges DEF OwnMarker
  <2>4. CASE PrepareProvider
    <3>1. /\ job.pc \notin {"none", "mark"} /\ UNCHANGED <<row, effects>>
          /\ journal' = [journal EXCEPT ![Slot] = "preparation"]
      BY <2>4 DEF PrepareProvider, At, HelperFence, Advance
    <3>2. \A s \in Slots : pane'[s] = "provider" => pane[s] = "provider"
      BY <2>4, <1>a DEF PrepareProvider, HelperFence, Advance
    <3>3. /\ Slot \in Slots /\ journal[Slot] \notin {"absent", "rolled_back"}
          /\ effects[Slot].sessions = 1 =>
               "preparation" \in {"effect_started", "exec_started", "exec_proven", "recovery", "committed"}
          /\ effects[Slot].processes = 1 => "preparation" \in {"exec_started", "exec_proven"}
          /\ "preparation" = "exec_proven" => effects[Slot].processes = 1
      BY <2>4, <3>1, <1>0, HolderNames DEF PrepareProvider, At, HelperFence, Advance, JournalAt, EffectsAt, SlotAgrees
    <3>4. "preparation" \in Phases
      BY DEF Phases, Consumed, Fenced
    <3> QED BY <1>0, <3>1, <3>2, <3>3, <3>4, JournalMoves
  <2>5. CASE FenceEffect
    <3>1. /\ job.pc \notin {"none", "mark"} /\ UNCHANGED <<row, effects>>
          /\ journal' = [journal EXCEPT ![Slot] = "effect_started"]
      BY <2>5 DEF FenceEffect, At, HelperFence, Advance
    <3>2. \A s \in Slots : pane'[s] = "provider" => pane[s] = "provider"
      BY <2>5, <1>a DEF FenceEffect, HelperFence, Advance
    <3>3. /\ Slot \in Slots /\ journal[Slot] \notin {"absent", "rolled_back"}
          /\ effects[Slot].sessions = 1 =>
               "effect_started" \in {"effect_started", "exec_started", "exec_proven", "recovery", "committed"}
          /\ effects[Slot].processes = 1 => "effect_started" \in {"exec_started", "exec_proven"}
          /\ "effect_started" = "exec_proven" => effects[Slot].processes = 1
      BY <2>5, <3>1, <1>0, HolderNames DEF FenceEffect, At, HelperFence, Advance, JournalAt, EffectsAt, SlotAgrees
    <3>4. "effect_started" \in Phases
      BY DEF Phases, Consumed, Fenced
    <3> QED BY <1>0, <3>1, <3>2, <3>3, <3>4, JournalMoves
  <2>6. CASE CreateSession
    <3>1. job.pc = "post" /\ UNCHANGED <<journal, row, pane>>
          /\ effects' = [effects EXCEPT ![Slot].sessions = @ + 1]
      BY <2>6 DEF CreateSession, At
    <3> QED BY <1>0, <3>1, SessionPosted
  <2>7. CASE BindSession
    <3> DEFINE r == [row[Slot] EXCEPT !.session = TRUE]
    <3>1. job.pc = "bind" /\ UNCHANGED <<journal, pane, effects>> /\ row' = [row EXCEPT ![Slot] = r]
      BY <2>7 DEF BindSession, At
    <3>2. Slot \in Slots /\ row[Slot] # NoRow
      BY <3>1, <1>0, HolderNames DEF JournalAt, SlotAgrees
    <3>a. r \in RowState
      BY <3>2, <1>a, RowTyped
    <3>3. /\ r.provider = row[Slot].provider /\ r.pid = row[Slot].pid
          /\ r.session => row[Slot].session \/ job.pc = "bind"
      BY <3>1, <3>2, <1>a DEF RowState
    <3> HIDE DEF r
    <3>4. r.pid => effects[Slot].processes = 1
      BY <1>0, <3>2, <3>3 DEF SlotAgrees
    <3>5. r.session => effects[Slot].sessions = 1
      BY <1>0, <3>1, <3>2, <3>3, HolderNames DEF SlotAgrees, EffectsAt
    <3> QED BY <1>0, <3>1, <3>2, <3>a, <3>3, <3>4, <3>5, RowChanges
  <2>8. CASE RecordHandle
    <3> DEFINE r == [row[Slot] EXCEPT !.handle = "starting"]
    <3>1. job.pc = "handle" /\ UNCHANGED <<journal, pane, effects>> /\ row' = [row EXCEPT ![Slot] = r]
      BY <2>8 DEF RecordHandle, At
    <3>2. Slot \in Slots /\ row[Slot] # NoRow
      BY <3>1, <1>0, HolderNames DEF JournalAt, SlotAgrees
    <3>a. r \in RowState
      BY <3>2, <1>a, RowTyped
    <3>3. /\ r.provider = row[Slot].provider /\ r.pid = row[Slot].pid
          /\ r.session => row[Slot].session \/ job.pc = "bind"
      BY <3>1, <3>2, <1>a DEF RowState
    <3> HIDE DEF r
    <3>4. r.pid => effects[Slot].processes = 1
      BY <1>0, <3>2, <3>3 DEF SlotAgrees
    <3>5. r.session => effects[Slot].sessions = 1
      BY <1>0, <3>1, <3>2, <3>3, HolderNames DEF SlotAgrees, EffectsAt
    <3> QED BY <1>0, <3>1, <3>2, <3>a, <3>3, <3>4, <3>5, RowChanges
  <2>9. CASE FenceExec
    <3>1. /\ job.pc \notin {"none", "mark"} /\ UNCHANGED <<row, effects>>
          /\ journal' = [journal EXCEPT ![Slot] = "exec_started"]
      BY <2>9 DEF FenceExec, At, HelperFence, Advance
    <3>2. \A s \in Slots : pane'[s] = "provider" => pane[s] = "provider"
      BY <2>9, <1>a DEF FenceExec, HelperFence, Advance
    <3>3. /\ Slot \in Slots /\ journal[Slot] \notin {"absent", "rolled_back"}
          /\ effects[Slot].sessions = 1 =>
               "exec_started" \in {"effect_started", "exec_started", "exec_proven", "recovery", "committed"}
          /\ effects[Slot].processes = 1 => "exec_started" \in {"exec_started", "exec_proven"}
          /\ "exec_started" = "exec_proven" => effects[Slot].processes = 1
      BY <2>9, <3>1, <1>0, HolderNames DEF FenceExec, At, HelperFence, Advance, JournalAt, EffectsAt, SlotAgrees
    <3>4. "exec_started" \in Phases
      BY DEF Phases, Consumed, Fenced
    <3> QED BY <1>0, <3>1, <3>2, <3>3, <3>4, JournalMoves
  <2>10. CASE ExecProvider
    <3>1. /\ job.pc = "exec" /\ UNCHANGED <<journal, row>>
          /\ effects' = [effects EXCEPT ![Slot].processes = @ + 1]
          /\ pane' = [pane EXCEPT ![Slot] = "provider"]
      BY <2>10 DEF ExecProvider, SetPane, At
    <3>2. /\ Slot \in Slots /\ journal[Slot] = "exec_started" /\ effects[Slot].processes = 0
          /\ effects[Slot] \in [sessions : Nat, processes : Nat]
      BY <3>1, HolderNames DEF JournalAt, EffectsAt, TypeOK
    <3> PICK n \in Slots : n = Slot
      BY <3>2
    <3>3. /\ effects'[n].processes = 1 /\ effects'[n].sessions = effects[n].sessions
          /\ \A s \in Slots \ {n} : effects'[s] = effects[s] /\ pane'[s] = pane[s]
      BY <3>1, <3>2 DEF TypeOK
    <3>4. SlotAgrees(n)'
      BY <1>0, <3>1, <3>2, <3>3 DEF SlotAgrees
    <3> QED BY <1>0, <3>1, <3>3, <3>4, SlotChanges
  <2>11. CASE PostFails
    <3>1. job.pc = "post" /\ UNCHANGED <<journal, row, pane>>
      BY <2>11 DEF PostFails, At
    <3>2. CASE effects' = effects
      BY <3>1, <3>2, <1>0 DEF SlotAgrees
    <3>3. CASE effects' = [effects EXCEPT ![Slot].sessions = @ + 1]
      BY <1>0, <3>1, <3>3, SessionPosted
    <3> QED BY <2>11, <3>2, <3>3 DEF PostFails
  <2>12. CASE StepFails
    BY <2>12, <1>0, <1>a, PaneChanges DEF StepFails
  <2>13. CASE ExecFails
    BY <2>13, <1>0, <1>a, PaneChanges DEF ExecFails
  <2>14. CASE RecordRecovery
    <3>1. /\ job.pc \notin {"none", "mark"} /\ UNCHANGED <<row, effects>>
          /\ journal' = [journal EXCEPT ![Slot] = "recovery"]
      BY <2>14 DEF RecordRecovery, At, HelperEnds, Advance, SetPane
    <3>2. \A s \in Slots : pane'[s] = "provider" => pane[s] = "provider"
      BY <2>14, <1>a DEF RecordRecovery, HelperEnds, Advance, SetPane
    <3>3. /\ Slot \in Slots /\ journal[Slot] \notin {"absent", "rolled_back"}
          /\ effects[Slot].sessions = 1 =>
               "recovery" \in {"effect_started", "exec_started", "exec_proven", "recovery", "committed"}
          /\ effects[Slot].processes = 1 => "recovery" \in {"exec_started", "exec_proven"}
          /\ "recovery" = "exec_proven" => effects[Slot].processes = 1
      BY <2>14, <3>1, <1>0, HolderNames DEF RecordRecovery, At, HelperEnds, Advance, SetPane, JournalAt, EffectsAt, SlotAgrees
    <3>4. "recovery" \in Phases
      BY DEF Phases, Consumed, Fenced
    <3> QED BY <1>0, <3>1, <3>2, <3>3, <3>4, JournalMoves
  <2>15. CASE RecordKnownAbsent
    <3>1. /\ job.pc \notin {"none", "mark"} /\ UNCHANGED <<row, effects>>
          /\ journal' = [journal EXCEPT ![Slot] = "known_absent"]
      BY <2>15 DEF RecordKnownAbsent, At, HelperEnds, Advance, SetPane
    <3>2. \A s \in Slots : pane'[s] = "provider" => pane[s] = "provider"
      BY <2>15, <1>a DEF RecordKnownAbsent, HelperEnds, Advance, SetPane
    <3>3. /\ Slot \in Slots /\ journal[Slot] \notin {"absent", "rolled_back"}
          /\ effects[Slot].sessions = 1 =>
               "known_absent" \in {"effect_started", "exec_started", "exec_proven", "recovery", "committed"}
          /\ effects[Slot].processes = 1 => "known_absent" \in {"exec_started", "exec_proven"}
          /\ "known_absent" = "exec_proven" => effects[Slot].processes = 1
      BY <2>15, <3>1, <1>0, HolderNames DEF RecordKnownAbsent, At, HelperEnds, Advance, SetPane, JournalAt, EffectsAt, SlotAgrees
    <3>4. "known_absent" \in Phases
      BY DEF Phases, Consumed, Fenced
    <3> QED BY <1>0, <3>1, <3>2, <3>3, <3>4, JournalMoves
  <2>16. CASE HelperDies
    BY <2>16, <1>0, <1>a, PaneChanges DEF HelperDies, SetPane
  <2>17. ASSUME NEW s \in Slots, HelperRefused(s) PROVE \A n \in Slots : SlotAgrees(n)'
    BY <2>17, <1>0, <1>a, PaneChanges DEF HelperRefused
  <2> QED BY <1>3, <2>1, <2>2, <2>3, <2>4, <2>5, <2>6, <2>7, <2>8, <2>9, <2>10, <2>11, <2>12, <2>13, <2>14, <2>15, <2>16, <2>17 DEF Helper
<1>4. CASE Prove
  <2>1. ASSUME NEW p \in Presentations, BeginProve(p) PROVE \A n \in Slots : SlotAgrees(n)'
    BY <2>1, <1>0, <1>a, PaneChanges DEF BeginProve
  <2>2. ASSUME NEW p \in Presentations, BeginComplete(p) PROVE \A n \in Slots : SlotAgrees(n)'
    BY <2>2, <1>0, <1>a, PaneChanges DEF BeginComplete
  <2>3. ASSUME NEW p \in Presentations, BeginRetire(p) PROVE \A n \in Slots : SlotAgrees(n)'
    BY <2>3, <1>0, <1>a, PaneChanges DEF BeginRetire
  <2>4. CASE RecordProcess
    <3> DEFINE r == [row[Slot] EXCEPT !.pid = TRUE]
    <3>1. job.pc = "record" /\ UNCHANGED <<pane, effects>> /\ row' = [row EXCEPT ![Slot] = r]
      BY <2>4 DEF RecordProcess, At
    <3>2. Slot \in Slots /\ journal[Slot] = "exec_started" /\ effects[Slot].processes = 1
      BY <3>1, HolderNames DEF JournalAt, EffectsAt
    <3> PICK n \in Slots : n = Slot
      BY <3>2
    <3>3. journal'[n] \in {"exec_started", "exec_proven"}
      BY <2>4, <3>2, <1>a DEF RecordProcess, Advance
    <3>4. /\ row'[n] = r
          /\ \A s \in Slots \ {n} : journal'[s] = journal[s] /\ row'[s] = row[s]
      BY <2>4, <3>1, <1>a DEF RecordProcess, Advance
    <3>a. r \in RowState
      BY <3>2, <1>a, RowTyped
    <3>5. r.provider = row[n].provider /\ r.session = row[n].session
      BY <3>2, <1>a DEF RowState
    <3> HIDE DEF r
    <3>6. r # NoRow
      BY <1>0, <3>2, <3>a, <3>5, RowIsOwned DEF SlotAgrees
    <3>7. SlotAgrees(n)'
      BY <1>0, <3>1, <3>2, <3>3, <3>4, <3>5, <3>6 DEF SlotAgrees
    <3> QED BY <1>0, <3>1, <3>4, <3>7, SlotChanges
  <2>5. CASE SpawnObserver
    <3> DEFINE r == [row[Slot] EXCEPT !.handle = "spawned"]
    <3>1. job.pc = "spawn" /\ UNCHANGED <<journal, pane, effects>> /\ row' = [row EXCEPT ![Slot] = r]
      BY <2>5 DEF SpawnObserver, At
    <3>2. Slot \in Slots /\ row[Slot] # NoRow
      BY <3>1, <1>0, HolderNames DEF JournalAt, SlotAgrees
    <3>a. r \in RowState
      BY <3>2, <1>a, RowTyped
    <3>3. /\ r.provider = row[Slot].provider /\ r.pid = row[Slot].pid
          /\ r.session => row[Slot].session \/ job.pc = "bind"
      BY <3>1, <3>2, <1>a DEF RowState
    <3> HIDE DEF r
    <3>4. r.pid => effects[Slot].processes = 1
      BY <1>0, <3>2, <3>3 DEF SlotAgrees
    <3>5. r.session => effects[Slot].sessions = 1
      BY <1>0, <3>1, <3>2, <3>3, HolderNames DEF SlotAgrees, EffectsAt
    <3> QED BY <1>0, <3>1, <3>2, <3>a, <3>3, <3>4, <3>5, RowChanges
  <2>6. CASE AwaitObserver
    BY <2>6, <1>0, <1>a, PaneChanges DEF AwaitObserver
  <2>7. CASE FinalizeProof
    <3>1. /\ job.pc \notin {"none", "mark"} /\ UNCHANGED <<row, effects>>
          /\ journal' = [journal EXCEPT ![Slot] = "exec_proven"]
      BY <2>7 DEF FinalizeProof, At, Advance
    <3>2. \A s \in Slots : pane'[s] = "provider" => pane[s] = "provider"
      BY <2>7, <1>a DEF FinalizeProof, Advance
    <3>3. /\ Slot \in Slots /\ journal[Slot] \notin {"absent", "rolled_back"}
          /\ effects[Slot].sessions = 1 =>
               "exec_proven" \in {"effect_started", "exec_started", "exec_proven", "recovery", "committed"}
          /\ effects[Slot].processes = 1 => "exec_proven" \in {"exec_started", "exec_proven"}
          /\ "exec_proven" = "exec_proven" => effects[Slot].processes = 1
      BY <2>7, <3>1, <1>0, HolderNames DEF FinalizeProof, At, Advance, JournalAt, EffectsAt, SlotAgrees
    <3>4. "exec_proven" \in Phases
      BY DEF Phases, Consumed, Fenced
    <3> QED BY <1>0, <3>1, <3>2, <3>3, <3>4, JournalMoves
  <2>8. CASE CompleteMarker
    BY <2>8, <1>0, <1>a, PaneChanges DEF CompleteMarker
  <2>9. CASE RetireMarker
    BY <2>9, <1>0, <1>a, PaneChanges DEF RetireMarker
  <2> QED BY <1>4, <2>1, <2>2, <2>3, <2>4, <2>5, <2>6, <2>7, <2>8, <2>9 DEF Prove
<1>5. CASE Reconcile
  <2>1. ASSUME NEW p \in Presentations, BeginRepair(p) PROVE \A n \in Slots : SlotAgrees(n)'
    BY <2>1, <1>0, <1>a, PaneChanges DEF BeginRepair
  <2>2. ASSUME NEW p \in Presentations, BeginReconcile(p) PROVE \A n \in Slots : SlotAgrees(n)'
    BY <2>2, <1>0, <1>a, PaneChanges DEF BeginReconcile
  <2>3. ASSUME NEW p \in Presentations, BeginClose(p) PROVE \A n \in Slots : SlotAgrees(n)'
    BY <2>3, <1>0, <1>a, PaneChanges DEF BeginClose
  <2>4. CASE RepairMarker
    BY <2>4, <1>0, <1>a, PaneChanges DEF RepairMarker
  <2>5. CASE CancelOnboarding
    <3> DEFINE phase == IF journal[Slot] = "absent" THEN "absent" ELSE "rolled_back"
    <3>1. job.pc = "cancel" /\ UNCHANGED <<pane, effects>> /\ row' = [row EXCEPT ![Slot] = NoRow]
      BY <2>5 DEF CancelOnboarding
    <3>2. journal' = [journal EXCEPT ![Slot] = phase] /\ journal[Slot] \in Unowned
      BY <2>5 DEF CancelOnboarding, Cancellable, Unowned
    <3>3. Slot \in Slots
      BY <3>1, HolderNames
    <3> PICK n \in Slots : n = Slot
      BY <3>3
    <3>4. /\ journal'[n] \in {"absent", "rolled_back"} /\ row'[n] = NoRow
          /\ \A s \in Slots \ {n} : journal'[s] = journal[s] /\ row'[s] = row[s]
      BY <3>1, <3>2, <1>a
    <3> HIDE DEF phase
    <3>5. ~NoRow.pid /\ ~NoRow.session
      BY DEF NoRow
    <3>6. SlotAgrees(n)'
      BY <1>0, <3>1, <3>2, <3>4, <3>5 DEF SlotAgrees, Unowned
    <3> QED BY <1>0, <3>1, <3>4, <3>6, SlotChanges
  <2>6. CASE StopServer
    BY <2>6, <1>0, <1>a, PaneChanges DEF StopServer, SetPane
  <2>7. CASE RemoveArtifacts
    BY <2>7, <1>0, <1>a, PaneChanges DEF RemoveArtifacts
  <2>8. CASE UnmarkSlot
    BY <2>8, <1>0, <1>a, PaneChanges DEF UnmarkSlot
  <2> QED BY <1>5, <2>1, <2>2, <2>3, <2>4, <2>5, <2>6, <2>7, <2>8 DEF Reconcile
<1>6. CASE Runtime
  <2>1. ASSUME NEW s \in Slots, ObserverReady(s) PROVE \A n \in Slots : SlotAgrees(n)'
    <3> DEFINE r == [row[s] EXCEPT !.handle = "ready"]
    <3>1. UNCHANGED <<journal, pane, effects>> /\ row' = [row EXCEPT ![s] = r]
      BY <2>1 DEF ObserverReady
    <3>2. row[s] # NoRow
      BY <2>1, <1>0 DEF ObserverReady, SlotAgrees, NoRow
    <3>a. r \in RowState
      BY <1>a, RowTyped
    <3>3. r.provider = row[s].provider /\ r.pid = row[s].pid /\ r.session = row[s].session
      BY <1>a DEF RowState
    <3> HIDE DEF r
    <3>4. r.pid => effects[s].processes = 1
      BY <1>0, <3>3 DEF SlotAgrees
    <3>5. r.session => effects[s].sessions = 1
      BY <1>0, <3>3 DEF SlotAgrees
    <3>6. \A n \in Slots : pane'[n] = "provider" => pane[n] = "provider"
      BY <2>1, <1>a DEF ObserverReady
    <3> QED BY <1>0, <3>1, <3>2, <3>a, <3>3, <3>4, <3>5, <3>6, RowChanges
  <2>2. ASSUME NEW s \in Slots, ObserverFails(s) PROVE \A n \in Slots : SlotAgrees(n)'
    <3> DEFINE r == [row[s] EXCEPT !.handle = "unknown"]
    <3>1. UNCHANGED <<journal, pane, effects>> /\ row' = [row EXCEPT ![s] = r]
      BY <2>2 DEF ObserverFails
    <3>2. row[s] # NoRow
      BY <2>2, <1>0 DEF ObserverFails, SlotAgrees, NoRow
    <3>a. r \in RowState
      BY <1>a, RowTyped
    <3>3. r.provider = row[s].provider /\ r.pid = row[s].pid /\ r.session = row[s].session
      BY <1>a DEF RowState
    <3> HIDE DEF r
    <3>4. r.pid => effects[s].processes = 1
      BY <1>0, <3>3 DEF SlotAgrees
    <3>5. r.session => effects[s].sessions = 1
      BY <1>0, <3>3 DEF SlotAgrees
    <3>6. \A n \in Slots : pane'[n] = "provider" => pane[n] = "provider"
      BY <2>2, <1>a DEF ObserverFails
    <3> QED BY <1>0, <3>1, <3>2, <3>a, <3>3, <3>4, <3>5, <3>6, RowChanges
  <2>3. ASSUME NEW s \in Slots, Observed(s) PROVE \A n \in Slots : SlotAgrees(n)'
    <3> DEFINE r == [row[s] EXCEPT !.life = "active"]
    <3>1. UNCHANGED <<journal, pane, effects>> /\ row' = [row EXCEPT ![s] = r]
      BY <2>3 DEF Observed
    <3>2. row[s] # NoRow
      BY <2>3, <1>0 DEF Observed, SlotAgrees, NoRow
    <3>a. r \in RowState
      BY <1>a, RowTyped
    <3>3. r.provider = row[s].provider /\ r.pid = row[s].pid /\ r.session = row[s].session
      BY <1>a DEF RowState
    <3> HIDE DEF r
    <3>4. r.pid => effects[s].processes = 1
      BY <1>0, <3>3 DEF SlotAgrees
    <3>5. r.session => effects[s].sessions = 1
      BY <1>0, <3>3 DEF SlotAgrees
    <3>6. \A n \in Slots : pane'[n] = "provider" => pane[n] = "provider"
      BY <2>3, <1>a DEF Observed
    <3> QED BY <1>0, <3>1, <3>2, <3>a, <3>3, <3>4, <3>5, <3>6, RowChanges
  <2>4. ASSUME NEW s \in Slots, Park(s) PROVE \A n \in Slots : SlotAgrees(n)'
    <3> DEFINE r == [row[s] EXCEPT !.life = "stopped", !.handle = "none"]
    <3>1. UNCHANGED <<journal, effects>> /\ row' = [row EXCEPT ![s] = r]
      BY <2>4 DEF Park
    <3>2. row[s] # NoRow
      BY <2>4, <1>0 DEF Park, SlotAgrees, NoRow
    <3>a. r \in RowState
      BY <1>a, RowTyped
    <3>3. r.provider = row[s].provider /\ r.pid = row[s].pid /\ r.session = row[s].session
      BY <1>a DEF RowState
    <3> HIDE DEF r
    <3>4. r.pid => effects[s].processes = 1
      BY <1>0, <3>3 DEF SlotAgrees
    <3>5. r.session => effects[s].sessions = 1
      BY <1>0, <3>3 DEF SlotAgrees
    <3>6. \A n \in Slots : pane'[n] = "provider" => pane[n] = "provider"
      BY <2>4, <1>a DEF Park
    <3> QED BY <1>0, <3>1, <3>2, <3>a, <3>3, <3>4, <3>5, <3>6, RowChanges
  <2>5. ASSUME NEW s \in Slots, ResolveParked(s) PROVE \A n \in Slots : SlotAgrees(n)'
    <3>1. /\ journal[s] = "recovery" /\ journal' = [journal EXCEPT ![s] = "committed"]
          /\ UNCHANGED <<row, pane, effects>>
      BY <2>5 DEF ResolveParked
    <3>2. effects[s].processes # 1
      BY <1>0, <3>1 DEF SlotAgrees
    <3> QED BY <1>0, <3>1, <3>2, JournalMoves DEF Phases
  <2>6. ASSUME NEW s \in Slots, Archive(s) PROVE \A n \in Slots : SlotAgrees(n)'
    <3> DEFINE r == [row[s] EXCEPT !.life = "archived"]
    <3>1. UNCHANGED <<journal, pane, effects>> /\ row' = [row EXCEPT ![s] = r]
      BY <2>6 DEF Archive
    <3>2. row[s] # NoRow
      BY <2>6, <1>0 DEF Archive, SlotAgrees, NoRow
    <3>a. r \in RowState
      BY <1>a, RowTyped
    <3>3. r.provider = row[s].provider /\ r.pid = row[s].pid /\ r.session = row[s].session
      BY <1>a DEF RowState
    <3> HIDE DEF r
    <3>4. r.pid => effects[s].processes = 1
      BY <1>0, <3>3 DEF SlotAgrees
    <3>5. r.session => effects[s].sessions = 1
      BY <1>0, <3>3 DEF SlotAgrees
    <3>6. \A n \in Slots : pane'[n] = "provider" => pane[n] = "provider"
      BY <2>6, <1>a DEF Archive
    <3> QED BY <1>0, <3>1, <3>2, <3>a, <3>3, <3>4, <3>5, <3>6, RowChanges
  <2> QED BY <1>6, <2>1, <2>2, <2>3, <2>4, <2>5, <2>6 DEF Runtime
<1>7. CASE Failure
  <2>1. CASE Abort
    BY <2>1, <1>0, <1>a, PaneChanges DEF Abort
  <2>2. CASE TearMarker
    BY <2>2, <1>0, <1>a, PaneChanges DEF TearMarker
  <2>3. ASSUME NEW s \in Slots, ShellExits(s) PROVE \A n \in Slots : SlotAgrees(n)'
    BY <2>3, <1>0, <1>a, PaneChanges DEF ShellExits
  <2>4. ASSUME NEW s \in Slots, ProviderExits(s) PROVE \A n \in Slots : SlotAgrees(n)'
    BY <2>4, <1>0, <1>a, PaneChanges DEF ProviderExits
  <2>5. ASSUME NEW s \in Slots, ServerLost(s) PROVE \A n \in Slots : SlotAgrees(n)'
    BY <2>5, <1>0, <1>a, PaneChanges DEF ServerLost
  <2> QED BY <1>7, <2>1, <2>2, <2>3, <2>4, <2>5 DEF Failure
<1>8. CASE UNCHANGED vars
  BY <1>8, <1>0, PaneChanges DEF vars
<1> QED BY <1>1, <1>2, <1>3, <1>4, <1>5, <1>6, <1>7, <1>8 DEF Next

-----------------------------------------------------------------------------
(* The invariant.                                                          *)

\* The invariant holds of an empty state root.
LEMMA InitInvariant == Init => IInv
<1> SUFFICES ASSUME Init PROVE IInv
  OBVIOUS
<1>1. TypeOK
  BY DEF Init, TypeOK, NoMarker, Markers, Phases, NoRow, RowState, PaneState, NoEffects, NoJob, Kinds, Steps
<1>2. /\ \A p \in Presentations : marker[p].phase = "none"
      /\ \A s \in Slots : /\ journal[s] = "absent" /\ row[s] = NoRow /\ pane[s] = "none" /\ ~dir[s]
                          /\ effects[s].sessions = 0 /\ effects[s].processes = 0
  BY DEF Init, NoMarker, NoEffects
<1>3. \A p \in Presentations, s \in Slots : ~Names(p, s)
  BY <1>2 DEF Names
<1>4. MarkersAreApart /\ MarkerAgrees
  BY <1>2, <1>3 DEF MarkersAreApart, MarkerAgrees
<1>5. CandidateIsSole
  BY <1>3 DEF CandidateIsSole
<1>6. NothingIsOrphaned
  BY <1>2 DEF NothingIsOrphaned, Unresolved, Fenced
<1>7. \A s \in Slots : SlotAgrees(s)
  <2>1. ~NoRow.pid /\ ~NoRow.session
    BY DEF NoRow
  <2> QED BY <1>2, <2>1 DEF SlotAgrees
<1>8. EffectsAgree
  BY <1>1, <1>7, EffectsBySlot
<1>9. JobAgrees
  BY DEF Init, JobAgrees
<1> QED BY <1>1, <1>4, <1>5, <1>6, <1>8, <1>9 DEF IInv, EffectsAgree

\* Every step keeps the invariant.
LEMMA StepInvariant == IInv /\ [Next]_vars => IInv'
<1> SUFFICES ASSUME IInv, [Next]_vars PROVE IInv'
  OBVIOUS
<1>1. StoresAgree /\ EffectsAgree
  BY DEF IInv, StoresAgree, EffectsAgree
<1>2. TypeOK'
  BY TypeStep DEF IInv
<1>3. JobAgrees'
  BY JobAgreesStep DEF IInv
<1>4. StoresAgree'
  BY <1>1, StoresStep DEF IInv
<1>5. EffectsAgree'
  BY <1>1, <1>2, EffectsStep DEF IInv
<1> QED BY <1>2, <1>3, <1>4, <1>5 DEF IInv, StoresAgree, EffectsAgree

\* IInv is an invariant: the holder of the lease finds what its last step left, and
\* both stores agree with each other and with what really happened.
THEOREM OnboardingInvariant == Spec => []IInv
BY InitInvariant, StepInvariant, PTL DEF Spec

\* Every variable keeps its type (TypeOK).
THEOREM OnboardingTypeCorrect == Spec => []TypeOK
<1>1. IInv => TypeOK
  BY DEF IInv
<1> QED BY <1>1, OnboardingInvariant, PTL

\* The new-session card is a singleton, whatever fails and in whatever order
\* (AtMostOneCandidate): a slot with a directory or a server is named by a marker,
\* and only one marker names a slot that is not owned.
THEOREM CandidateIsSingleton == Spec => []AtMostOneCandidate
<1>1. IInv => AtMostOneCandidate
  <2> SUFFICES ASSUME IInv, NEW s \in Slots, NEW t \in Slots,
                      journal[s] \in Unowned, dir[s] \/ pane[s] # "none",
                      journal[t] \in Unowned, dir[t] \/ pane[t] # "none"
               PROVE  s = t
    BY DEF AtMostOneCandidate
  <2>1. PICK p \in Presentations : Names(p, s)
    BY DEF IInv, NothingIsOrphaned
  <2>2. PICK q \in Presentations : Names(q, t)
    BY DEF IInv, NothingIsOrphaned
  <2>3. p = q
    BY <2>1, <2>2 DEF IInv, CandidateIsSole
  <2> QED BY <2>1, <2>2, <2>3 DEF Names
<1> QED BY <1>1, OnboardingInvariant, PTL

\* A recovery path can find everything that needs a decision (NothingIsOrphaned).
THEOREM RecoveryFindsEverything == Spec => []NothingIsOrphaned
<1>1. IInv => NothingIsOrphaned
  BY DEF IInv
<1> QED BY <1>1, OnboardingInvariant, PTL

\* The marker and the journal are one write apart at the most, and no slot has two
\* markers (MarkerAgrees).
THEOREM StoresStayTogether == Spec => []MarkerAgrees
<1>1. IInv => MarkerAgrees
  BY DEF IInv
<1> QED BY <1>1, OnboardingInvariant, PTL

\* The journal fences every effect before it happens, and each happens once at the
\* most (EffectsAreFenced).
THEOREM FencesPrecedeEffects == Spec => []EffectsAreFenced
<1>1. IInv => EffectsAreFenced
  BY DEF IInv
<1> QED BY <1>1, OnboardingInvariant, PTL

\* A Runtime row exists while its operation reserves or owns it, and what it records
\* of the process and the session is true (RowAgrees).
THEOREM RowsTellTheTruth == Spec => []RowAgrees
<1>1. IInv => RowAgrees
  BY DEF IInv
<1> QED BY <1>1, OnboardingInvariant, PTL

-----------------------------------------------------------------------------
(* The safety half of CodexIsProven: what its proof needs stays there.      *)

\* The phases of a reservation that has not been proven or given up, and those of
\* a helper that is past its marker.
Awaiting == {"capability_issued", "runtime_owned", "preparation", "effect_started", "exec_started"}
Executing == {"preparation", "effect_started", "exec_started"}

\* A Codex that has not been proven has a starting Runtime without a process.
CodexAwaits ==
  \A s \in Slots : row[s].provider = "codex" /\ journal[s] \in Awaiting =>
    row[s].life = "starting" /\ ~row[s].pid

\* A helper that goes on has a marker that the reconciler will find.
Owned(s) == \E p \in Presentations : marker[p].phase = "runtime_owned" /\ marker[p].slot = s
ExecIsOwned == \A s \in Slots : journal[s] \in Executing => Owned(s)

\* What a step may do to a slot: leave its row and phase alone, reserve it, move
\* its phase along, cancel it, or write of its row what a waiting Codex has not.
Reserved(s) ==
  /\ journal'[s] = "capability_issued" /\ row'[s].life = "starting" /\ ~row'[s].pid
SlotStep(s) ==
  \/ row'[s] = row[s] /\ (journal'[s] = journal[s] \/ journal'[s] \in NextPhases(journal[s]))
  \/ row'[s] = row[s] /\ journal[s] = "recovery" /\ journal'[s] = "committed"
  \/ journal[s] \notin Executing /\ Reserved(s)
  \/ journal[s] \notin Executing /\ row'[s] = NoRow /\ journal'[s] \notin Awaiting
  \/ row'[s].provider = row[s].provider /\ journal'[s] = journal[s]
       /\ row'[s].life = row[s].life /\ row'[s].pid = row[s].pid
  \/ row'[s].provider = row[s].provider /\ journal'[s] = journal[s]
       /\ (row[s].pid \/ row[s].provider # "codex" \/ journal[s] \notin Awaiting)
  \/ row'[s].provider = row[s].provider /\ journal[s] = "exec_started" /\ journal'[s] = "exec_proven"

\* A marker that owns its Runtime stays until its proof is committed.
OwnersStay ==
  \A p \in Presentations : marker[p].phase = "runtime_owned" =>
    marker'[p] = marker[p] \/ (journal[marker[p].slot] = "exec_proven" /\ journal' = journal)

\* Only the phase of the slot moves, and as the journal accepts it.
LEMMA AdvanceMoves ==
  ASSUME TypeOK, NEW n \in Slots, NEW phase \in Phases, Advance(n, phase)
  PROVE  \A s \in Slots : journal'[s] = journal[s] \/ journal'[s] \in NextPhases(journal[s])
BY DEF Advance, TypeOK

\* A step that writes neither rows nor journal.
LEMMA SlotQuiet ==
  ASSUME UNCHANGED <<journal, row>>
  PROVE  \A s \in Slots : SlotStep(s)
BY DEF SlotStep

\* A step that writes one row and no phase.
LEMMA SlotRow ==
  ASSUME TypeOK, NEW n \in Slots, NEW r \in RowState, row' = [row EXCEPT ![n] = r], UNCHANGED journal,
         r.provider = row[n].provider,
         \/ r.life = row[n].life /\ r.pid = row[n].pid
         \/ row[n].pid \/ row[n].provider # "codex" \/ journal[n] \notin Awaiting
  PROVE  \A s \in Slots : SlotStep(s)
<1>1. \A s \in Slots : row'[s] = IF s = n THEN r ELSE row[s]
  BY DEF TypeOK
<1> QED BY <1>1 DEF SlotStep

\* Every step treats the slots so.
LEMMA SlotsStep ==
  ASSUME IInv, [Next]_vars
  PROVE  \A s \in Slots : SlotStep(s)
<1>0. /\ row \in [Slots -> RowState] /\ journal \in [Slots -> Phases] /\ TypeOK
      /\ job.pc # "none" => Slot \in Slots /\ journal[Slot] \in JournalAt(job.pc)
  BY JobHeld DEF IInv, TypeOK, Slot
<1>1. CASE Materialize
  BY <1>1, SlotQuiet DEF Materialize, BeginMaterialize, WriteNewMarker, CreateDirectory, NewSession, RecordShellEvidence
<1>2. CASE Gate
  <2>1. ASSUME NEW provider \in Providers, ReserveOnboarding(provider) PROVE \A s \in Slots : SlotStep(s)
    <3> DEFINE next == [NoRow EXCEPT !.life = "starting", !.provider = provider]
    <3>1. Slot \in Slots /\ journal[Slot] = "absent"
      BY <2>1, <1>0 DEF ReserveOnboarding, At, JournalAt
    <3>2. next.life = "starting" /\ ~next.pid
      BY DEF NoRow
    <3>3. \A s \in Slots : IF s = Slot THEN journal'[s] = "capability_issued" /\ row'[s] = next
                                       ELSE journal'[s] = journal[s] /\ row'[s] = row[s]
      BY <2>1, <1>0 DEF ReserveOnboarding
    <3> HIDE DEF next
    <3> QED BY <3>1, <3>2, <3>3 DEF SlotStep, Reserved, Executing
  <2> QED BY <1>2, <2>1, SlotQuiet DEF Gate, BeginGate, IssueHandoff, DeliverCapability
<1>3. CASE Helper
  <2>1. ASSUME NEW pc \in Steps \ {"none"}, NEW phase \in Phases, NEW next, HelperFence(pc, phase, next)
        PROVE  \A s \in Slots : SlotStep(s)
    BY <2>1, <1>0, AdvanceMoves DEF HelperFence, At, SlotStep
  <2>2. ASSUME NEW pc \in Steps \ {"none"}, NEW phase \in Phases, HelperEnds(pc, phase)
        PROVE  \A s \in Slots : SlotStep(s)
    BY <2>2, <1>0, AdvanceMoves DEF HelperEnds, At, SlotStep
  <2>3. CASE ConsumeCapability \/ PrepareProvider \/ FenceEffect \/ FenceExec
    BY <2>1, <2>3 DEF ConsumeCapability, PrepareProvider, FenceEffect, FenceExec, Phases, Consumed, Fenced, Steps
  <2>4. CASE RecordRecovery \/ RecordKnownAbsent
    BY <2>2, <2>4 DEF RecordRecovery, RecordKnownAbsent, Phases, Consumed, Fenced, Steps
  <2>5. CASE BindSession
    <3>1. Slot \in Slots /\ row' = [row EXCEPT ![Slot] = [row[Slot] EXCEPT !.session = TRUE]] /\ journal' = journal
      BY <2>5, <1>0 DEF BindSession, At
    <3>2. [row[Slot] EXCEPT !.session = TRUE] \in RowState
      BY <3>1, <1>0, RowTyped
    <3> QED BY <3>1, <3>2, <1>0, SlotRow DEF RowState
  <2>6. CASE RecordHandle
    <3>1. Slot \in Slots /\ row' = [row EXCEPT ![Slot] = [row[Slot] EXCEPT !.handle = "starting"]] /\ journal' = journal
      BY <2>6, <1>0 DEF RecordHandle, At
    <3>2. [row[Slot] EXCEPT !.handle = "starting"] \in RowState
      BY <3>1, <1>0, RowTyped
    <3> QED BY <3>1, <3>2, <1>0, SlotRow DEF RowState
  <2>7. CASE UNCHANGED <<journal, row>>
    BY <2>7, SlotQuiet
  <2> QED BY <1>3, <2>3, <2>4, <2>5, <2>6, <2>7
        DEF Helper, BeginHelper, OwnMarker, CreateSession, ExecProvider, PostFails, StepFails, ExecFails, HelperDies,
            HelperRefused
<1>4. CASE Prove
  <2>1. CASE RecordProcess
    <3> DEFINE r == [row[Slot] EXCEPT !.pid = TRUE]
    <3>1. /\ Slot \in Slots /\ journal[Slot] = "exec_started" /\ row' = [row EXCEPT ![Slot] = r]
          /\ \/ row[Slot].provider = "codex" /\ journal' = [journal EXCEPT ![Slot] = "exec_proven"]
             \/ row[Slot].provider # "codex" /\ journal' = journal
      BY <2>1, <1>0 DEF RecordProcess, At, Provable, IsCodex, Advance
    <3>a. r \in RowState
      BY <3>1, <1>0, RowTyped
    <3>b. r.provider = row[Slot].provider
      BY <3>1, <1>0 DEF RowState
    <3>2. r \in RowState /\ r.provider = row[Slot].provider
      BY <3>a, <3>b
    <3>3. \A s \in Slots : row'[s] = IF s = Slot THEN r ELSE row[s]
      BY <3>1, <1>0
    <3>4. \A s \in Slots : s # Slot => journal'[s] = journal[s]
      BY <3>1, <1>0
    <3> HIDE DEF r
    <3>5. CASE row[Slot].provider = "codex"
      <4>1. journal'[Slot] = "exec_proven"
        BY <3>1, <3>5, <1>0
      <4> QED BY <3>1, <3>2, <3>3, <3>4, <4>1 DEF SlotStep
    <3>6. CASE row[Slot].provider # "codex"
      BY <3>1, <3>2, <3>6, <1>0, SlotRow
    <3> QED BY <3>5, <3>6
  <2>2. CASE SpawnObserver
    <3>1. Slot \in Slots /\ row' = [row EXCEPT ![Slot] = [row[Slot] EXCEPT !.handle = "spawned"]] /\ journal' = journal
      BY <2>2, <1>0 DEF SpawnObserver, At
    <3>2. [row[Slot] EXCEPT !.handle = "spawned"] \in RowState
      BY <3>1, <1>0, RowTyped
    <3> QED BY <3>1, <3>2, <1>0, SlotRow DEF RowState
  <2>3. CASE FinalizeProof
    <3>1. "exec_proven" \in Phases /\ Slot \in Slots
      BY <2>3, <1>0 DEF Phases, Consumed, FinalizeProof, At
    <3> QED BY <2>3, <3>1, <1>0, AdvanceMoves DEF FinalizeProof, SlotStep
  <2>4. CASE UNCHANGED <<journal, row>>
    BY <2>4, SlotQuiet
  <2> QED BY <1>4, <2>1, <2>2, <2>3, <2>4
        DEF Prove, BeginProve, BeginComplete, BeginRetire, AwaitObserver, CompleteMarker, RetireMarker
<1>5. CASE Reconcile
  <2>1. CASE CancelOnboarding
    <3>1. Slot \in Slots /\ journal[Slot] \in {"absent", "rolled_back", "capability_issued"}
      BY <2>1, <1>0 DEF CancelOnboarding, Cancellable
    <3>2. \A s \in Slots : IF s = Slot THEN row'[s] = NoRow /\ journal'[s] \in {"absent", "rolled_back"}
                                       ELSE journal'[s] = journal[s] /\ row'[s] = row[s]
      BY <2>1, <3>1, <1>0 DEF CancelOnboarding
    <3> QED BY <3>1, <3>2 DEF SlotStep, Executing, Awaiting
  <2> QED BY <1>5, <2>1, SlotQuiet
        DEF Reconcile, BeginRepair, BeginReconcile, BeginClose, RepairMarker, StopServer, RemoveArtifacts, UnmarkSlot
<1>6. CASE Runtime
  <2>1. PICK n \in Slots : ObserverReady(n) \/ ObserverFails(n) \/ Observed(n) \/ Park(n) \/ ResolveParked(n) \/ Archive(n)
    BY <1>6 DEF Runtime
  <2>2. /\ row[n] \in RowState
        /\ \A h \in {"ready", "unknown"} : [row[n] EXCEPT !.handle = h] \in RowState
        /\ \A life \in {"active", "archived"} : [row[n] EXCEPT !.life = life] \in RowState
        /\ [row[n] EXCEPT !.life = "stopped", !.handle = "none"] \in RowState
    BY <1>0, RowTyped
  <2>3. CASE ObserverReady(n) \/ ObserverFails(n)
    <3>1. PICK h \in {"ready", "unknown"} : row' = [row EXCEPT ![n] = [row[n] EXCEPT !.handle = h]] /\ journal' = journal
      BY <2>3 DEF ObserverReady, ObserverFails
    <3> DEFINE r == [row[n] EXCEPT !.handle = h]
    <3>2. r \in RowState /\ r.provider = row[n].provider /\ r.life = row[n].life /\ r.pid = row[n].pid
      BY <2>2 DEF RowState
    <3>3. row' = [row EXCEPT ![n] = r] /\ UNCHANGED journal
      BY <3>1
    <3> HIDE DEF r
    <3> QED BY <3>2, <3>3, <1>0, SlotRow
  <2>4. CASE Observed(n)
    <3> DEFINE r == [row[n] EXCEPT !.life = "active"]
    <3>1. row' = [row EXCEPT ![n] = r] /\ UNCHANGED journal /\ row[n].pid
      BY <2>4 DEF Observed, Awaiting
    <3>2. r \in RowState /\ r.provider = row[n].provider
      BY <2>2 DEF RowState
    <3> HIDE DEF r
    <3> QED BY <3>1, <3>2, <1>0, SlotRow
  <2>5. CASE Park(n)
    <3> DEFINE r == [row[n] EXCEPT !.life = "stopped", !.handle = "none"]
    <3>1. row' = [row EXCEPT ![n] = r] /\ UNCHANGED journal /\ journal[n] \notin Awaiting
      BY <2>5 DEF Park, Awaiting
    <3>2. r \in RowState /\ r.provider = row[n].provider
      BY <2>2 DEF RowState
    <3> HIDE DEF r
    <3> QED BY <3>1, <3>2, <1>0, SlotRow
  <2>6. CASE Archive(n)
    <3> DEFINE r == [row[n] EXCEPT !.life = "archived"]
    <3>1. row' = [row EXCEPT ![n] = r] /\ UNCHANGED journal /\ journal[n] \notin Awaiting
      BY <2>6 DEF Archive, Awaiting
    <3>2. r \in RowState /\ r.provider = row[n].provider
      BY <2>2 DEF RowState
    <3> HIDE DEF r
    <3> QED BY <3>1, <3>2, <1>0, SlotRow
  <2>7. CASE ResolveParked(n)
    <3>1. /\ journal[n] = "recovery" /\ row' = row
          /\ \A s \in Slots : journal'[s] = IF s = n THEN "committed" ELSE journal[s]
      BY <2>7, <1>0 DEF ResolveParked
    <3>2. row'[n] = row[n] /\ journal[n] \notin Executing
      BY <3>1 DEF Executing
    <3> QED BY <3>1, <3>2 DEF SlotStep
  <2> QED BY <2>1, <2>3, <2>4, <2>5, <2>6, <2>7
<1>7. CASE Failure
  BY <1>7, SlotQuiet DEF Failure, Abort, TearMarker, ShellExits, ProviderExits, ServerLost
<1>8. CASE UNCHANGED vars
  BY <1>8, SlotQuiet DEF vars
<1> QED BY <1>1, <1>2, <1>3, <1>4, <1>5, <1>6, <1>7, <1>8 DEF Next

\* A provider that ran has run for good.
LEMMA ProcessesStay ==
  ASSUME IInv, [Next]_vars, NEW s \in Slots, effects[s].processes = 1
  PROVE  effects'[s].processes = 1
<1>0. /\ effects \in [Slots -> [sessions : Nat, processes : Nat]] /\ TypeOK
      /\ job.pc # "none" => Slot \in Slots /\ EffectsAt(job.pc, Slot)
  BY JobHeld DEF IInv, TypeOK, Slot
<1>1. CASE CreateSession \/ PostFails
  <2>1. \/ effects' = effects
        \/ Slot \in Slots /\ effects' = [effects EXCEPT ![Slot] = [effects[Slot] EXCEPT !.sessions = effects[Slot].sessions + 1]]
    BY <1>1, <1>0 DEF CreateSession, PostFails, At
  <2> QED BY <2>1, <1>0
<1>2. CASE ExecProvider
  <2>1. /\ Slot \in Slots /\ effects[Slot].processes = 0
        /\ effects' = [effects EXCEPT ![Slot] = [effects[Slot] EXCEPT !.processes = effects[Slot].processes + 1]]
    BY <1>2, <1>0 DEF ExecProvider, At, EffectsAt
  <2> QED BY <2>1, <1>0
<1>3. CASE UNCHANGED effects
  BY <1>3
<1>4. ASSUME NEW pc, NEW phase, NEW next, HelperFence(pc, phase, next) \/ HelperEnds(pc, phase)
      PROVE  UNCHANGED effects
  BY <1>4 DEF HelperFence, HelperEnds
<1>5. CASE Helper
  BY <1>1, <1>2, <1>3, <1>4, <1>5
     DEF Helper, BeginHelper, ConsumeCapability, OwnMarker, PrepareProvider, FenceEffect, BindSession, RecordHandle,
         FenceExec, StepFails, ExecFails, RecordRecovery, RecordKnownAbsent, HelperDies, HelperRefused
<1>6. CASE Materialize \/ Gate
  BY <1>3, <1>6 DEF Materialize, BeginMaterialize, WriteNewMarker, CreateDirectory, NewSession, RecordShellEvidence,
                    Gate, BeginGate, ReserveOnboarding, IssueHandoff, DeliverCapability
<1>7. CASE Prove
  BY <1>3, <1>7 DEF Prove, BeginProve, BeginComplete, BeginRetire, RecordProcess, SpawnObserver, AwaitObserver,
                    FinalizeProof, CompleteMarker, RetireMarker
<1>8. CASE Reconcile
  BY <1>3, <1>8 DEF Reconcile, BeginRepair, BeginReconcile, BeginClose, RepairMarker, CancelOnboarding, StopServer,
                    RemoveArtifacts, UnmarkSlot
<1>9. CASE Runtime \/ Failure \/ UNCHANGED vars
  BY <1>3, <1>9 DEF Runtime, ObserverReady, ObserverFails, Observed, Park, ResolveParked, Archive,
                    Failure, Abort, TearMarker, ShellExits, ProviderExits, ServerLost, vars
<1> QED BY <1>5, <1>6, <1>7, <1>8, <1>9 DEF Next

\* Only the holder of the lease writes a marker, its own, and at these steps.
LEMMA OwnersStep ==
  ASSUME IInv, [Next]_vars
  PROVE  OwnersStay
<1>0. /\ marker \in [Presentations -> MarkerType] /\ TypeOK
      /\ job.pc # "none" =>
           /\ job.pres \in Presentations /\ marker[job.pres].phase \in MarkerAt(job.pc)
           /\ job.pc # "mark" => marker[job.pres].slot = job.slot
           /\ journal[job.slot] \in JournalAt(job.pc)
  BY JobHeld DEF IInv, TypeOK, MarkerType
<1>1. ASSUME job.pres \in Presentations, NEW m, marker' = [marker EXCEPT ![job.pres] = m],
             \/ marker[job.pres].phase # "runtime_owned"
             \/ journal[marker[job.pres].slot] = "exec_proven" /\ journal' = journal
      PROVE  OwnersStay
  BY <1>0, <1>1 DEF OwnersStay
<1>2. CASE /\ job.pc \in {"mark", "observe", "issue", "own", "repair", "retire", "unmark"}
           /\ (\E phase : SetMarker(phase)) \/ RemoveMarker
  <2>1. job.pres \in Presentations /\ marker[job.pres].phase # "runtime_owned"
    BY <1>0, <1>2 DEF MarkerAt, Candidate
  <2> QED BY <1>1, <1>2, <2>1 DEF SetMarker, RemoveMarker
<1>3. CASE job.pc = "complete" /\ (\E phase : SetMarker(phase)) /\ UNCHANGED journal
  <2>1. job.pres \in Presentations /\ journal[marker[job.pres].slot] = "exec_proven"
    BY <1>0, <1>3 DEF JournalAt
  <2> QED BY <1>1, <1>3, <2>1 DEF SetMarker
<1>4. CASE UNCHANGED marker
  BY <1>4 DEF OwnersStay
<1>5. ASSUME NEW pc, NEW phase, NEW next, HelperFence(pc, phase, next) \/ HelperEnds(pc, phase)
      PROVE  UNCHANGED marker
  BY <1>5 DEF HelperFence, HelperEnds
<1>6. CASE Helper
  <2>1. CASE OwnMarker
    BY <1>2, <2>1 DEF OwnMarker, At
  <2> QED BY <1>4, <1>5, <1>6, <2>1
     DEF Helper, BeginHelper, ConsumeCapability, PrepareProvider, FenceEffect, CreateSession, BindSession, RecordHandle,
         FenceExec, ExecProvider, PostFails, StepFails, ExecFails, RecordRecovery, RecordKnownAbsent, HelperDies,
         HelperRefused
<1>7. CASE Materialize \/ Gate
  <2>1. CASE WriteNewMarker \/ RecordShellEvidence \/ IssueHandoff
    BY <1>2, <2>1 DEF WriteNewMarker, RecordShellEvidence, IssueHandoff, At
  <2> QED BY <1>4, <1>7, <2>1 DEF Materialize, BeginMaterialize, CreateDirectory, NewSession,
                    Gate, BeginGate, ReserveOnboarding, DeliverCapability
<1>8. CASE Prove
  <2>1. CASE CompleteMarker \/ RetireMarker
    BY <1>2, <1>3, <2>1 DEF CompleteMarker, RetireMarker, At
  <2> QED BY <1>4, <1>8, <2>1 DEF Prove, BeginProve, BeginComplete, BeginRetire, RecordProcess, SpawnObserver,
                    AwaitObserver, FinalizeProof
<1>9. CASE Reconcile
  <2>1. CASE RepairMarker \/ UnmarkSlot
    BY <1>2, <2>1 DEF RepairMarker, UnmarkSlot, At
  <2> QED BY <1>4, <1>9, <2>1 DEF Reconcile, BeginRepair, BeginReconcile, BeginClose, CancelOnboarding, StopServer,
                    RemoveArtifacts
<1>10. CASE Runtime \/ Failure \/ UNCHANGED vars
  <2>1. CASE TearMarker
    BY <1>2, <1>3, <2>1 DEF TearMarker, MarkerWrites
  <2> QED BY <1>4, <1>10, <2>1 DEF Runtime, ObserverReady, ObserverFails, Observed, Park, ResolveParked, Archive,
                    Failure, Abort, ShellExits, ProviderExits, ServerLost, vars
<1> QED BY <1>6, <1>7, <1>8, <1>9, <1>10 DEF Next

\* The helper leaves its marker behind when it begins to prepare.
LEMMA PreparingIsOwned ==
  ASSUME IInv, [Next]_vars, NEW s \in Slots, journal'[s] \in Executing, journal[s] \notin Executing
  PROVE  Owned(s)
<1>0. journal \in [Slots -> Phases] /\ TypeOK /\ JobAgrees
  BY DEF IInv, TypeOK
<1>1. ASSUME NEW n \in Slots, NEW phase, Advance(n, phase)
      PROVE  s = n /\ journal[n] = "runtime_owned" /\ phase = "preparation"
  <2>1. s = n /\ phase \in Executing /\ journal[n] \notin Executing /\ phase \in NextPhases(journal[n])
    BY <1>0, <1>1 DEF Advance
  <2> QED BY <2>1 DEF NextPhases, Executing
<1>2. CASE UNCHANGED journal
  BY <1>2
<1>3. CASE PrepareProvider
  <2>1. job.pc = "prepare" /\ Advance(Slot, "preparation")
    BY <1>3 DEF PrepareProvider, HelperFence, At
  <2>2. job.pres \in Presentations /\ marker[job.pres].phase = "runtime_owned" /\ marker[job.pres].slot = Slot /\ Slot \in Slots
    BY <1>0, <2>1, JobHeld DEF MarkerAt, Slot
  <2> QED BY <1>1, <2>1, <2>2 DEF Owned
<1>4. CASE ConsumeCapability \/ FenceEffect \/ FenceExec \/ RecordRecovery \/ RecordKnownAbsent \/ FinalizeProof
  <2>1. PICK phase \in {"runtime_owned", "effect_started", "exec_started", "recovery", "known_absent", "exec_proven"} :
          job.pc # "none" /\ Advance(Slot, phase)
    BY <1>4 DEF ConsumeCapability, FenceEffect, FenceExec, RecordRecovery, RecordKnownAbsent, FinalizeProof,
                HelperFence, HelperEnds, At
  <2> QED BY <1>0, <1>1, <2>1, JobHeld DEF Slot
<1>5. CASE RecordProcess
  <2>1. CASE Advance(Slot, "exec_proven")
    BY <1>0, <1>1, <1>5, <2>1, JobHeld DEF RecordProcess, At, Slot
  <2> QED BY <1>2, <1>5, <2>1 DEF RecordProcess
<1>6. CASE \/ \E provider \in Providers : ReserveOnboarding(provider)
           \/ CancelOnboarding \/ \E n \in Slots : ResolveParked(n)
  BY <1>0, <1>6 DEF ReserveOnboarding, CancelOnboarding, ResolveParked, Executing
<1>7. CASE Helper
  BY <1>2, <1>3, <1>4, <1>7
     DEF Helper, BeginHelper, OwnMarker, CreateSession, BindSession, RecordHandle, ExecProvider, PostFails, StepFails,
         ExecFails, HelperDies, HelperRefused
<1>8. CASE Materialize \/ Gate
  BY <1>2, <1>6, <1>8 DEF Materialize, BeginMaterialize, WriteNewMarker, CreateDirectory, NewSession, RecordShellEvidence,
                    Gate, BeginGate, IssueHandoff, DeliverCapability
<1>9. CASE Prove
  BY <1>2, <1>4, <1>5, <1>9 DEF Prove, BeginProve, BeginComplete, BeginRetire, SpawnObserver, AwaitObserver,
                    CompleteMarker, RetireMarker
<1>10. CASE Reconcile
  BY <1>2, <1>6, <1>10 DEF Reconcile, BeginRepair, BeginReconcile, BeginClose, RepairMarker, StopServer,
                    RemoveArtifacts, UnmarkSlot
<1>11. CASE Runtime \/ Failure \/ UNCHANGED vars
  BY <1>2, <1>6, <1>11 DEF Runtime, ObserverReady, ObserverFails, Observed, Park, Archive,
                    Failure, Abort, TearMarker, ShellExits, ProviderExits, ServerLost, vars
<1> QED BY <1>7, <1>8, <1>9, <1>10, <1>11 DEF Next

\* So a Codex keeps what its proof needs.
LEMMA AwaitsStep ==
  ASSUME IInv, CodexAwaits, ExecIsOwned, [Next]_vars
  PROVE  CodexAwaits' /\ ExecIsOwned'
<1>1. \A s \in Slots : SlotStep(s)
  BY SlotsStep
<1>2. ASSUME NEW s \in Slots, row'[s].provider = "codex", journal'[s] \in Awaiting
      PROVE  row'[s].life = "starting" /\ ~row'[s].pid
  BY <1>1, <1>2 DEF SlotStep, Reserved, NextPhases, Awaiting, NoRow, CodexAwaits
<1>3. ASSUME NEW s \in Slots, journal'[s] \in Executing
      PROVE  Owned(s)'
  <2>1. Owned(s)
    BY <1>3, PreparingIsOwned DEF ExecIsOwned
  <2>2. PICK p \in Presentations : marker[p].phase = "runtime_owned" /\ marker[p].slot = s
    BY <2>1 DEF Owned
  <2>3. marker'[p] = marker[p]
    BY <1>3, <2>2, OwnersStep DEF OwnersStay, Executing
  <2> QED BY <2>2, <2>3 DEF Owned
<1> QED BY <1>2, <1>3 DEF CodexAwaits, ExecIsOwned

\* A Codex that runs unproven runs on, until it is proven or its pane ends.
LEMMA RunningStep ==
  ASSUME IInv, IInv', [Next]_vars, NEW s \in Slots, Running(s, "codex")
  PROVE  (Running(s, "codex"))' \/ Settled(s)'
<1>1. journal[s] = "exec_started" /\ pane[s] = "provider" /\ row[s].provider = "codex"
  BY DEF Running
<1>2. effects'[s].processes = 1
  BY <1>1, ProcessesStay DEF IInv, ProviderRan
<1>3. journal'[s] \in {"exec_started", "exec_proven"}
  BY <1>2 DEF IInv, EffectsAreFenced
<1>4. row'[s].provider = "codex"
  BY <1>1, <1>3, SlotsStep DEF SlotStep, Reserved, Executing
<1> QED BY <1>3, <1>4 DEF Running, Settled

\* CodexStaysProvable: a Codex that was executed and is not proven keeps all that its
\* proof needs, whatever crashes around it: its marker owns its Runtime and its row
\* awaits a process, so that every reconciler that gets the lease finds it
\* (prove_provider_exec) and none that took it up is refused
\* (record_provider_exec_observed_current); and it runs on until it is proven or its
\* pane ends.
THEOREM CodexStaysProvable ==
  Spec => /\ [](\A s \in Slots : Running(s, "codex") => Provable(s) /\ Owned(s))
          /\ [](job.pc = "record" /\ IsCodex => ~Refused)
          /\ [][\A s \in Slots : Running(s, "codex") => (Running(s, "codex"))' \/ Settled(s)']_vars
<1>1. Init => CodexAwaits /\ ExecIsOwned
  BY DEF Init, CodexAwaits, ExecIsOwned, Awaiting, Executing
<1>2. IInv /\ IInv' /\ CodexAwaits /\ ExecIsOwned /\ [Next]_vars
      => /\ CodexAwaits' /\ ExecIsOwned'
         /\ [\A s \in Slots : Running(s, "codex") => (Running(s, "codex"))' \/ Settled(s)']_vars
  BY AwaitsStep, RunningStep
<1>3. CodexAwaits /\ ExecIsOwned => \A s \in Slots : Running(s, "codex") => Provable(s) /\ Owned(s)
  BY DEF CodexAwaits, ExecIsOwned, Running, Provable, Awaiting, Executing
<1>4. IInv /\ CodexAwaits => (job.pc = "record" /\ IsCodex => ~Refused)
  <2> SUFFICES ASSUME IInv, CodexAwaits, job.pc = "record", IsCodex PROVE ~Refused
    OBVIOUS
  <2>1. Slot \in Slots /\ journal[Slot] = "exec_started"
    BY JobHeld DEF IInv, JournalAt, Slot
  <2> QED BY <2>1 DEF Refused, Provable, CodexAwaits, Awaiting, IsCodex
<1> QED BY <1>1, <1>2, <1>3, <1>4, OnboardingInvariant, PTL DEF Spec

-----------------------------------------------------------------------------
(* Onboarding implements PromotionPromise.                                 *)

Statuses == [s \in Slots |-> Status(journal[s])]

\* A journal write is a write of one status.
LEMMA StatusMoves ==
  ASSUME TypeOK, NEW n \in Slots, NEW phase \in Phases, journal' = [journal EXCEPT ![n] = phase]
  PROVE  /\ Statuses' = [Statuses EXCEPT ![n] = Status(phase)]
         /\ Status(phase) = Status(journal[n]) => Statuses' = Statuses
BY DEF Statuses, TypeOK

\* A write between two phases whose statuses the promise connects is its step.
LEMMA StatusBecomes ==
  ASSUME TypeOK, NEW n \in Slots, NEW phase \in Phases, journal' = [journal EXCEPT ![n] = phase],
         UNCHANGED effects,
         \/ Status(journal[n]) = Status(phase)
         \/ Status(journal[n]) = "reserved" /\ Status(phase) \in {"cancelled", "owned"}
         \/ Status(journal[n]) = "owned" /\ Status(phase) = "managed" /\ effects[n].processes = 1
         \/ Status(journal[n]) = "owned" /\ Status(phase) = "failed" /\ effects[n].processes = 0
         \/ Status(journal[n]) = "failed" /\ Status(phase) = "resolved"
  PROVE  [Promise!Next]_(Promise!vars)
<1>1. /\ Statuses' = [Statuses EXCEPT ![n] = Status(phase)]
      /\ Status(phase) = Status(journal[n]) => Statuses' = Statuses
  BY StatusMoves
<1>2. Statuses[n] = Status(journal[n])
  BY DEF Statuses
<1>3. CASE Status(journal[n]) = Status(phase)
  BY <1>1, <1>3 DEF Statuses, Promise!vars
<1>4. CASE Status(journal[n]) = "reserved" /\ Status(phase) \in {"cancelled", "owned"}
  <2>1. Promise!Cancel(n) \/ Promise!TakeOwnership(n)
    BY <1>1, <1>2, <1>4 DEF Statuses, Promise!Cancel, Promise!TakeOwnership, Promise!Becomes
  <2> QED BY <2>1 DEF Promise!Next
<1>5. CASE Status(journal[n]) = "owned" /\ Status(phase) = "managed" /\ effects[n].processes = 1
  <2>1. Promise!BecomeManaged(n)
    BY <1>1, <1>2, <1>5 DEF Statuses, Promise!BecomeManaged, Promise!Becomes
  <2> QED BY <2>1 DEF Promise!Next
<1>6. CASE Status(journal[n]) = "owned" /\ Status(phase) = "failed" /\ effects[n].processes = 0
  <2>1. Promise!GiveUp(n)
    BY <1>1, <1>2, <1>6 DEF Statuses, Promise!GiveUp, Promise!Becomes
  <2> QED BY <2>1 DEF Promise!Next
<1>7. CASE Status(journal[n]) = "failed" /\ Status(phase) = "resolved"
  <2>1. Promise!Resolve(n)
    BY <1>1, <1>2, <1>7 DEF Statuses, Promise!Resolve, Promise!Becomes
  <2> QED BY <2>1 DEF Promise!Next
<1> QED BY <1>3, <1>4, <1>5, <1>6, <1>7

\* A session is posted from an owned promotion that ran nothing.
LEMMA PostIsCreate ==
  ASSUME TypeOK, JobAgrees, StoresAgree, EffectsAgree, job.pc = "post", UNCHANGED journal,
         effects' = [effects EXCEPT ![Slot].sessions = @ + 1]
  PROVE  [Promise!Next]_(Promise!vars)
<1>1. /\ Slot \in Slots /\ journal[Slot] = "effect_started" /\ effects[Slot].sessions = 0
      /\ effects[Slot] \in [sessions : Nat, processes : Nat]
  BY HolderNames DEF JournalAt, EffectsAt, TypeOK
<1>2. effects[Slot].processes = 0
  BY <1>1, NotYet DEF EffectsAgree
<1> PICK n \in Slots : n = Slot
  BY <1>1
<1>3. effects' = [effects EXCEPT ![n].sessions = 1]
  BY <1>1
<1>4. Statuses' = Statuses /\ Statuses[n] = "owned"
  BY <1>1 DEF Statuses, Status
<1>5. Promise!CreateSession(n)
  BY <1>1, <1>2, <1>3, <1>4 DEF Promise!CreateSession, Statuses
<1> QED BY <1>5 DEF Promise!Next

\* Every step of the detailed specification is a step of the promise or none of it.
LEMMA PromiseStep ==
  ASSUME IInv, [Next]_vars
  PROVE  [Promise!Next]_(Promise!vars)
<1>0. TypeOK /\ JobAgrees /\ StoresAgree /\ EffectsAgree
  BY DEF IInv, StoresAgree, EffectsAgree
<1>1. CASE UNCHANGED <<journal, effects>>
  BY <1>1 DEF Promise!vars
<1>2. CASE Materialize
  <2>1. CASE \/ (\E p \in Presentations, s \in Slots : BeginMaterialize(p, s))
           \/ WriteNewMarker
           \/ CreateDirectory
           \/ NewSession
           \/ RecordShellEvidence
    BY <2>1, <1>1 DEF BeginMaterialize, WriteNewMarker, CreateDirectory, NewSession, RecordShellEvidence
  <2> QED BY <1>2, <2>1 DEF Materialize
<1>3. CASE Gate
  <2>1. ASSUME NEW provider \in Providers, ReserveOnboarding(provider) PROVE [Promise!Next]_(Promise!vars)
    <3>1. /\ job.pc = "reserve" /\ UNCHANGED effects
          /\ journal' = [journal EXCEPT ![Slot] = "capability_issued"]
      BY <2>1 DEF ReserveOnboarding, At
    <3>2. /\ job.pres \in Presentations /\ Slot \in Slots /\ Names(job.pres, Slot)
          /\ journal[Slot] = "absent"
      BY <1>0, <3>1, HolderNames DEF JournalAt
    <3> PICK n \in Slots : n = Slot
      BY <3>2
    <3>3. \A other \in Slots : journal[other] # "capability_issued"
      <4>1. SUFFICES ASSUME NEW other \in Slots, journal[other] = "capability_issued" PROVE FALSE
        OBVIOUS
      <4>2. PICK q \in Presentations : Names(q, other)
        BY <1>0, <4>1 DEF StoresAgree, NothingIsOrphaned, Unresolved
      <4>3. q = job.pres
        BY <1>0, <3>2, <4>1, <4>2 DEF StoresAgree, CandidateIsSole, Unowned
      <4> QED BY <3>2, <4>1, <4>2, <4>3 DEF Names
    <3>4. \A other \in Slots : Statuses[other] # "reserved"
      <4>1. ASSUME NEW other \in Slots PROVE Status(journal[other]) # "reserved"
        BY <3>3 DEF Status
      <4> QED BY <4>1 DEF Statuses
    <3>5. Statuses' = [Statuses EXCEPT ![n] = "reserved"] /\ Statuses[n] = "free"
      <4>1. "capability_issued" \in Phases /\ Status("capability_issued") = "reserved"
            /\ Status("absent") = "free"
        BY DEF Phases, Status
      <4> QED BY <1>0, <3>1, <3>2, <4>1, StatusMoves DEF Statuses
    <3>6. Promise!Reserve(n)
      BY <3>1, <3>4, <3>5 DEF Promise!Reserve, Promise!Becomes, Statuses
    <3> QED BY <3>6 DEF Promise!Next
  <2>2. CASE \/ (\E p \in Presentations : BeginGate(p))
           \/ IssueHandoff
           \/ DeliverCapability
    BY <2>2, <1>1 DEF BeginGate, IssueHandoff, DeliverCapability
  <2> QED BY <1>3, <2>1, <2>2 DEF Gate
<1>4. CASE Helper
  <2>1. CASE ConsumeCapability
    <3>1. job.pc = "consume" /\ UNCHANGED effects /\ journal' = [journal EXCEPT ![Slot] = "runtime_owned"]
      BY <2>1 DEF ConsumeCapability, At, HelperFence, Advance
    <3>2. Slot \in Slots /\ Status(journal[Slot]) = "reserved"
      BY <1>0, <3>1, HolderNames DEF JournalAt, EffectsAt, Status
    <3>3. "runtime_owned" \in Phases /\ Status("runtime_owned") = "owned"
      BY DEF Phases, Consumed, Fenced, Status
    <3> QED BY <1>0, <3>1, <3>2, <3>3, StatusBecomes
  <2>2. CASE PrepareProvider
    <3>1. job.pc = "prepare" /\ UNCHANGED effects /\ journal' = [journal EXCEPT ![Slot] = "preparation"]
      BY <2>2 DEF PrepareProvider, At, HelperFence, Advance
    <3>2. Slot \in Slots /\ Status(journal[Slot]) = "owned"
      BY <1>0, <3>1, HolderNames DEF JournalAt, EffectsAt, Status
    <3>3. "preparation" \in Phases /\ Status("preparation") = "owned"
      BY DEF Phases, Consumed, Fenced, Status
    <3> QED BY <1>0, <3>1, <3>2, <3>3, StatusBecomes
  <2>3. CASE FenceEffect
    <3>1. job.pc = "effect" /\ UNCHANGED effects /\ journal' = [journal EXCEPT ![Slot] = "effect_started"]
      BY <2>3 DEF FenceEffect, At, HelperFence, Advance
    <3>2. Slot \in Slots /\ Status(journal[Slot]) = "owned"
      BY <1>0, <3>1, HolderNames DEF JournalAt, EffectsAt, Status
    <3>3. "effect_started" \in Phases /\ Status("effect_started") = "owned"
      BY DEF Phases, Consumed, Fenced, Status
    <3> QED BY <1>0, <3>1, <3>2, <3>3, StatusBecomes
  <2>4. CASE CreateSession
    BY <2>4, <1>0, PostIsCreate DEF CreateSession, At
  <2>5. CASE FenceExec
    <3>1. job.pc = "exec_fence" /\ UNCHANGED effects /\ journal' = [journal EXCEPT ![Slot] = "exec_started"]
      BY <2>5 DEF FenceExec, At, HelperFence, Advance
    <3>2. Slot \in Slots /\ Status(journal[Slot]) = "owned"
      BY <1>0, <3>1, HolderNames DEF JournalAt, EffectsAt, Status
    <3>3. "exec_started" \in Phases /\ Status("exec_started") = "owned"
      BY DEF Phases, Consumed, Fenced, Status
    <3> QED BY <1>0, <3>1, <3>2, <3>3, StatusBecomes
  <2>6. CASE ExecProvider
    <3>1. /\ job.pc = "exec" /\ UNCHANGED journal
          /\ effects' = [effects EXCEPT ![Slot].processes = @ + 1]
      BY <2>6 DEF ExecProvider, At
    <3>2. /\ Slot \in Slots /\ journal[Slot] = "exec_started" /\ effects[Slot].processes = 0
          /\ effects[Slot] \in [sessions : Nat, processes : Nat]
      BY <1>0, <3>1, HolderNames DEF JournalAt, EffectsAt, TypeOK
    <3> PICK n \in Slots : n = Slot
      BY <3>2
    <3>3. effects' = [effects EXCEPT ![n].processes = 1]
      BY <3>1, <3>2
    <3>4. Statuses' = Statuses /\ Statuses[n] = "owned"
      BY <3>1, <3>2 DEF Statuses, Status
    <3>5. Promise!RunProvider(n)
      BY <3>2, <3>3, <3>4 DEF Promise!RunProvider, Statuses
    <3> QED BY <3>5 DEF Promise!Next
  <2>7. CASE PostFails
    BY <2>7, <1>0, <1>1, PostIsCreate DEF PostFails, At
  <2>8. CASE RecordRecovery
    <3>1. job.pc = "give_up" /\ UNCHANGED effects /\ journal' = [journal EXCEPT ![Slot] = "recovery"]
      BY <2>8 DEF RecordRecovery, At, HelperEnds, Advance
    <3>2. Slot \in Slots /\ Status(journal[Slot]) = "owned" /\ effects[Slot].processes = 0
      BY <1>0, <3>1, HolderNames DEF JournalAt, EffectsAt, Status
    <3>3. "recovery" \in Phases /\ Status("recovery") = "failed"
      BY DEF Phases, Consumed, Fenced, Status
    <3> QED BY <1>0, <3>1, <3>2, <3>3, StatusBecomes
  <2>9. CASE RecordKnownAbsent
    <3>1. job.pc = "known_absent" /\ UNCHANGED effects /\ journal' = [journal EXCEPT ![Slot] = "known_absent"]
      BY <2>9 DEF RecordKnownAbsent, At, HelperEnds, Advance
    <3>2. Slot \in Slots /\ Status(journal[Slot]) = "owned" /\ effects[Slot].processes = 0
      BY <1>0, <3>1, HolderNames DEF JournalAt, EffectsAt, Status
    <3>3. "known_absent" \in Phases /\ Status("known_absent") = "failed"
      BY DEF Phases, Consumed, Fenced, Status
    <3> QED BY <1>0, <3>1, <3>2, <3>3, StatusBecomes
  <2>10. CASE \/ (\E p \in Presentations : BeginHelper(p))
           \/ OwnMarker
           \/ BindSession
           \/ RecordHandle
           \/ StepFails
           \/ ExecFails
           \/ HelperDies
           \/ (\E s \in Slots : HelperRefused(s))
    BY <2>10, <1>1 DEF BeginHelper, OwnMarker, BindSession, RecordHandle, StepFails, ExecFails, HelperDies, HelperRefused
  <2> QED BY <1>4, <2>1, <2>2, <2>3, <2>4, <2>5, <2>6, <2>7, <2>8, <2>9, <2>10 DEF Helper
<1>5. CASE Prove
  <2>1. CASE RecordProcess
    <3>1. job.pc = "record" /\ UNCHANGED effects
      BY <2>1 DEF RecordProcess, At
    <3>2. CASE UNCHANGED journal
      BY <1>1, <3>1, <3>2
    <3>3. CASE journal' = [journal EXCEPT ![Slot] = "exec_proven"]
      <4>1. Slot \in Slots /\ journal[Slot] = "exec_started" /\ effects[Slot].processes = 1
        BY <1>0, <3>1, HolderNames DEF JournalAt, EffectsAt
      <4>2. /\ "exec_proven" \in Phases
            /\ Status("exec_started") = "owned" /\ Status("exec_proven") = "managed"
        BY DEF Phases, Consumed, Status
      <4> QED BY <1>0, <3>1, <3>3, <4>1, <4>2, StatusBecomes
    <3> QED BY <2>1, <3>2, <3>3 DEF RecordProcess, Advance
  <2>2. CASE FinalizeProof
    <3>1. job.pc = "finalize" /\ UNCHANGED effects /\ journal' = [journal EXCEPT ![Slot] = "exec_proven"]
      BY <2>2 DEF FinalizeProof, At, Advance
    <3>2. Slot \in Slots /\ Status(journal[Slot]) = "owned" /\ effects[Slot].processes = 1
      BY <1>0, <3>1, HolderNames DEF JournalAt, EffectsAt, Status
    <3>3. "exec_proven" \in Phases /\ Status("exec_proven") = "managed"
      BY DEF Phases, Consumed, Fenced, Status
    <3> QED BY <1>0, <3>1, <3>2, <3>3, StatusBecomes
  <2>3. CASE \/ (\E p \in Presentations : BeginProve(p))
           \/ (\E p \in Presentations : BeginComplete(p))
           \/ (\E p \in Presentations : BeginRetire(p))
           \/ SpawnObserver
           \/ AwaitObserver
           \/ CompleteMarker
           \/ RetireMarker
    BY <2>3, <1>1 DEF BeginProve, BeginComplete, BeginRetire, SpawnObserver, AwaitObserver, CompleteMarker, RetireMarker
  <2> QED BY <1>5, <2>1, <2>2, <2>3 DEF Prove
<1>6. CASE Reconcile
  <2>1. CASE CancelOnboarding
    <3>1. job.pc = "cancel" /\ UNCHANGED effects
      BY <2>1 DEF CancelOnboarding
    <3>2. Slot \in Slots /\ journal[Slot] \in Unowned
      BY <1>0, <2>1, <3>1, HolderNames DEF CancelOnboarding, Cancellable, Unowned
    <3>3. CASE journal[Slot] = "absent"
      BY <1>0, <1>1, <2>1, <3>1, <3>2, <3>3 DEF CancelOnboarding, TypeOK
    <3>4. CASE journal[Slot] # "absent"
      <4>1. journal' = [journal EXCEPT ![Slot] = "rolled_back"]
        BY <2>1, <3>2, <3>4 DEF CancelOnboarding
      <4>2. /\ "rolled_back" \in Phases /\ Status("capability_issued") = "reserved"
            /\ Status("rolled_back") = "cancelled"
        BY DEF Phases, Status
      <4>3. journal[Slot] \in {"capability_issued", "rolled_back"}
        BY <3>2, <3>4 DEF Unowned
      <4> QED BY <1>0, <3>1, <3>2, <4>1, <4>2, <4>3, StatusBecomes
    <3> QED BY <3>3, <3>4
  <2>2. CASE \/ (\E p \in Presentations : BeginRepair(p))
           \/ (\E p \in Presentations : BeginReconcile(p))
           \/ (\E p \in Presentations : BeginClose(p))
           \/ RepairMarker
           \/ StopServer
           \/ RemoveArtifacts
           \/ UnmarkSlot
    BY <2>2, <1>1 DEF BeginRepair, BeginReconcile, BeginClose, RepairMarker, StopServer, RemoveArtifacts, UnmarkSlot
  <2> QED BY <1>6, <2>1, <2>2 DEF Reconcile
<1>7. CASE Runtime
  <2>1. ASSUME NEW s \in Slots, ResolveParked(s) PROVE [Promise!Next]_(Promise!vars)
    <3>1. /\ journal[s] = "recovery" /\ journal' = [journal EXCEPT ![s] = "committed"]
          /\ UNCHANGED effects
      BY <2>1 DEF ResolveParked
    <3>2. "committed" \in Phases /\ Status("recovery") = "failed" /\ Status("committed") = "resolved"
      BY DEF Phases, Status
    <3> QED BY <1>0, <3>1, <3>2, StatusBecomes
  <2>2. CASE \/ (\E s \in Slots : ObserverReady(s))
           \/ (\E s \in Slots : ObserverFails(s))
           \/ (\E s \in Slots : Observed(s))
           \/ (\E s \in Slots : Park(s))
           \/ (\E s \in Slots : Archive(s))
    BY <2>2, <1>1 DEF ObserverReady, ObserverFails, Observed, Park, Archive
  <2> QED BY <1>7, <2>1, <2>2 DEF Runtime
<1>8. CASE Failure
  <2>1. CASE \/ Abort
           \/ TearMarker
           \/ (\E s \in Slots : ShellExits(s))
           \/ (\E s \in Slots : ProviderExits(s))
           \/ (\E s \in Slots : ServerLost(s))
    BY <2>1, <1>1 DEF Abort, TearMarker, ShellExits, ProviderExits, ServerLost
  <2> QED BY <1>8, <2>1 DEF Failure
<1>9. CASE UNCHANGED vars
  BY <1>1, <1>9 DEF vars
<1> QED BY <1>2, <1>3, <1>4, <1>5, <1>6, <1>7, <1>8, <1>9 DEF Next

\* The sequences of single writes, cut by any failure, implement the promotion: a
\* reservation is cancelled without effects or owned, and an owned one is managed
\* only with its one process and given up only without (PromotionKept).
THEOREM OnboardingKeepsPromise == Spec => PromotionKept
<1>1. Init => Promise!Init
  BY DEF Init, NoEffects, Status, Promise!Init
<1>2. IInv /\ [Next]_vars => [Promise!Next]_(Promise!vars)
  BY PromiseStep
<1> QED BY <1>1, <1>2, OnboardingInvariant, PTL DEF Spec, PromotionKept, Promise!Spec
=============================================================================
