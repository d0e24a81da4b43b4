--------------------------- MODULE RuntimeControl ---------------------------
(***************************************************************************)
(* The Runtime actions of one Codex Workstream (src/src/actions) run by    *)
(* several WSNav processes at once, over the durable rows of Registry and  *)
(* over what those rows only describe: the private runtime directory, the  *)
(* tmux server on its socket, the launch barrier file, the pane processes  *)
(* and the Codex hook processes.                                           *)
(*                                                                         *)
(* One actor is one process inside one action.  Its record holds what it   *)
(* read earlier; every access to shared state is a step of its own, so     *)
(* other actors, hooks and failures run in between.  An actor that fails   *)
(* or finishes returns to "idle"; what it returns to its caller is left    *)
(* out.                                                                    *)
(*                                                                         *)
(* The directory, socket and barrier paths derive from the Runtime id, so  *)
(* all generations of a Runtime share them.  Each generation is launched   *)
(* at most once, so its number also names the process of its pane.         *)
(***************************************************************************)
EXTENDS Registry, FiniteSets

CONSTANTS
  Actors,     \* concurrent WSNav processes (Navigators, CLI)
  Failures,   \* the failures the environment may inject
  MaxGen,     \* bound: Runtime generations ever reserved
  MaxRev      \* bound: no action or hook begins at a higher row revision

ASSUME BoundsAssumption == MaxGen \in Nat \ {0} /\ MaxRev \in Nat

Gens == 1 .. MaxGen

AllFailures == {"crash", "server_lost", "provider_exit", "barrier_timeout", "survives_hangup"}

ASSUME FailuresAssumption == Failures \subseteq AllFailures

VARIABLES
  op,       \* each actor's control state and the rows it read earlier
  dir,      \* the private runtime directory exists
  server,   \* the generation whose pane the tmux server on the socket holds; 0: no server
  ready,    \* launch.ready exists in the directory
  pane,     \* the process created for each generation
  hook      \* the evidence of hook processes between corroboration and transaction

execVars == <<dir, server, ready, pane>>
vars == <<registryVars, op, execVars, hook>>

Goals == {"start", "recover", "archive", "forget", "attach"}

Steps ==
  {"idle", "crashed", "read", "probe", "terminate", "kill", "remove_dir", "mark_stopped",
   "mark_recovery", "mark_current", "reserve", "create_dir", "new_session",
   "probe_own", "prove_group", "record", "release", "stop_own", "evidence",
   "reconcile", "recheck", "park_commit", "reread", "commit"}

PaneState == {"none", "barrier", "provider", "exited_clean", "dead"}

NoHook == [gen |-> 0, proc |-> Null]

Idle == [pc |-> "idle", goal |-> "start", ws |-> 0, rt |-> NoRuntime,
         bind |-> NoBinding, proc |-> Null, after |-> "idle"]

\* What one action holds between two of its steps.
ActorState == [pc : Steps, goal : Goals, ws : Nat, rt : RuntimeRow, bind : BindingRow,
               proc : Gens \union {Null}, after : Steps]

RuntimeTypeOK ==
  /\ TypeOK
  /\ op \in [Actors -> ActorState]
  /\ dir \in BOOLEAN
  /\ server \in Gens \union {Null}
  /\ ready \in BOOLEAN
  /\ pane \in [Gens -> PaneState]
  /\ hook \in [gen : Gens \union {0}, proc : Gens \union {Null}]

RuntimeInit ==
  /\ Init
  /\ op = [a \in Actors |-> Idle]
  /\ dir = FALSE
  /\ server = Null
  /\ ready = FALSE
  /\ pane = [g \in Gens |-> "none"]
  /\ hook = NoHook

-----------------------------------------------------------------------------
(* What a process can observe.                                             *)

Alive(g) == g # Null /\ pane[g] \in {"barrier", "provider"}

Missing == server = Null                         \* RuntimeProbe::Missing
PaneAlive == server # Null /\ Alive(server)      \* Live with a process birth

\* matches_recorded_runtime: the live pane has the recorded fingerprint.
Matches(record) == PaneAlive /\ record.proc = server

\* clean_provider_exit_status = Some(0): the retained pane is the recorded
\* process, dead with native status zero.
CleanExit(record) == ~Missing /\ record.proc = server /\ pane[server] = "exited_clean"

\* A hook process belongs to the process group of the provider that ran it.
GroupOccupied(g) == hook # NoHook /\ hook.proc = g

BudgetLeft == ws.rev < MaxRev /\ rt.rev < MaxRev

-----------------------------------------------------------------------------
(* Control of one actor.                                                   *)

At(a, pc) == op[a].pc = pc
Goto(a, pc) == op' = [op EXCEPT ![a] = IF pc = "idle" THEN Idle ELSE [@ EXCEPT !.pc = pc]]
GotoThen(a, pc, after) == op' = [op EXCEPT ![a].pc = pc, ![a].after = after]
Done(a) == Goto(a, "idle")

Enter(a, goal, pc, runtime) ==
  op' = [op EXCEPT ![a] = [pc |-> pc, goal |-> goal, ws |-> ws.rev, rt |-> runtime,
                           bind |-> NoBinding, proc |-> Null, after |-> "idle"]]

Begins(a) == At(a, "idle") /\ ws.life # "gone" /\ BudgetLeft

\* A Workstream overview is read, and the caller's expected revision is equal
\* to it: an older expectation refuses the action here.
BeginStart(a) ==
  /\ Begins(a)
  /\ ws.life # "recovery_required"
  /\ Enter(a, "start", "read", NoRuntime)
  /\ UNCHANGED <<registryVars, execVars, hook>>

BeginRecover(a) ==
  /\ Begins(a)
  /\ ws.life = "recovery_required"
  /\ Enter(a, "recover", "read", NoRuntime)
  /\ UNCHANGED <<registryVars, execVars, hook>>

\* Mutant: a Runtime recorded as stopped is not parked before the archive.
BeginArchiveTrustsStopped(a) ==
  /\ Begins(a)
  /\ ~ws.archived
  /\ Enter(a, "archive", IF rt.status \notin {"none", "stopped"} THEN "read" ELSE "commit", NoRuntime)
  /\ UNCHANGED <<registryVars, execVars, hook>>

BeginArchive(a) ==
  /\ Begins(a)
  /\ ~ws.archived
  /\ Enter(a, "archive",
           IF ws.life # "parked" /\ rt.status # "none" THEN "read" ELSE "commit", NoRuntime)
  /\ UNCHANGED <<registryVars, execVars, hook>>

BeginForget(a) ==
  /\ Begins(a)
  /\ ws.archived
  /\ Enter(a, "forget", IF rt.status # "none" THEN "read" ELSE "commit", NoRuntime)
  /\ UNCHANGED <<registryVars, execVars, hook>>

\* Attachment reads both rows in one query.  Preflight and the return from an
\* attachment make the same proof of a clean native exit.
BeginAttach(a) ==
  /\ Begins(a)
  /\ rt.status # "none"
  /\ Enter(a, "attach", "probe", rt)
  /\ UNCHANGED <<registryVars, execVars, hook>>

Restore(a) ==
  /\ Begins(a)
  /\ RestoreWorkstream(ws.rev)
  /\ UNCHANGED <<op, execVars, hook>>

\* The Runtime row is read by a query of its own.
ReadRuntime(a) ==
  /\ At(a, "read")
  /\ op' = [op EXCEPT ![a] =
       IF rt.status # "none" THEN [@ EXCEPT !.pc = "probe", !.rt = rt]
       ELSE IF @.goal = "start" THEN [@ EXCEPT !.pc = "reserve"]
       ELSE Idle]
  /\ UNCHANGED <<registryVars, execVars, hook>>

-----------------------------------------------------------------------------
(* What each action decides from the row it read and the pane it probes.   *)

\* Mutant: a missing server is taken for a stopped provider.
StartVerdictTrustsMissing(record) ==
  CASE Missing -> IF record.status = "stopped" THEN "terminate" ELSE "mark_stopped"
    [] ~Missing /\ record.status = "stopped" /\ CleanExit(record) -> "kill"
    [] OTHER -> "idle"

StartVerdict(record) ==
  CASE Missing /\ record.status = "stopped" -> "terminate"
    [] Missing /\ record.status # "stopped" /\ record.proc # Null -> "mark_recovery"
    [] Missing /\ record.status # "stopped" /\ record.proc = Null -> "mark_stopped"
    [] ~Missing /\ record.status = "stopped" /\ CleanExit(record) -> "kill"
    [] OTHER -> "idle"          \* already live, or ambiguous

RecoverVerdict(record) ==
  CASE Matches(record) /\ record.status = "starting" -> "evidence"
    [] Missing /\ record.proc # Null -> "terminate"
    [] OTHER -> "idle"

\* Archive and forget stop the exact Runtime before they commit.
ParkVerdict(record) ==
  IF Matches(record) \/ CleanExit(record) \/ Missing THEN "terminate" ELSE "idle"

AttachVerdict(record) ==
  CASE CleanExit(record) -> "recheck"
    [] Missing /\ record.status # "stopped" /\ record.proc # Null -> "mark_recovery"
    [] OTHER -> "idle"

Verdict(goal, record) ==
  CASE goal = "start" -> StartVerdict(record)
    [] goal = "recover" -> RecoverVerdict(record)
    [] goal = "attach" -> AttachVerdict(record)
    [] OTHER -> ParkVerdict(record)

Probe(a) ==
  /\ At(a, "probe")
  /\ LET verdict == Verdict(op[a].goal, op[a].rt)
     IN  IF verdict = "kill" THEN GotoThen(a, "kill", "reserve") ELSE Goto(a, verdict)
  /\ UNCHANGED <<registryVars, execVars, hook>>

\* Where the exact-stop cleanup of a recorded provider leads.
AfterStop(goal) == IF goal \in {"start", "recover"} THEN "reserve" ELSE "park_commit"

-----------------------------------------------------------------------------
(* Stopping a provider and its server.                                     *)

\* Mutant: members that survive the leader of the group are ignored.
TerminableWithoutLeader(g) == TRUE

\* The exact leader and its whole group end.  If the leader is already gone
\* the group must be empty, otherwise ownership cannot be proved.
Terminable(g) == g = Null \/ Alive(g) \/ ~GroupOccupied(g)

TerminateGroup(g) ==
  /\ pane' = IF Alive(g) THEN [pane EXCEPT ![g] = "dead"] ELSE pane
  /\ hook' = IF Alive(g) /\ GroupOccupied(g) THEN NoHook ELSE hook
  /\ UNCHANGED <<dir, server, ready>>

Terminate(a) ==
  /\ At(a, "terminate")
  /\ Terminable(op[a].rt.proc)
  /\ TerminateGroup(op[a].rt.proc)
  /\ GotoThen(a, "kill", AfterStop(op[a].goal))
  /\ UNCHANGED registryVars

TerminateRefused(a) ==
  /\ At(a, "terminate")
  /\ ~Terminable(op[a].rt.proc)
  /\ Goto(a, IF op[a].goal \in {"start", "recover"} THEN "idle" ELSE "mark_recovery")
  /\ UNCHANGED <<registryVars, execVars, hook>>

\* The server goes away and its pane is hung up.  The barrier dies of the
\* hangup; a provider may outlive it.
HangUp ==
  /\ server' = Null
  /\ \/ pane' = IF PaneAlive THEN [pane EXCEPT ![server] = "dead"] ELSE pane
     \/ /\ "survives_hangup" \in Failures
        /\ ~Missing /\ pane[server] = "provider"
        /\ pane' = pane

KillServer(a) ==
  /\ At(a, "kill")
  /\ HangUp
  /\ Goto(a, "remove_dir")
  /\ UNCHANGED <<registryVars, dir, ready, hook>>

\* Removing the directory also unlinks the socket of a server that another
\* launch created in the meantime: its pane runs on, out of reach.
RemoveDir(a) ==
  /\ At(a, "remove_dir")
  /\ dir' = FALSE
  /\ ready' = FALSE
  /\ server' = Null
  /\ Goto(a, op[a].after)
  /\ UNCHANGED <<registryVars, pane, hook>>

-----------------------------------------------------------------------------
(* Recording the outcome in the registry.                                  *)

\* A compare-and-set that misses ends the action with an error.
Attempt(a, accepted, commit, pc) ==
  IF accepted THEN commit /\ Goto(a, pc) ELSE UNCHANGED registryVars /\ Done(a)

MarkStoppedStep(a) ==
  /\ At(a, "mark_stopped")
  /\ Attempt(a, RuntimeAt(op[a].rt.rev), MarkStopped(op[a].rt.rev), "reserve")
  /\ UNCHANGED <<execVars, hook>>

MarkRecoveryStep(a) ==
  /\ At(a, "mark_recovery")
  /\ Attempt(a, RuntimeAt(op[a].rt.rev), MarkRecoveryRequired(op[a].rt.rev), "idle")
  /\ UNCHANGED <<execVars, hook>>

\* After a failed release the row is read again, so the mark is not stale.
MarkCurrentStep(a) ==
  /\ At(a, "mark_current")
  /\ Attempt(a, RuntimeAt(rt.rev), MarkRecoveryRequired(rt.rev), "idle")
  /\ UNCHANGED <<execVars, hook>>

ParkCommit(a) ==
  /\ At(a, "park_commit")
  /\ Attempt(a, RuntimeAt(op[a].rt.rev), ParkRuntime(op[a].rt.rev),
             IF op[a].goal = "attach" THEN "idle" ELSE "reread")
  /\ UNCHANGED <<execVars, hook>>

\* park returns the revision that a later query finds, not the one that its
\* own transaction wrote.
Reread(a) ==
  /\ At(a, "reread")
  /\ op' = [op EXCEPT ![a] = IF ws.life = "gone" THEN Idle
                             ELSE [@ EXCEPT !.pc = "commit", !.ws = ws.rev]]
  /\ UNCHANGED <<registryVars, execVars, hook>>

Commit(a) ==
  /\ At(a, "commit")
  /\ LET expected == op[a].ws
     IN  IF op[a].goal = "archive"
         THEN Attempt(a, WorkstreamAt(expected) /\ ~ws.archived, ArchiveWorkstream(expected), "idle")
         ELSE Attempt(a, WorkstreamAt(expected) /\ ws.archived, ForgetWorkstream(expected), "idle")
  /\ UNCHANGED <<execVars, hook>>

-----------------------------------------------------------------------------
(* Reserving a generation and launching it.                                *)

Reserve(a) ==
  /\ At(a, "reserve")
  /\ rt.gen < MaxGen
  /\ LET reserved == op' = [op EXCEPT ![a].pc = "create_dir", ![a].rt = rt']
         refused == UNCHANGED registryVars /\ Done(a)
     IN  IF op[a].goal = "start"
         THEN IF Reservable THEN ReserveRuntime /\ reserved ELSE refused
         ELSE IF RecoveryReservable THEN ReserveRecovery /\ reserved ELSE refused
  /\ UNCHANGED <<execVars, hook>>

\* Mutant: the failed launch is not recorded.
FailUnidentifiedUnrecorded(a) == GotoThen(a, "kill", "idle")

\* A launch that cannot identify its pane stops whatever is on the socket.
FailUnidentified(a) == GotoThen(a, "kill", "mark_recovery")

CreateDir(a) ==
  /\ At(a, "create_dir")
  /\ IF dir THEN FailUnidentified(a) ELSE Goto(a, "new_session")
  /\ dir' = TRUE
  /\ UNCHANGED <<registryVars, server, ready, pane, hook>>

\* tmux needs the directory for its socket, and refuses the session name if
\* a server is already there.  The pane runs the launch barrier.
NewSession(a) ==
  /\ At(a, "new_session")
  /\ IF dir /\ Missing
     THEN /\ server' = op[a].rt.gen
          /\ pane' = [pane EXCEPT ![op[a].rt.gen] = "barrier"]
          /\ Goto(a, "probe_own")
     ELSE FailUnidentified(a) /\ UNCHANGED <<server, pane>>
  /\ UNCHANGED <<registryVars, dir, ready, hook>>

ProbeOwn(a) ==
  /\ At(a, "probe_own")
  /\ IF PaneAlive
     THEN op' = [op EXCEPT ![a].pc = "prove_group", ![a].proc = server]
     ELSE FailUnidentified(a)
  /\ UNCHANGED <<registryVars, execVars, hook>>

ProveGroup(a) ==
  /\ At(a, "prove_group")
  /\ IF Alive(op[a].proc) THEN Goto(a, "record") ELSE FailUnidentified(a)
  /\ UNCHANGED <<registryVars, execVars, hook>>

\* A refused identity stops the pane that the launcher found.
Record(a) ==
  /\ At(a, "record")
  /\ IF RuntimeAt(op[a].rt.rev) /\ rt.status = "starting"
     THEN RecordIdentity(op[a].rt.rev, op[a].proc) /\ Goto(a, "release")
     ELSE GotoThen(a, "stop_own", "mark_recovery") /\ UNCHANGED registryVars
  /\ UNCHANGED <<execVars, hook>>

Release(a) ==
  /\ At(a, "release")
  /\ IF dir /\ ~ready
     THEN ready' = TRUE /\ Done(a)
     ELSE GotoThen(a, "stop_own", "mark_current") /\ UNCHANGED ready
  /\ UNCHANGED <<registryVars, dir, server, pane, hook>>

\* The directory is kept when the provider could not be stopped.
StopOwn(a) ==
  /\ At(a, "stop_own")
  /\ IF Terminable(op[a].proc)
     THEN TerminateGroup(op[a].proc) /\ Goto(a, "kill")
     ELSE Goto(a, op[a].after) /\ UNCHANGED <<execVars, hook>>
  /\ UNCHANGED registryVars

-----------------------------------------------------------------------------
(* Reconciling a recovery whose provider is already live, and parking a    *)
(* Runtime whose provider exited cleanly.                                  *)

\* The process must be the provider resuming the bound session, not the
\* barrier that precedes it.
RunsRecovery(record) == Matches(record) /\ pane[server] = "provider"

Evidence(a) ==
  /\ At(a, "evidence")
  /\ IF RecoveryBindingAt(op[a].ws, op[a].rt.rev) /\ RunsRecovery(op[a].rt)
     THEN op' = [op EXCEPT ![a].pc = "reconcile", ![a].bind = binding]
     ELSE Done(a)
  /\ UNCHANGED <<registryVars, execVars, hook>>

Reconcile(a) ==
  /\ At(a, "reconcile")
  /\ LET o == op[a]
     IN  Attempt(a, /\ RunsRecovery(o.rt)
                    /\ RecoveryBindingAt(o.ws, o.rt.rev) /\ binding = o.bind,
                 ReconcileRecovery(o.ws, o.rt.rev, o.bind), "idle")
  /\ UNCHANGED <<execVars, hook>>

\* Mutant: the process group of the exited provider is not inspected.
RecheckWithoutGroup(a) ==
  /\ At(a, "recheck")
  /\ IF WorkstreamAt(op[a].ws) /\ RuntimeAt(op[a].rt.rev) /\ CleanExit(op[a].rt)
     THEN GotoThen(a, "kill", "park_commit")
     ELSE Done(a)
  /\ UNCHANGED <<registryVars, execVars, hook>>

\* The rows must be those of the first proof, the proof must hold again and
\* the provider's group must be empty.
Recheck(a) ==
  /\ At(a, "recheck")
  /\ IF /\ WorkstreamAt(op[a].ws) /\ RuntimeAt(op[a].rt.rev)
        /\ CleanExit(op[a].rt) /\ ~GroupOccupied(op[a].rt.proc)
     THEN GotoThen(a, "kill", "park_commit")
     ELSE Done(a)
  /\ UNCHANGED <<registryVars, execVars, hook>>

Act(a) ==
  \/ BeginStart(a) \/ BeginRecover(a) \/ BeginArchive(a) \/ BeginForget(a)
  \/ BeginAttach(a) \/ Restore(a)
  \/ ReadRuntime(a) \/ Probe(a)
  \/ Terminate(a) \/ TerminateRefused(a) \/ KillServer(a) \/ RemoveDir(a)
  \/ MarkStoppedStep(a) \/ MarkRecoveryStep(a) \/ MarkCurrentStep(a)
  \/ ParkCommit(a) \/ Reread(a) \/ Commit(a)
  \/ Reserve(a) \/ CreateDir(a) \/ NewSession(a) \/ ProbeOwn(a) \/ ProveGroup(a)
  \/ Record(a) \/ Release(a) \/ StopOwn(a)
  \/ Evidence(a) \/ Reconcile(a) \/ Recheck(a)

-----------------------------------------------------------------------------
(* Pane processes, hooks and failures.                                     *)

\* A barrier that sees launch.ready consumes it and becomes the provider.
Exec(g) ==
  /\ pane[g] = "barrier"
  /\ dir /\ ready
  /\ ready' = FALSE
  /\ pane' = [pane EXCEPT ![g] = "provider"]
  /\ UNCHANGED <<registryVars, op, dir, server, hook>>

BarrierTimeout(g) ==
  /\ "barrier_timeout" \in Failures
  /\ pane[g] = "barrier"
  /\ pane' = [pane EXCEPT ![g] = "dead"]
  /\ UNCHANGED <<registryVars, op, dir, server, ready, hook>>

ProviderExit(g) ==
  /\ "provider_exit" \in Failures
  /\ pane[g] = "provider"
  /\ \E end \in {"exited_clean", "dead"} : pane' = [pane EXCEPT ![g] = end]
  /\ UNCHANGED <<registryVars, op, dir, server, ready, hook>>

ServerLost ==
  /\ "server_lost" \in Failures
  /\ ~Missing
  /\ HangUp
  /\ UNCHANGED <<registryVars, op, dir, ready, hook>>

\* A hook of provider g finds the one row and the one live pane that agree
\* with its own ancestry.
HookCheck(g) ==
  /\ hook = NoHook
  /\ BudgetLeft
  /\ pane[g] = "provider"
  /\ server = g
  /\ rt.status \in LiveStatus
  /\ rt.proc = g
  /\ hook' = [gen |-> rt.gen, proc |-> g]
  /\ UNCHANGED <<registryVars, op, execVars>>

\* A transaction comes later and knows only the generation.  Other hook
\* processes of the provider may still hold the same evidence.
HookApply ==
  /\ hook # NoHook
  /\ Hook(hook.gen)
  /\ hook' = NoHook \/ (BudgetLeft /\ UNCHANGED hook)
  /\ UNCHANGED <<op, execVars>>

\* The event is refused, or the hook ran out of its budget or was hung up.
HookDrop ==
  /\ hook # NoHook
  /\ hook' = NoHook
  /\ UNCHANGED <<registryVars, op, execVars>>

\* The process dies inside its action and all it held is lost.  Another one
\* takes its place.
Crash(a) ==
  /\ "crash" \in Failures
  /\ op[a].pc \notin {"idle", "crashed"}
  /\ op' = [op EXCEPT ![a] = [Idle EXCEPT !.pc = "crashed"]]
  /\ UNCHANGED <<registryVars, execVars, hook>>

Restart(a) ==
  /\ At(a, "crashed")
  /\ Done(a)
  /\ UNCHANGED <<registryVars, execVars, hook>>

Environment ==
  \/ \E g \in Gens : Exec(g) \/ BarrierTimeout(g) \/ ProviderExit(g) \/ HookCheck(g)
  \/ ServerLost \/ HookApply \/ HookDrop
  \/ \E a \in Actors : Crash(a) \/ Restart(a)

RuntimeNext == (\E a \in Actors : Act(a)) \/ Environment

RuntimeSpec == RuntimeInit /\ [][RuntimeNext]_vars

-----------------------------------------------------------------------------
(* Fairness.  A process inside an action takes its next step (every wait   *)
(* in the code has a deadline), and a barrier that sees its file runs.     *)

Proceed(a) == ~At(a, "idle") /\ Act(a)

Fairness == /\ \A a \in Actors : WF_vars(Proceed(a))
            /\ \A g \in Gens : WF_vars(Exec(g))

FairSpec == RuntimeSpec /\ Fairness

\* On top of it: whoever may use the Workstream tries every action again and
\* again, and a barrier gives up after its timeout.
Persistence ==
  /\ \A a \in Actors : /\ SF_vars(BeginStart(a)) /\ SF_vars(BeginRecover(a))
                       /\ SF_vars(BeginArchive(a)) /\ SF_vars(BeginForget(a))
                       /\ SF_vars(BeginAttach(a))
  /\ \A a \in Actors : WF_vars(Restart(a))
  /\ \A g \in Gens : WF_vars(BarrierTimeout(g))

PersistentSpec == FairSpec /\ Persistence

-----------------------------------------------------------------------------
(* Properties.                                                             *)

Running == {g \in Gens : pane[g] = "provider"}

\* "One Workstream has at most one live Runtime": no two providers run.
OneProvider == Cardinality(Running) <= 1

\* A provider never runs unless the registry records its fingerprint, so a
\* later action can always find and stop it, whichever process crashed.
LiveIsRecorded == \A g \in Running : rt.status # "none" /\ rt.proc = g

\* A parked Workstream has no provider, and no late hook revives its row.
ParkedIsQuiet == ws.life = "parked" => Running = {} /\ rt.status \in {"none", "stopped"}

ParkedIsStopped == ws.life = "parked" => rt.status \in {"none", "stopped"}

\* Archive never hides a Workstream whose provider still runs.
ArchiveHidesNothing == [][~ws.archived /\ ws'.archived => Running' = {}]_vars

\* The fingerprint a launcher records is that of the pane of its own
\* generation, although all generations share one socket and another process
\* stops and starts servers on it; not so with a third process, or if a server
\* ends by itself.
RecordedIsOwn == rt.proc \in {Null, rt.gen}

\* A row that an action read and whose revision is still the current one is
\* the current row in every column: what a compare-and-set on the revision
\* accepts is exactly what the action based its decision on.
SnapshotIsCurrent ==
  \A a \in Actors : rt.status # "none" /\ op[a].rt.rev = rt.rev => op[a].rt = rt

\* Only a hook moves a Runtime to idle, working or attention, and only the
\* Runtime whose recorded process it corroborated, however late it commits.
ActivityIsObserved ==
  rt' # rt /\ rt'.status \in {"idle", "working", "attention"}
    => hook.gen = rt'.gen /\ hook.proc = rt'.proc /\ rt'.proc # Null

HookEvidence == [][ActivityIsObserved]_vars

\* The promise of WorkstreamPromise, with one action at a time.
Promise == INSTANCE WorkstreamPromise
             WITH Providers <- Gens, life <- ws.life, archived <- ws.archived, running <- Running

PromiseKept == Promise!PromiseSpec

\* A reserved generation without a recorded process is transient: its
\* launcher records the process or gives the generation up.
Prepared == rt.status = "starting" /\ rt.proc = Null

LaunchSettles == Prepared ~> ~Prepared

\* The same with crashes: when processes stop crashing and actions keep being
\* tried (within the bound), the prepared record is reconciled.
PreparedIsReconciled ==
  \/ []<>(\E a \in Actors : At(a, "crashed"))
  \/ <>[]~BudgetLeft
  \/ Prepared ~> ~Prepared
=============================================================================
