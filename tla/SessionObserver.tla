-------------------------- MODULE SessionObserver --------------------------
(***************************************************************************)
(* The observer of a live OpenCode Runtime (provider/opencode/observer.rs),*)
(* the handle row that records it (state/runtime.rs), the observations it  *)
(* applies (state/lifecycle.rs), and the actions that launch, recover and  *)
(* park the Runtime around it (actions/start.rs, actions/lifecycle.rs).    *)
(*                                                                         *)
(* A launch starts the provider in the private pane, records its identity, *)
(* waits for its endpoint, records a handle and spawns an observer process *)
(* that makes itself Ready when its event stream is open.  From then on    *)
(* the observer alone moves the Runtime between idle, working and          *)
(* attention, from events that may be lost, late or repeated and from      *)
(* polls of the session.  Launches, parks and recoveries of the same       *)
(* Workstream may overlap.                                                 *)
(*                                                                         *)
(* One Workstream; generation g has provider g and observer g.  A handle   *)
(* never takes a value twice, and a Runtime row comes back to a status of  *)
(* its generation only after another message was settled: a stale revision *)
(* is a changed handle, and a changed row or last message.  How the first  *)
(* session came to be is in SessionCreation.                               *)
(***************************************************************************)
EXTENDS Naturals, FiniteSets

CONSTANTS
  Actors,     \* processes that run launch, recover and park actions
  Launches,   \* bound: Runtime generations
  Turns,      \* bound: turns the session completes
  Failures    \* TRUE if processes may die

ASSUME LaunchesAssumption == Launches \in Nat \ {0}
ASSUME TurnsAssumption == Turns \in Nat
ASSUME FailuresAssumption == Failures \in BOOLEAN

Gens == 1..Launches
Messages == 1..Turns

VARIABLES
  liveRow,     \* the Runtime row: generation, status, identity recorded
  workstream,  \* lifecycle of the Workstream
  bound,       \* the binding: generation, start source, last settled message
  settled,     \* opencode_settled_messages
  handle,      \* the handle row
  observer,    \* the observer process of each generation
  provider,    \* the generation whose provider runs in the private pane
  session,     \* the root session: busy, completed messages
  actor,       \* each process: its step and the rows it read
  marked,      \* history: how often a message of a generation asked for attention
  stopped      \* history: observers that somebody else stopped

liveRows == <<liveRow, workstream, bound, settled>>
world == <<provider, session>>
observerVars == <<liveRow, workstream, bound, settled, handle, observer, provider,
                  session, actor, marked, stopped>>

NoHandle == [gen |-> 0, status |-> "none", pid |-> 0]
Handles == [gen : 0..Launches, status : {"none", "starting", "ready", "unknown"}, pid : 0..Launches]
NoHint == [kind |-> "none", message |-> 0, of |-> "none"]
Process == [at |-> "none", candidate |-> 0, seen |-> NoHandle, hint |-> NoHint]
Gone == [Process EXCEPT !.at = "gone"]
NotStarted == [gen |-> 0, status |-> "none", identified |-> FALSE]
Fresh == [at |-> "idle", row |-> NotStarted, last |-> 0, handle |-> NoHandle]
Observed == {"idle", "working", "attention"}

ObserverInit ==
  /\ liveRow = NotStarted
  /\ workstream = "open"
  /\ bound = [gen |-> 0, source |-> "none", last |-> 0]
  /\ settled = {}
  /\ handle = NoHandle
  /\ observer = [g \in Gens |-> Process]
  /\ provider = 0
  /\ session = [busy |-> FALSE, done |-> 0]
  /\ actor = [a \in Actors |-> Fresh]
  /\ marked = [g \in Gens |-> [m \in Messages |-> 0]]
  /\ stopped = {}

-----------------------------------------------------------------------------
(* The rows.                                                               *)

SetStatus(status) == liveRow' = [liveRow EXCEPT !.status = status]
NextLaunch == [gen |-> liveRow.gen + 1, status |-> "starting", identified |-> FALSE]

FenceRuntime == SetStatus("unknown") /\ workstream' = "recovery_required"

(* mark_opencode_observer_unknown_exact on the handle as it is, if it      *)
(* still is of generation g and has an observer.                           *)
MarkUnknownIfOf(g) ==
  handle' = IF handle.gen = g /\ handle.pid # 0
              THEN [handle EXCEPT !.status = "unknown"] ELSE handle

(* terminate_owned_observer_process: exact, and no error if it is gone.    *)
StopObserver(pid) ==
  IF pid = 0 THEN UNCHANGED <<observer, stopped>>
  ELSE /\ observer' = [observer EXCEPT ![pid] = Gone]
       /\ stopped' = stopped \union {pid}

(* kill-server on the one private socket: whatever generation runs there.  *)
StopProvider == provider' = 0 /\ session' = [session EXCEPT !.busy = FALSE]

-----------------------------------------------------------------------------
(* A process and its steps.                                                *)

On(a, step) == actor[a].at = step
Step(a, step) == actor' = [actor EXCEPT ![a] = IF step = "idle" THEN Fresh ELSE [@ EXCEPT !.at = step]]
Mine(a) == actor[a].row.gen
AsRead(a) == liveRow = actor[a].row /\ bound.last = actor[a].last
Keep == UNCHANGED <<marked, session>>

(* start_opencode up to the reserved Runtime and its binding.              *)
ReserveStart(a) ==
  /\ On(a, "idle")
  /\ workstream \in {"open", "parked"}
  /\ liveRow.status \in {"none", "stopped"}
  /\ provider = 0
  /\ liveRow.gen < Launches
  /\ liveRow' = NextLaunch
  /\ workstream' = "open"
  /\ bound' = [bound EXCEPT !.gen = NextLaunch.gen,
                            !.source = IF bound.gen = 0 THEN "new" ELSE "resume"]
  /\ actor' = [actor EXCEPT ![a].at = "launch", ![a].row = NextLaunch,
                             ![a].last = bound.last]
  /\ UNCHANGED <<settled, handle, observer, world, marked, stopped>>

(* recover_opencode.                                                       *)
BeginRecovery(a) ==
  /\ On(a, "idle")
  /\ workstream = "recovery_required"
  /\ liveRow.status = "unknown" /\ liveRow.identified
  /\ bound.gen = liveRow.gen /\ handle.gen = liveRow.gen
  /\ provider = 0
  /\ actor' = [actor EXCEPT ![a] = [at |-> "recover_stop", row |-> liveRow, last |-> bound.last,
                                  handle |-> handle]]
  /\ UNCHANGED <<liveRows, handle, observer, world, marked, stopped>>

StopLost(a) ==
  /\ On(a, "recover_stop")
  /\ StopObserver(actor[a].handle.pid)
  /\ StopProvider
  /\ Step(a, "recover_reserve")
  /\ UNCHANGED <<liveRows, handle>>
  /\ UNCHANGED marked

ReserveRecovery(a) ==
  /\ On(a, "recover_reserve")
  /\ liveRow.gen < Launches
  /\ IF workstream = "recovery_required" /\ liveRow.status = "unknown"
       THEN /\ liveRow' = NextLaunch
            /\ bound' = [bound EXCEPT !.gen = NextLaunch.gen, !.source = "resume"]
            /\ actor' = [actor EXCEPT ![a].at = "launch", ![a].row = NextLaunch,
                             ![a].last = bound.last]
       ELSE UNCHANGED <<liveRow, bound>> /\ Step(a, "idle")
  /\ UNCHANGED <<workstream, settled, handle, observer, world, marked, stopped>>

-----------------------------------------------------------------------------
(* launch_reserved_opencode_runtime.                                       *)

(* The private directory must not exist; the pane runs the barrier.        *)
LaunchPane(a) ==
  /\ On(a, "launch")
  /\ provider = 0
  /\ provider' = Mine(a)
  /\ Step(a, "record_identity")
  /\ UNCHANGED <<liveRows, handle, observer, session, marked, stopped>>

(* fail_unidentified_runtime_launch: park, and fence the row if it is      *)
(* still the one that was reserved.                                        *)
LaunchUnidentified(a) ==
  /\ On(a, "launch")
  /\ StopProvider
  /\ IF AsRead(a) THEN FenceRuntime ELSE UNCHANGED <<liveRow, workstream>>
  /\ Step(a, "failed")
  /\ UNCHANGED <<bound, settled, handle, observer, marked, stopped>>

RecordIdentity(a) ==
  /\ On(a, "record_identity")
  /\ AsRead(a)
  /\ liveRow' = [liveRow EXCEPT !.identified = TRUE]
  /\ Step(a, "await_provider")
  /\ UNCHANGED <<workstream, bound, settled, handle, observer, world, marked, stopped>>

ProviderReady(a) ==
  /\ On(a, "await_provider")
  /\ provider = Mine(a)
  /\ Step(a, "record_handle")
  /\ UNCHANGED <<liveRows, handle, observer, world, marked, stopped>>

HandleAdmitted(a) ==
  liveRow.gen = Mine(a) /\ liveRow.status = "starting" /\ bound.gen = Mine(a)

RecordHandle(a) ==
  /\ On(a, "record_handle")
  /\ HandleAdmitted(a)
  /\ handle' = [gen |-> Mine(a), status |-> "starting", pid |-> 0]
  /\ actor' = [actor EXCEPT ![a].at = "spawn", ![a].handle = handle']
  /\ UNCHANGED <<liveRows, observer, world, marked, stopped>>

(* park_and_stop_provider after a stale row, a provider that is not ready  *)
(* or a refused handle.                                                    *)
LaunchFailed(a) ==
  /\ \/ On(a, "record_identity") /\ ~ AsRead(a)
     \/ On(a, "await_provider")
     \/ On(a, "record_handle") /\ ~ HandleAdmitted(a)
  /\ StopProvider
  /\ Step(a, "failed")
  /\ UNCHANGED <<liveRows, handle, observer, marked, stopped>>

(* spawn_opencode_observer_with_mode: the child runs before it is recorded.*)
SpawnObserver(a) ==
  /\ On(a, "spawn")
  /\ observer' = [observer EXCEPT ![Mine(a)].at = "starting"]
  /\ Step(a, "record_observer")
  /\ UNCHANGED <<liveRows, handle, world, marked, stopped>>

RecordObserver(a) ==
  /\ On(a, "record_observer")
  /\ IF handle = actor[a].handle
       THEN /\ handle' = [handle EXCEPT !.pid = Mine(a)]
            /\ Step(a, "await_observer")
            /\ UNCHANGED <<observer, stopped>>
       ELSE StopObserver(Mine(a)) /\ Step(a, "failed") /\ UNCHANGED handle
  /\ UNCHANGED <<liveRows, provider>>
  /\ Keep

(* wait_for_spawned_observer_ready.                                        *)
OwnHandle(a) == handle.gen = Mine(a) /\ handle.pid = Mine(a)

ObserverReady(a) ==
  /\ On(a, "await_observer")
  /\ OwnHandle(a) /\ handle.status = "ready"
  /\ observer[Mine(a)].at # "gone"
  /\ Step(a, "idle")
  /\ UNCHANGED <<liveRows, handle, observer, world, marked, stopped>>

(* It exited, failed, lost its handle, or was not ready in time: the       *)
(* handle is marked if it still is its own, and the child is terminated.   *)
ObserverFailed(a) ==
  /\ On(a, "await_observer")
  /\ MarkUnknownIfOf(Mine(a))
  /\ StopObserver(Mine(a))
  /\ Step(a, "failed")
  /\ UNCHANGED <<liveRows, provider>>
  /\ Keep

-----------------------------------------------------------------------------
(* cleanup_failed_opencode_runtime.                                        *)

CleanObserver(a) ==
  /\ On(a, "failed")
  /\ StopObserver(handle.pid)
  /\ Step(a, "clean_runtime")
  /\ UNCHANGED <<liveRows, handle, provider>>
  /\ Keep

CleanRuntime(a) ==
  /\ On(a, "clean_runtime")
  /\ StopProvider
  /\ Step(a, "fence")
  /\ UNCHANGED <<liveRows, handle, observer, marked, stopped>>

(* Whatever generation the row has by now.                                 *)
Fence(a) ==
  /\ On(a, "fence")
  /\ IF liveRow.status # "unknown" THEN FenceRuntime ELSE UNCHANGED <<liveRow, workstream>>
  /\ Step(a, "idle")
  /\ UNCHANGED <<bound, settled, handle, observer, world, marked, stopped>>

-----------------------------------------------------------------------------
(* finalize_park.                                                          *)

BeginPark(a) ==
  /\ On(a, "idle")
  /\ liveRow.status \in Observed \union {"starting"}
  /\ actor' = [actor EXCEPT ![a] = [at |-> "park_observer", row |-> liveRow, last |-> bound.last,
                                  handle |-> handle]]
  /\ UNCHANGED <<liveRows, handle, observer, world, marked, stopped>>

ParkObserver(a) ==
  /\ On(a, "park_observer")
  /\ StopObserver(actor[a].handle.pid)
  /\ Step(a, "park_provider")
  /\ UNCHANGED <<liveRows, handle, provider>>
  /\ Keep

ParkProvider(a) ==
  /\ On(a, "park_provider")
  /\ StopProvider
  /\ Step(a, IF actor[a].handle = NoHandle THEN "park_row" ELSE "park_handle")
  /\ UNCHANGED <<liveRows, handle, observer, marked, stopped>>

DeleteHandle(a) ==
  /\ On(a, "park_handle")
  /\ IF handle.gen = Mine(a)
       THEN Step(a, "park_row") /\ handle' = NoHandle
       ELSE Step(a, "park_failed") /\ UNCHANGED handle
  /\ UNCHANGED <<liveRows, observer, world, marked, stopped>>

ParkRow(a) ==
  /\ On(a, "park_row")
  /\ IF AsRead(a)
       THEN SetStatus("stopped") /\ workstream' = "parked" /\ Step(a, "idle")
       ELSE Step(a, "park_failed") /\ UNCHANGED <<liveRow, workstream>>
  /\ UNCHANGED <<bound, settled, handle, observer, world, marked, stopped>>

(* fail_runtime_cleanup, with the revision read at the beginning.          *)
ParkFailed(a) ==
  /\ On(a, "park_failed")
  /\ IF AsRead(a) THEN FenceRuntime ELSE UNCHANGED <<liveRow, workstream>>
  /\ Step(a, "idle")
  /\ UNCHANGED <<bound, settled, handle, observer, world, marked, stopped>>

-----------------------------------------------------------------------------
(* Other actions that look at a Runtime.                                   *)

(* A lost provider, found by a snapshot, a start or an attachment.         *)
ReconcileLost ==
  /\ liveRow.identified /\ liveRow.status \in Observed \union {"starting"}
  /\ provider # liveRow.gen
  /\ FenceRuntime
  /\ UNCHANGED <<bound, settled, handle, observer, world, actor, marked, stopped>>

(* validate_opencode_live_runtime finds other evidence than the handle has.*)
RefuteHandle ==
  /\ handle.gen = liveRow.gen /\ handle.pid # 0 /\ handle.status # "unknown"
  /\ provider # liveRow.gen \/ handle.status # "ready" \/ observer[handle.pid].at = "gone"
  /\ handle' = [handle EXCEPT !.status = "unknown"]
  /\ UNCHANGED <<liveRows, observer, world, actor, marked, stopped>>

-----------------------------------------------------------------------------
(* The observer process: startup (run_observer_with_authority).            *)

Runs(g, step) == observer[g].at = step
Becoming(g, step) ==
  observer' = [observer EXCEPT ![g] = IF step = "gone" THEN Gone ELSE [@ EXCEPT !.at = step]]
Alone == UNCHANGED <<liveRows, world, actor, marked, stopped>>

(* The endpoint is owned and healthy, and the event stream is open.        *)
OpenStream(g) ==
  /\ Runs(g, "starting")
  /\ liveRow.gen = g /\ handle.gen = g
  /\ provider = g
  /\ Becoming(g, "prepare")
  /\ UNCHANGED handle /\ Alone

\* Mutant: start-up has no deadline and waits for its own target.
StartupEndsReplaced(g) ==
  /\ Runs(g, "starting")
  /\ liveRow.gen # g \/ handle.gen # g
  /\ MarkUnknownIfOf(g)
  /\ Becoming(g, "gone")
  /\ Alone

(* Another target, no handle, or not ready before the deadline.            *)
StartupEnds(g) ==
  /\ Runs(g, "starting")
  /\ MarkUnknownIfOf(g)
  /\ Becoming(g, "gone")
  /\ Alone

ReadHandle(g) ==
  /\ Runs(g, "prepare")
  /\ observer' = [observer EXCEPT ![g].at = IF handle = NoHandle THEN "gone" ELSE "mark_ready",
                                  ![g].seen = handle]
  /\ UNCHANGED handle /\ Alone

(* mark_opencode_observer_ready; a refusal ends the observer.              *)
MarkReady(g) ==
  /\ Runs(g, "mark_ready")
  /\ IF handle = observer[g].seen /\ handle = [gen |-> g, status |-> "starting", pid |-> g]
       THEN /\ observer' = [observer EXCEPT ![g].at = "watching", ![g].seen = NoHandle]
            /\ handle' = [handle EXCEPT !.status = "ready"]
       ELSE Becoming(g, "gone") /\ UNCHANGED handle
  /\ Alone

-----------------------------------------------------------------------------
(* supervise.                                                              *)

Watches(g) == Runs(g, "watching")

\* Mutant: an observer that gives up leaves its handle Ready.
SupervisionEndsSilently(g) ==
  /\ Watches(g)
  /\ Becoming(g, "gone")
  /\ UNCHANGED handle /\ Alone

(* Another generation or identity, or bad health, ownership or status, or  *)
(* no event stream: each limit of retries may be met.                      *)
SupervisionEnds(g) ==
  /\ Watches(g)
  /\ MarkUnknownIfOf(g)
  /\ Becoming(g, "gone")
  /\ Alone

(* apply_hint reads the revision its observation is for.                   *)
Hint(g, kind, message, candidate) ==
  observer' = [observer EXCEPT ![g].at = "apply", ![g].candidate = candidate,
                 ![g].hint = [kind |-> kind, message |-> message, of |-> liveRow.status]]

Candidate(g, message) == observer' = [observer EXCEPT ![g].candidate = message]
Reads(g) == Watches(g) /\ provider = g

(* poll_root_status.                                                       *)
PollBusy(g) ==
  /\ Reads(g)
  /\ session.busy /\ liveRow.status # "working"
  /\ Hint(g, "working", 0, observer[g].candidate)
  /\ UNCHANGED handle /\ Alone

PollIdle(g) ==
  /\ Reads(g)
  /\ ~ session.busy /\ observer[g].candidate # 0
  /\ Hint(g, "settled", observer[g].candidate, 0)
  /\ UNCHANGED handle /\ Alone

(* apply_event: a completed message, now or again after a reconnection.    *)
EventCompleted(g) ==
  /\ Watches(g)
  /\ \E m \in 1..session.done : Candidate(g, m)
  /\ UNCHANGED handle /\ Alone

(* A message that is not complete drops the candidate; it means work only  *)
(* while the session is busy.                                              *)
EventUpdated(g) ==
  /\ Watches(g)
  /\ IF session.busy /\ provider = g /\ liveRow.status # "working"
       THEN Hint(g, "working", 0, 0) ELSE Candidate(g, 0)
  /\ UNCHANGED handle /\ Alone

(* settle_if_idle.                                                         *)
EventIdle(g) ==
  /\ Reads(g)
  /\ observer[g].candidate # 0
  /\ IF session.busy THEN Candidate(g, 0) ELSE Hint(g, "settled", observer[g].candidate, 0)
  /\ UNCHANGED handle /\ Alone

EventStarted(g) ==
  Watches(g) /\ Hint(g, "started", 0, observer[g].candidate) /\ UNCHANGED handle /\ Alone

EventEnded(g) ==
  Watches(g) /\ Hint(g, "ended", 0, observer[g].candidate) /\ UNCHANGED handle /\ Alone

-----------------------------------------------------------------------------
(* apply_opencode_lifecycle_observation.                                   *)

HintOf(g) == observer[g].hint

Corroborated(g) ==
  /\ liveRow.gen = g /\ liveRow.status = HintOf(g).of
  /\ handle = [gen |-> g, status |-> "ready", pid |-> g]
  /\ bound.gen = g

Applying(g, kind) == Runs(g, "apply") /\ HintOf(g).kind = kind
Applied(g, step) ==
  observer' = [observer EXCEPT ![g] = IF step = "gone" THEN Gone
                                      ELSE [@ EXCEPT !.at = step, !.hint = NoHint]]
Live == liveRow.status \in Observed \union {"starting"}
ResumesRecovery == workstream = "recovery_required" => bound.source = "resume"

ApplyStarted(g) ==
  /\ Applying(g, "started")
  /\ Corroborated(g) /\ liveRow.status = "starting" /\ ResumesRecovery
  /\ SetStatus("idle")
  /\ workstream' = "open"
  /\ Applied(g, "watching")
  /\ UNCHANGED <<bound, settled, handle, world, actor, marked, stopped>>

ApplyWorking(g) ==
  /\ Applying(g, "working")
  /\ Corroborated(g) /\ Live
  /\ IF liveRow.status = "working" THEN UNCHANGED liveRow ELSE SetStatus("working")
  /\ Applied(g, "watching")
  /\ UNCHANGED <<workstream, bound, settled, handle, world, actor, marked, stopped>>

\* Mutant: a message is compared with the last one only.
IsNotLast(g, m) == bound.last # m

(* record_opencode_settled_message.                                        *)
IsNew(g, m) == bound.last # m /\ <<g, m>> \notin settled

ApplySettled(g) ==
  LET m == HintOf(g).message IN
  /\ Applying(g, "settled")
  /\ Corroborated(g) /\ Live
  /\ IF IsNew(g, m)
       THEN /\ settled' = settled \union {<<g, m>>}
            /\ bound' = [bound EXCEPT !.last = m]
            /\ SetStatus("attention")
            /\ marked' = [marked EXCEPT ![g][m] = @ + 1]
       ELSE UNCHANGED <<settled, bound, liveRow, marked>>
  /\ Applied(g, "watching")
  /\ UNCHANGED <<workstream, handle, world, actor, stopped>>

ApplyEnded(g) ==
  /\ Applying(g, "ended")
  /\ Corroborated(g) /\ Live
  /\ SetStatus("stopped")
  /\ Applied(g, "gone")
  /\ UNCHANGED <<workstream, bound, settled, handle, world, actor, marked, stopped>>

Refused(g) ==
  \/ ~ Corroborated(g)
  \/ HintOf(g).kind = "started" /\ ~ (liveRow.status = "starting" /\ ResumesRecovery)
  \/ ~ Live

ApplyRefused(g) ==
  /\ Runs(g, "apply")
  /\ Refused(g)
  /\ MarkUnknownIfOf(g)
  /\ Applied(g, "gone")
  /\ Alone

-----------------------------------------------------------------------------
(* The session, and failures.                                              *)

TurnStarts ==
  /\ provider # 0 /\ ~ session.busy /\ session.done < Turns
  /\ session' = [session EXCEPT !.busy = TRUE]
  /\ UNCHANGED <<liveRows, handle, observer, provider, actor, marked, stopped>>

TurnCompletes ==
  /\ provider # 0 /\ session.busy /\ session.done < Turns
  /\ session' = [busy |-> FALSE, done |-> session.done + 1]
  /\ UNCHANGED <<liveRows, handle, observer, provider, actor, marked, stopped>>

ProviderDies ==
  /\ provider # 0
  /\ StopProvider
  /\ UNCHANGED <<liveRows, handle, observer, actor, marked, stopped>>

ObserverDies(g) ==
  /\ Failures
  /\ observer[g].at \notin {"none", "gone"}
  /\ StopObserver(g)
  /\ UNCHANGED <<liveRows, handle, provider, actor>>
  /\ Keep

ActorDies(a) ==
  /\ Failures
  /\ ~ On(a, "idle")
  /\ Step(a, "idle")
  /\ UNCHANGED <<liveRows, handle, observer, world, marked, stopped>>

-----------------------------------------------------------------------------

LaunchRuntime(a) ==
  \/ LaunchPane(a) \/ LaunchUnidentified(a) \/ RecordIdentity(a) \/ ProviderReady(a)
  \/ RecordHandle(a) \/ LaunchFailed(a)
  \/ SpawnObserver(a) \/ RecordObserver(a) \/ ObserverReady(a) \/ ObserverFailed(a)
  \/ CleanObserver(a) \/ CleanRuntime(a) \/ Fence(a)

ParkRuntime(a) ==
  BeginPark(a) \/ ParkObserver(a) \/ ParkProvider(a) \/ DeleteHandle(a) \/ ParkRow(a) \/ ParkFailed(a)

RecoverRuntime(a) == BeginRecovery(a) \/ StopLost(a) \/ ReserveRecovery(a)

BecomeReady(g) == OpenStream(g) \/ StartupEnds(g) \/ ReadHandle(g) \/ MarkReady(g)

Supervise(g) ==
  \/ SupervisionEnds(g) \/ PollBusy(g) \/ PollIdle(g)
  \/ EventCompleted(g) \/ EventUpdated(g) \/ EventIdle(g) \/ EventStarted(g) \/ EventEnded(g)

ApplyObservation(g) ==
  \/ ApplyStarted(g) \/ ApplyWorking(g) \/ ApplySettled(g) \/ ApplyEnded(g) \/ ApplyRefused(g)

ObserverNext ==
  \/ \E a \in Actors :
       ReserveStart(a) \/ LaunchRuntime(a) \/ ParkRuntime(a) \/ RecoverRuntime(a) \/ ActorDies(a)
  \/ \E g \in Gens : BecomeReady(g) \/ Supervise(g) \/ ApplyObservation(g) \/ ObserverDies(g)
  \/ ReconcileLost \/ RefuteHandle
  \/ TurnStarts \/ TurnCompletes \/ ProviderDies

(* An observer's deadlines and checks come whatever events keep coming.    *)
TargetLost(g) == liveRow.gen # g \/ provider # g
ObserverFairness ==
  \A g \in Gens :
    /\ WF_observerVars(BecomeReady(g))
    /\ WF_observerVars(ApplyObservation(g))
    /\ SF_observerVars(TargetLost(g) /\ SupervisionEnds(g))

ObserverSpec == ObserverInit /\ [][ObserverNext]_observerVars
FairObserverSpec == ObserverSpec /\ ObserverFairness

-----------------------------------------------------------------------------
(* Properties.                                                             *)

ActorSteps == {"idle", "recover_stop", "recover_reserve", "launch", "record_identity",
               "await_provider", "record_handle", "spawn", "record_observer",
               "await_observer", "failed", "clean_runtime", "fence", "park_observer",
               "park_provider", "park_handle", "park_row", "park_failed"}
ObserverSteps == {"none", "starting", "prepare", "mark_ready", "watching", "apply", "gone"}
LiveRows == [gen : 0..Launches, identified : BOOLEAN,
             status : Observed \union {"none", "starting", "stopped", "unknown"}]

(* Every variable keeps its type.                                          *)
ObserverTypeOK ==
  /\ liveRow \in LiveRows
  /\ workstream \in {"open", "parked", "recovery_required"}
  /\ bound \in [gen : 0..Launches, source : {"none", "new", "resume"}, last : 0..Turns]
  /\ settled \subseteq Gens \X Messages
  /\ handle \in Handles
  /\ \A g \in Gens :
       /\ observer[g].at \in ObserverSteps
       /\ observer[g].candidate \in 0..Turns /\ observer[g].seen \in Handles
  /\ provider \in 0..Launches
  /\ session \in [busy : BOOLEAN, done : 0..Turns]
  /\ actor \in [Actors -> [at : ActorSteps, row : LiveRows, last : 0..Turns,
                          handle : Handles]]
  /\ marked \in [Gens -> [Messages -> Nat]]
  /\ stopped \subseteq Gens

(* A completed message asks for attention once in a generation, however    *)
(* often and however late its event is delivered.                          *)
SettlesOnce == \A g \in Gens, m \in Messages : marked[g][m] <= 1

(* A handle that is Ready names an observer that supervises, unless it was *)
(* stopped from outside or it saw the session end.                         *)
ReadyIsSupervised ==
  handle.status = "ready" =>
    \/ observer[handle.pid].at \in {"watching", "apply"}
    \/ handle.pid \in stopped
    \/ liveRow.status \in {"stopped", "unknown"} \/ liveRow.gen # handle.gen

(* Observers that run without the Runtime they were started for.           *)
Stray == {g \in Gens : observer[g].at \notin {"none", "gone"} /\ TargetLost(g)}

(* An observer does not outlive the Runtime generation it was started for: *)
(* once its provider is gone or replaced, it ends by itself.               *)
ObserversEnd == []<>(Stray = {})
=============================================================================
