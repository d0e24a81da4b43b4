# A TLA+ verification of WSNav

WSNav (Workstream Navigator, `src/src`) keeps long-lived AI coding sessions
("Workstreams") on one host.  A Workstream is a catalog entry for a Git worktree;
its provider (Codex or OpenCode) runs in a private tmux server, the *Runtime*.
The program has no daemon: every Navigator, CLI call, provider hook, launch barrier
and onboarding helper is a short or long-lived process of its own, and they meet
only in an SQLite file, in private directories, in tmux sockets and in the process
table.  What makes it hard to get right is therefore not computation but
*interleaving and partial failure*: a row is read, a pane is probed, a signal is
sent and a row is compared-and-set, each in a step of its own, while other processes
do the same and any of them may die.

The project states and checks what those steps guarantee together.

## 1. Inventory

| Part (source) | State | Operations | Hard behaviour | What makes it correct |
|---|---|---|---|---|
| **Host registry** `state/{runtime,workstream,lifecycle}.rs`, `state/current/observer.rs`, `state/schema.rs` | SQLite rows: `workstreams` (lifecycle, archived, revision), `runtimes` (status, tmux generation, pid and birth, revision), `provider_bindings` (session, generation, revision) | one IMMEDIATE transaction each: reserve, reserve recovery, record identity, mark stopped, mark recovery required, park, reconcile recovery, archive, restore, forget, hook events | transactions of many processes in any order; a row without a process; revisions read long before they are used | rows agree with one another; a stale compare-and-set never hits; recovery is left only with proof; no conversation is lost |
| **Runtime actions** `actions/{start,lifecycle,cleanup,attachment}.rs` | none but what one process holds between its steps | start, recover, park (inside archive, forget, attachment), archive, restore, forget, attachment preflight and return | read, probe, signal, remove, commit are separate; compensation after failed launches; actions of two processes | at most one provider per Workstream; nothing is hidden, parked or forgotten while its provider runs; every failure leaves a state another action can resolve |
| **Private Runtime** `runtime/mod.rs`, `private_tmux.rs` | directory, socket, `launch.ready`, pane, process group | create, launch behind a barrier, probe, terminate the exact group, kill server, remove directory | all generations share one path; a provider that outlives its server; an exited leader with a live group | only exactly proved processes are signalled |
| **Codex hooks** `app/local.rs`, `provider/codex/hooks.rs`, `state/lifecycle.rs` | none; evidence held between corroboration and transaction | SessionStart, UserPromptSubmit, Stop, SessionEnd | the transaction comes later than the proof and knows only the generation | activity is recorded only for what was corroborated |
| **Degraded marker** `state/current/observer.rs` | final and temporary marker of a generation | mark after a failed write, clear after a committed one | hooks overlap, are killed or run out of time; one write has failures that mark and failures that do not | the marker is there exactly if a write failed on a path that marks since the last commit |
| **Shell onboarding** `state/current/onboarding.rs`, `onboarding.rs`, `onboarding_broker.rs`, `onboarding_helper.rs`, `shell_gate.rs` | operation journal with phases, one-shot capability, broker socket | prepare, consume, advance, cancel, park recovery, resolve, reconcile | the shell, the broker, the helper and the provider are four processes; the journal is written before and after effects that cannot be undone | one capability is used once; an interrupted promotion is either finished, cancelled with nothing left, or kept for recovery |
| **Provisional shells** `provisional.rs`, `presentation/provisional.rs`, `account_shell.rs` | slot directory, marker with a phase, lease lock, registry row of an inactive Runtime | materialise, hand off, cancel before hand-off, retire, reconcile | marker and rows are two stores; a crash between them | a slot is never reused while something may live in it |
| **Provider reconciliation** `provider_reconcile.rs` | journal rows of interrupted onboardings | classify and finish effects after a crash | evidence may have vanished | never repeats a non-idempotent effect |
| **OpenCode sessions and observer** `state/compound.rs`, `provider/opencode*`, `actions/creation.rs` | creation journal, observer handle row, settled messages; server, guardian and observer processes | create a blank session, bind, observe, settle, stop the observer | the POST is not idempotent; four processes that may be killed; events lost, late or repeated | one POST per intent; no server or observer outlives what it serves; a message asks for attention once |
| **Bootstrap and schema gate** `state/current/{bootstrap,schema,mod}.rs`, `state/host.rs` | state root: `bootstrap.lock` with a record, staging database, `host.sqlite`, `provisional.lock`, rollback journal | create, resume, open, refuse | two first starts; a crash between an effect and the record that binds it | one identity, complete before anybody uses it, resumed by the next process |
| **Codex profile and trust** `provider/codex/profile.rs`, `app/observer.rs`, `state/host.rs`, `review.rs` | profile file (settings, declaration, trust records), integration row, a disposable review folder with its marker | consent, set up, update, review, remove; create and retire a review | file, row and native review are written by several parties, some without the lease; a review dies half-way | only what was reviewed is Ready; nothing is left that blocks the next party or the close |
| **Codex app-server, names** `provider/codex/app_server.rs`, `provider/names.rs` | none | a request to a server started for it, a bounded answer | timeouts, descendants that outlive the answer | answers are evidence only; no server outlives its request |
| **Navigator** `navigator/*` | in-memory UI state over a snapshot | calls the actions above | actions run against a stale snapshot | the expected revision refuses stale calls |
| **Presentation** `presentation/*`, `shell_control.rs`, `app/dispatch.rs` | directory with configuration, ownership marker, attachment status and socket; tmux server; in it the provider pane, its tag, a claim and the status of the current attempt | open, discover, reuse, attach, close; attach, cycle, shell, review, literal key | terminals share a directory without a lock; every effect of start and close is a step; a status report is a read and a write; bound keys are processes | one is in order or gone; what the pane shows is what is recorded; every attempt settles |
| **Snapshot, projections** `snapshot.rs`, `state/current/projection.rs` | none | read-only queries | | |
| **Control commands** `process.rs` | a child in a group of its own, two reader threads | run with a deadline, stop and reap the group, join the readers | descendants hold the pipes, fork and exit during the search; the group's number is reused | a command that returned is gone whole; nobody else is killed |
| **Grammar, CLI, probes** `app/{launch,dispatch,cli}.rs`, `repository.rs`, `provider/grammar.rs` | none | parsing, read-only probes | | |

How they interact: an action of a Navigator or of the CLI opens the registry, reads a
row, probes tmux and `/proc`, signals, removes files and finally compares-and-sets the
row it read.  The pane that tmux starts is not the provider but WSNav's own *launch
barrier*: it waits for the file `launch.ready`, which the launcher writes only after it
recorded the pane's process, and then `exec`s the provider.  The provider runs hook
processes, which look the provider up in the registry by ancestry and write their
event in a transaction.  There is no lock across these steps; the revisions, the
generation and the process fingerprint are what hold them together.

## 2. Modules

| Module | Models |
|---|---|
| `Registry` | the three rows of one Codex Workstream; one action per transaction |
| `MCRegistry` | `Registry` with a bound on revisions |
| `WorkstreamPromise` | the abstract specification: what the actions promise the user, with no tmux, files or revisions |
| `RuntimeControl` | EXTENDS `Registry`: the actions as processes over rows, directory, server, barrier file, panes and hooks |
| `MCRuntime` | `RuntimeControl` with symmetry |
| `RuntimeControlProofs` | EXTENDS `RuntimeControl`: the invariant and the action properties of `Registry`; the invariants of `RuntimeControl`, the properties below, that it implements `Registry`, that a park is final, and what holds for one and for two processes |
| `PromotionPromise` | the abstract specification of a promotion: cancelled without a trace, or at most one session and one process |
| `Onboarding` | the promotion of a provisional shell into a managed Runtime: marker, journal, row, pane, directory and effects, under the provisional lease |
| `OnboardingProofs` | EXTENDS `Onboarding`: its inductive invariant, all its safety properties, and that it implements `PromotionPromise` |
| `RootPromise` | the abstract specification of a state root: one identity, published once, used only then |
| `Bootstrap`, `BootstrapProofs` | creation, resumption and opening of the state root; its invariant, its safety properties and that it implements `RootPromise` |
| `SessionCreation` | the journal of a blank OpenCode session with its POST, server, guardian and lease |
| `SessionObserver` | the observer of a live OpenCode Runtime, its handle row, and launch, park and recovery around it |
| `SessionProofs` | EXTENDS both: their invariants and safety properties |
| `Presentation` | files and server of a presentation under several terminals |
| `ProviderPane` | the provider pane of one presentation: claim, tag, status, helpers |
| `PresentationProofs` | EXTENDS both: their invariants and safety properties |
| `GroupStop` | how a process group is stopped, probe by probe and signal by signal |
| `ControlCommand` | a finite child command or App Server request with its descendants and pipes |
| `GroupStopProofs` | EXTENDS both: their invariants and safety properties |
| `ObserverSetup` | the Codex observer profile: file, integration row, review |
| `ReviewFiles` | the disposable folder and marker of a native review |
| `DegradedMarker` | the degraded marker of a generation |
| `ObserverProofs` | EXTENDS the three: their invariants and safety properties |
| `MCHost` | the ten modules that share no variable, one scene at a time |
| `HostProofs` | EXTENDS `MCHost` and the proofs of its components: the types and safety invariants of the host in every scene |

### Registry

`ws`, `rt` and `binding` are the rows.  A tmux generation is a UUID in the code; here
it is a number that a reservation increments, because all that matters is that it is
fresh.  A process fingerprint (pid and birth) is the number of the generation whose
launch created the process.  A deleted Workstream is `"gone"`, an absent Runtime
`"none"`; the generation counter survives deletion so that no number is used twice.

Each action is a whole transaction with its fences: `ReserveRuntime` also reopens the
Workstream, `MarkRecoveryRequired` moves both rows, `ForgetWorkstream` deletes all
three, a hook that completes a recovery writes all three (and touches the Workstream
twice, as the code does).  A refused transaction changes nothing and is a disabled
action.  Note what is *not* touched: `ReconcileRecovery` leaves the Runtime row, so it
stays `starting` under an unchanged revision.

### RuntimeControl

One actor is one process inside one action; `op[a]` is its program counter and the
rows it read.  The steps are the code's accesses to shared state: read the row,
probe, terminate the group, kill the server, remove the directory, record the outcome,
reserve, create the directory, `new-session`, probe the own pane, prove its group,
record the identity, write `launch.ready`.  Everything else may run in between.

What the actions share besides the rows:

* `dir`, `server`, `ready` -- paths derived from the Runtime *id*, so every generation
  uses the same ones.  A failing launch that "parks" its runtime kills whatever
  server is on the socket and removes whatever directory is there.
* `pane[g]` -- the process that generation `g` created: its barrier, its provider, or
  how that ended.  Panes are retained (`remain-on-exit`), so a dead pane keeps the
  server.  A provider may survive the hangup of its server.
* `hook` -- evidence of hook processes between corroboration and transaction; several
  hook processes may hold the same evidence.

`HangUp`, `RemoveDir` (which also unlinks a socket another launch created) and
`TerminateGroup` are the environment's reaction written once.

### WorkstreamPromise and the refinement

`WorkstreamPromise` says: at most one provider runs; parking, archiving and forgetting
happen when none runs; a parked Workstream is reopened before it runs again; recovery
ends in `open`.  The instance `Promise` in `RuntimeControl` maps `life` and `archived`
to the Workstream row and `running` to the set of generations whose pane is a provider.
With one action at a time the code implements it, under every failure (run `serial`);
with two processes it does not (runs `one_provider` and `archive_race`).

### Onboarding

A Navigator window (a *presentation*) may show one *provisional shell*: an account shell
in a private tmux server that no Workstream owns yet.  A provider command typed in
it goes through a *gate*, which reserves a Runtime, a Workstream and an operation in the
journal and hands the shell a one-shot capability; the shell `exec`s the *helper*, which
consumes the capability and `exec`s the provider.  Afterwards a *reconciler* proves that
the process in the pane is that provider.

| Variable | Code |
|---|---|
| `marker[p]` | the marker file of a presentation, `provisional.rs` `ProvisionalPhase`; `"torn"` is a file that was truncated and not rewritten |
| `journal[s]` | `domain::OnboardingPhase` of the operation of slot `s` |
| `row[s]` | the Runtime row, whether it has a process and a session, and the OpenCode observer handle |
| `pane[s]`, `dir[s]` | the process in the slot's pane and the private directory; shell, helper and provider are one process that `exec`s |
| `effects[s]` | what really happened outside: native sessions created, provider processes run.  No code can read it; it is what the stores must not misrepresent |
| `job` | who holds the provisional lease and its next step |

The lease (`acquire_provisional_lease`) is a non-blocking lock on one file of the state
root.  Every sequence that writes a marker or an onboarding row holds it, so at most one
is between its steps; the kernel drops it with its process, and `exec` drops it with the
helper.  Hence `job` is one record: `Acquire` needs it free, and `Abort`, `HelperDies`
and `TearMarker` release it at any step.  The sequences are those of the code:
materialize (`provisional.rs:610-1144`), gate (`shell_control.rs:621`,
`onboarding_broker.rs:157`), helper (`shell_control.rs:859` and `:1019`), prove
(`provider_reconcile.rs`, `shell_control.rs:531`), repair and reconcile
(`provisional.rs:216-421`) and close (`presentation/cleanup.rs`).  Each disk write, tmux
command, POST and `exec` is a step of its own.  Not under the lease, and therefore
interleaved anywhere: the provider and the shell in the pane, the OpenCode observer,
its events, park and archive.

`Vacant` is the host-wide classifier with all its cross-checks: a torn marker or an
operation that no marker accounts for makes it refuse.  A slot is a fresh random id, used
for one materialization.

`Promise` maps `status` to what the journal says of an operation and takes `effects` as
it is.  The refinement says that this sequence of single writes, cut anywhere, is an
atomic promotion that happens at most once.

### Bootstrap and RootPromise

The root is a handful of files; each variable is one of them, `proc[p]` the next effect of
a process and its record in memory.  The record in `bootstrap.lock` is truncated and
written in place (`TruncateRecord`, `WriteRecord`), and each phase has one effect before
its record (`CreateStage`, `CommitStage`, `PublishDatabase`, ...).  `Admissible` is what
each phase requires of the files, `Current` what `classify_current_root` requires without
the lock.  A process dies before any effect.  `Unresumable` names the points where the
code cannot resume -- an effect that is done and not bound yet, or one that is not
atomic -- and `losses` remembers them.

### SessionCreation

`POST /session` is the effect that cannot be repeated.  A start reserves a generation,
journals the operation, spawns a guardian with a helper that becomes the server,
journals that the POST may happen, posts, closes the lease, waits for the guardian and
commits what it knows.  Owner, guardian and server are three processes which may each be
killed; the lease is a pipe the owner holds.  `posted` counts POSTs that reached the
provider and is not readable by any code.

### SessionObserver

Generation `g` has provider `g` and observer `g`.  The handle names the observer and is
compared-and-set; an observation is applied in two steps, a read and a transaction, so
that a park, a recovery or the next launch fits between them.  An event may be lost, late
or repeated.  `marked` counts how often a message asked for attention.

### Presentation, ProviderPane and ReviewFiles

`Presentation` has a directory of files and a tmux server per presentation and the
terminals that run a bare `wsnav`.  They take no lock: each reads the inventory, the
marker and the panes in steps of their own, and starts, attaches or closes on what it
read.  `Readable` is what `read_ownership` accepts.  `ProviderPane` has one pane whose
content is replaced under a claim (a tmux option that is set once); the helper of an
attempt and the literal key do not take the claim, and every report of a phase is a read
and a write.  `ReviewFiles` has the folder and the marker that a review leaves, with the
two-phase removal that renames both before it deletes either.

### GroupStop

One attempt to stop: the leader is identified, opened, frozen through its pidfd and verified
again, the group is struck, the leader thawed, and `/proc` searched for members until none
is left or the time is over; TERM first, then KILL.  `table` is the process table; a search
reads one pid after the other while members fork and exit, and a pid is reused once no
process and no group has it.  A single helper process is stopped in a way of its own.

### ControlCommand

`call` is the thread that runs the command: `output_bounded`, or an App Server request at
leisure or within the deadline of a hook.  `tree` is who has each pid of the child's group,
`rival` a group of strangers with the child's number, `reader` the threads on the pipes.
Every probe, every `/proc` entry, the kill, the reaping and each confirmation is a step.
Unlike `GroupStop` nobody freezes the leader: what protects the number is that the child is
not reaped, which ends when the wait succeeds (`CommandExits`), and from then on only the
session tells strangers apart.  A descendant that leaves the group is taken to close the
pipes, as the callers of `isolate_long_lived_helper` make it do.

### ObserverSetup

The profile file has three regions; a declaration names one executable and the trust
records name the executable whose hooks the user reviewed.  Set-ups hold the provisional
lease, removals and launches do not.  `Readiness` is the check which every party makes
again before it acts.

### DegradedMarker

A hook writes the event (`observer_apply_codex_lifecycle_observation`) and then, at most, the
thread name (`observer_record_thread_metadata`), both through `observer_transition_write`.
A write ends in one of four ways, as that function tells them apart: it commits, and the marker
is cleared (`WriteCommits`); it fails and marks (`WriteFails`); it fails and leaves the marker
alone (`WriteFailsUnmarked`); there is nothing to write (`WriteRefused`, stale or mismatched
evidence).  The third way exists for the event only: the SQLite errors of its statements are
wrapped by `state_error_as_sqlite`, so that they are neither retried nor marked, and only a
failing begin or commit, or a deadline that is over, marks.  The history `missed` says what the
writes that failed since the last commit left.

The marker is a temporary file that is created, filled and renamed.  Every read, creation,
write, rename and removal is a step of one hook; a hook may be killed anywhere.

### MCHost

These components share no variable with one another, so their product says no more than
each of them and would only multiply states.  A behaviour of `MCHost` picks a *scene* and
only that scene's component moves.  Components whose actors and faults together are too
many have two scenes: one with every fault and one actor less, one with more actors and
without the fault.  Every action of a component can be taken in one of its scenes.

*History variables* (`losses`, `harmed`, `accidents`, `mishaps`, `lapses`, `missed`, `refused`,
`shuffled`, `struck`, `crashed`, `slipped`, `stood`, `hit`) remember what no fence of the code covers.  They are read
by properties only; each case in which a property is silent is listed in section 4.

## 3. Runs

| Run | Instance | Distinct states | Shows |
|---|---|---|---|
| `registry` | 2 sessions, revisions up to 8 | 12 k | the rows agree in every order of transactions; `RevisionFence`, `RecoveryNeedsProof`, `SessionKept` |
| `serial` | 1 actor, all five failures, 3 generations, actions begin up to revision 8 | 1.3 M | no provider runs unrecorded, a parked Workstream is quiet, the promise is kept |
| `concurrent` | 2 actors, crashes, provider exits, surviving providers, 3 generations, revision 5 | 3.4 M | a park is final, a launcher records its own pane, snapshots are current, hooks are attributed correctly |
| `launch` | 2 actors, lost servers, exits, timeouts, 2 generations, revision 3, fairness | 80 k | every reservation is settled by its launcher |
| `one_provider` | 2 actors, no failure | | *violated*: two providers of one Workstream |
| `archive_race` | 2 actors, no failure | | *violated*: archive hides a running provider |
| `prepared_crash` | 1 actor, crash and timeout, persistent fairness | | *violated*: a prepared launch that nothing reconciles |
| `onboarding` | 2 presentations, 2 slots, all six failures, fairness | 333 k | at most one candidate, nothing orphaned, marker, journal, row and effects agree, the promise is kept, a running Codex is proven |
| `host` | sixteen scenes, see below, fairness | 491 k | the properties of the ten components below |
| `attached_kept` | 2 terminals, 1 directory, no failure | | *violated*: a second terminal closes a presentation that is in use |
| `observer_race` | 1 presentation, 2 slots, no failure, fairness | | *violated*: an OpenCode event overtakes the proof, which then never succeeds |
| `known_absent` | 1 presentation, 2 slots, no failure, fairness | | *violated*: nothing resolves an exec that is known absent |

**Bounds.** `MaxGen` bounds reservations and `MaxRev` the revision at which an action
or hook may *begin*; an action that has begun always runs to its end, so no outcome
is cut off.  Two sessions are enough for a session to be cleared, retained and confused
with another.  Two actors are enough for any step of an action to meet any step of
another one.  Three generations are enough for a late step to meet a row that was
replaced twice.  `registry` is cut by a state constraint on revisions, which only
removes longer histories of rows that are otherwise the same.  `onboarding` needs no bound
but its two sets: two presentations compete for the candidate, and of two slots one may be
left over (cancelled, managed, in recovery, archived) while the other is promoted.

**Scenes of `host`.**

| Scene | Instance | Properties |
|---|---|---|
| `root` | 2 processes, 2 identities, crashes anywhere | `RootIsSound`, `RootPromised`, `FirstStartSettles` |
| `creation` | 2 creators, 2 generations, owner, guardian and server killed | `PostsOnce`, `AbandonedIsFenced`, `ServerEndsWithLease` |
| `launch`, `overlap` | 1 process, 2 generations, 2 turns, deaths; 2 processes on the second generation of a parked session | `SettlesOnce`, `ReadyIsSupervised`, `ObserversEnd` |
| `presentation`, `opening` | 2 terminals, 1 directory, deaths, refusals, lost servers; a second directory, no faults | `LeftInOrder` |
| `pane`, `switching` | 2 Workstreams, Navigator and one key, 2 attempts, refusals and deaths; Runtimes that come and go | `ShownIsRecorded`, `AttemptsSettle` |
| `stop` | 3 pids that are reused, 2 attempts, the stopper may die | `StopIsExact` |
| `setup`, `update` | 2 parties, 2 executables, 4 operations; without an observer, with a reviewed one | `ProfileIsReviewed` |
| `review`, `reviews` | 1 reviewer and the closer, all faults; 2 reviewers | `ReviewIsTidy` |
| `hooks` | 3 hooks, 2 of which overlap | `MarkerIsSound` |
| `command`, `descent` | a child and one descendant, refused probes, searches and signals, a reused number; two descendants, nothing refused or reused | `CommandIsContained` |

Two processes are enough for any effect of one to fall between any two of another, and two
identities, executables or directories to be taken for one another.  Two generations let a
late step of the first meet the second.  Three pids let the group have a child and a
grandchild and give one pid to a stranger; in `descent` they let a child be born behind a
search.  (`ControlCommand` alone was also checked with three pids and every refusal at once,
128 k states.)  A third hook comes after two that overlapped and
finds what they left.

Deadlock checking is off in every run: the bounds stop the system, and a Workstream that
was forgotten is final.

**Symmetry** of the actors is used in safety runs only.

**Fairness.** `FairSpec` (run `launch`): a process inside an action takes its next step
(`WF` on `Proceed`), since every wait in the code has a deadline and nothing is
locked across steps; a barrier that sees `launch.ready` runs (`WF` on `Exec`).
`PersistentSpec` (run `prepared_crash`) adds what a persistent user does: every action is
tried again and again (`SF`, because other actions may disable it for a while), a
crashed process is replaced, and a barrier gives up after its timeout.  It is deliberately
generous, since that run refutes a liveness claim.  `Onboarding!FairSpec`: the holder of the
lease takes its next step or returns its refusal (`WF` on `JobStep` and on `Refused /\ Abort`;
its waits have deadlines); each presentation polls its reconciler for as long as it runs, and
a poll may find the lease taken or crash any number of times but not for ever (`SF` on
`BeginProve` of each presentation and on `RecordProcess` of each slot); an observer that was
started comes up while its provider runs (`WF` on `ObserverReady`).

`HostFairness` is per process, never per system.  A process inside an attempt to open the
root, a creation, an attachment or a review takes its next step (`WF`; nothing in those
sequences waits without a deadline, and the lock is not waited for).  A guardian reacts to
its lease and an observer opens its stream and applies what it received (`WF`); an observer
that lost its target ends (`SF`: it polls its target between events, so an event may delay
but not prevent it).  Nobody has to begin an operation, a provider need not exit, and no
fault has to happen.

**Properties worth a word.**

* `RecordedIsOwn`: the launcher records the process of the pane it *finds* on the shared
  socket.  With crashes, exits and two processes it is always the pane of its own
  generation, and this is proved (`RecordedIsOwnHolds`).  It is not so if tmux servers may
  also end by themselves: a stalled launcher's `new-session` then lands in the directory of a
  newer generation.  Nor is it so with three processes, of which the third clears the socket
  for the stalled launcher; TLC finds that with three actors, three generations and no failure
  at all.  The run and the theorem state the two hypotheses for this reason.
* `ResumesUnlessTorn` (in `RootIsSound`) claims for every death that the next process can
  go on, and excludes by name exactly the points in `Unresumable`.  The exclusion is not a
  choice of the model: at each of them the next process is refused by the code.
* `NeverPostsAgain` (in `PostsOnce`) is not "one POST per operation", which the journal gives
  by its key: it says that after a POST whose session was not bound *no later generation*
  posts, whoever was killed between the POST and the row.
* `AbandonedIsFenced` relates a process that nobody waits for to a row written by another
  process: what the guardian left must be visible as recovery before anyone reserves again.
* `SettlesOnce` holds although an event is delivered twice and two generations observe one
  session, because the transaction looks a message up among the settled ones and not only in
  the binding's last one; `marked` counts from outside.
* `LeftInOrder` is the claim that a failed stage or a dying Navigator strands nothing;
  `harmed` are directories whose owner died half-way or that were closed while they started.
* `ShownIsRecorded` guards where literal keystrokes go.  It survives overlapping switches
  although helpers write the status without the claim, because the tag is cleared first.
* `StopsAll` (in `StopIsExact`) says that a search which reads one pid at a time is enough
  although members fork behind it, except onto a lower pid; `SparesOthers` says what the
  frozen leader is for: its number cannot be reused between the check and the signal.
* `NobodyHoldsPipes` (in `CommandIsContained`) is why joining the readers ends.  It rests on
  the second search alone: a command whose group is never signalled is still not joined while
  somebody runs.  It excludes a child born behind the search (`slipped`); without that
  exclusion it is violated with three pids.  `KillsItsOwn` says what the session check is for:
  strangers of another session who have the number when the search begins are spared.
* `ParkedIsStopped` (two processes) is weaker than `ParkedIsQuiet` (one process).
* `HookEvidence`: a late hook may turn a row that was marked stopped back to working.
  That is by design (`src/docs/design.md`, hooks are evidence of life); what must not
  happen is that it does so for another generation or process.
* `NothingIsOrphaned` is what every crash of the onboarding threatens: all recovery starts
  from a marker, so a directory, a server or an unresolved operation that no marker names
  would be found by nobody.  It holds although markers may be torn, because a torn
  file still belongs to its presentation and makes the classifier refuse.
* `AtMostOneCandidate` is stated over directories and servers, not over markers, so that it
  cannot hold by the classifier's own bookkeeping.
* `EffectsAreFenced` compares the journal with what really happened, in both directions: no
  effect before its fence, and none where the journal says that there is none.
* `CodexIsProven` holds although the reconciler may crash at every step; for OpenCode the
  same property does not (`observer_race`).

## 4. Where the code differs from what is written

1. `one_provider` -- `src/docs/design.md:1968`: "One Workstream has at most one live
   Runtime."  A start that reads a `starting` row without process while the server does
   not exist yet marks it stopped and reserves over it (`actions/start.rs:138`).  The
   losing launcher then fails, and its cleanup kills and removes what is on the *shared*
   path (`actions/cleanup.rs:123`): the second provider loses its socket and runs on.
2. `archive_race` -- `actions/lifecycle.rs:558`: "A live Runtime is stopped first so the
   provider is never left running behind a hidden row".  `park` commits and then queries
   the Workstream revision again, so archive adopts the revision of a start that another
   process committed in between.
3. `prepared_crash` -- `src/docs/design.md:1356`: "a snapshot reconciles the prepared
   record with the exact private tmux socket and process evidence".  A launcher that dies
   after tmux created the pane and before the identity is recorded leaves a row without
   process; when the barrier has timed out the retained dead pane makes start, recover,
   attach, archive and forget refuse, and no snapshot probes it.

4. `observer_race` -- `src/docs/design.md:855`: the observer "records `Ready` under the same
   exact identity, and only then does the reconciler commit `provider_exec_proven`".  From
   `Ready` on the observer also applies provider events, which the onboarding does not
   fence (`state/lifecycle.rs:215`).  One that commits before the reconciler's next poll makes
   the Runtime active, and `load_exec_proof_target` accepts only a `starting` one
   (`state/current/onboarding.rs:1024`): a provider that works is never proven.
5. `known_absent` -- `src/docs/design.md:807`: "A terminal known-absent exec result is not
   itself action authority: the reconciler must atomically resolve it".  The helper records the
   phase (`shell_control.rs:938`) and the domain permits its transitions, but no code makes
   one.

6. `attached_kept` -- `app/dispatch.rs:468`: "A normal tmux detach leaves the private
   presentation available for a later bare `wsnav` reconnect", and `presentation/cleanup.rs:466`
   refuses to close one that is attached.  The refusal is only made for a Navigator
   that discovery saw alive.  A terminal that read the directory before its server lived
   takes the presentation for a stopped one and closes it (`cleanup.rs:459`) after the first
   terminal started it and attached.

Observed in the model of the onboarding, where no document promises otherwise, or only in
general terms: an account shell that exits leaves its dead pane, which reconciliation and
close both refuse, so the candidate stays occupied until the server is gone; a compound
Archive commits an operation whose marker still says runtime-owned, which the classifier
then calls ambiguous; a recovery operation with a dead pane and no recorded process cannot be
parked until its server is gone; a provider that exits before it was proven leaves its
operation fenced; a prover that dies between starting the observer and finalizing leaves a
handle that no later prover accepts; a gate that dies between its transaction and the marker
leaves a reservation that every retry refuses until the presentation closes.

Observed in the other models, likewise:

* *State root.*  Every journal beside `host.sqlite` makes `classify_current_root` refuse
  (`bootstrap.rs:161-178`), so a writer that dies inside a transaction closes the root to
  new processes until one that already has a connection rolls it back; `design.md:2088` and
  `:2137` speak of a ready root that opens.  Of two first starts the second may lock the first
  one's empty lock file; the first then gives up and the empty file refuses everybody
  (`bootstrap.rs:379-385`).  `ResumesUnlessTorn` and `FirstStartSettles` exclude both by name.
* *OpenCode creation.*  The cleanup of a failed Runtime has no generation check
  (`start.rs:660-706`); a server that never starts ends in recovery although nothing was posted
  (`guardian.rs:455-485`); a second start during a creation marks the live one
  recovery-required, whose session is then never bound (`actions/attachment.rs:62-75`); a binding
  read before the reservation may be stale, and a second POST follows whose commit is refused.
* *OpenCode observer.*  A park that races a launch leaves a handle on a stopped Runtime
  (`lifecycle.rs:215`); an observer that is ready before its parent recorded its pid fails
  (`start.rs:1050-1075`, `observer.rs:309-330`); recovery reopens a Workstream only if the start
  is observed while the row is `starting`.
* *Presentation.*  A temporary status file of a dead writer refuses every reading of the
  ownership for ever, close included (`cleanup.rs:26-86`, `attachment.rs:136-160`); so does a
  death between the removal of the configuration and the directory, or before the marker
  (`cleanup.rs:88-185`, `ownership.rs:113-144`); two overlapping opens end in
  `AmbiguousPresentations`; a status write in flight makes a second terminal close the
  presentation it failed to attach to (`dispatch.rs:484-488`).
* *Provider pane.*  The claim of a dead holder blocks for the life of the server
  (`control.rs:563-627`); a status report is a read and a write although `design.md:1204-1210`
  calls it atomic, so that a late `failed` may overwrite a running attempt and let a review
  replace it; a shell attach leaves the status of the attempt it replaced, which blocks a review.
* *Group stop.*  A child forked onto a pid below the search is missed by that search; a KILL
  after the leader exited may reach a reused group number (compare `runtime/mod.rs:855`); a
  stopper that dies between STOP and CONT leaves a frozen leader.
* *Control commands.*  A search that misses a child forked onto a lower pid declares the group
  gone, and the readers are joined while that child holds the pipe, although `process.rs:103`
  says that joining is then bounded; a successful command is reaped before its group is
  searched, so the kill may reach a group that took the number in between or one of the same
  session (`process.rs:95`, `:518`).
* *Observer profile.*  A death between the install and its row leaves the profile Foreign for
  ever; between an update and its row, Modified; between the unlink and the deletion of the row,
  Unknown.  Two removers and a set-up delete the new profile.  Trust records of one executable
  are accepted for another, since only their shape is checked (`has_complete_hook_trust`), which
  is why an overtaken review is excluded from `ReadyIsReviewed`.  A removal that keeps the
  provider settings leaves a file that is Foreign for ever (`profile.rs:205-221`).
* *Reviews.*  A marker torn between creation and write, or a review that writes a file into
  its folder, refuses the close for ever; so do two overlapping creators of which one fails
  (`review.rs:218`).
* *Degraded marker.*  A statement of the event's transaction that finds the database busy or
  locked is not retried and leaves no marker (`observer.rs:909-911`, `:938`, `:957-959`, `:965`,
  `:121-130`, `:756-758`), although the comment at `observer.rs:866-869` says that "a busy/locked
  database records the closed degraded marker before returning".  The transaction is deferred, so
  this is where contention mostly shows: a hook may be lost without a trace.  In the model this
  is `missed = "unmarked"` at rest, which the run `host` reaches and where `MarkerIsSound` says
  that there is no marker; only failures that do mark are owed one.  A hook that is killed or runs out of its 250 ms between `create_new` and
  the write leaves a file that every later mark and clear of the generation refuses, so that
  writes which committed are reported as errors (`observer.rs:342-368`); two overlapping
  failures with different reasons do the same.  The retry drops its last reason
  (`observer.rs:666-692`).  No production caller reads the marker, although
  `src/docs/roadmap-through-d18-design.md:4268-4271` says that snapshots show `unknown`.

Observed and not a finding: recovery without a recorded process is refused by design,
and a retained pane with a non-zero status is kept for the user (fail closed).

## 5. Proofs

`RuntimeControlProofs` first proves of `Registry`, for every set of sessions and rows of any size,
`IInv == TypeOK /\ UnknownNeedsRecovery /\ ActiveIsBound /\ RowsBelong`.  The parts need
each other: `ActiveIsBound` is preserved by a prompt or stop only because their fence
compares the binding's generation, and by forget only because `RowsBelong` takes
the rows together.  From it follow `RevisionFence`, `RecoveryNeedsProof` and `SessionKept`
as action properties; `TypeOK` and `RowsAgree`, the two parts of `IInv` that the run checks, are
stated by themselves.  The only assumption is that `NoSession` is no session.

Of `RuntimeControl` it proves, for any number of processes, all failures and any bounds:

* `RInv`, whose core is `Holds(o, row)`: what an actor holds is an earlier state of the
  rows -- not newer, and *equal* to it while the revision is -- and a launcher holds
  a row that has no process.  `Succeeds(row, next)` is what every transaction does to
  the Runtime row: the generation never falls, a changed row has a higher revision
  unless it is deleted, a recorded process stays for its generation.  `HoldsSucceeds`
  then carries `Holds` of *every* actor over *every* transaction, so each action only
  has to be proved for the actor that takes it.
* `RuntimeTypeCorrect`, `SnapshotIsCurrentHolds`, `HookEvidenceHolds`.
* `ImplementsRegistry`: every step is a transaction of `Registry` with current revisions
  or leaves the rows alone.  Hence every theorem of `Registry` holds of the
  processes; `RuntimeRecoveryNeedsProof` draws the two that matter most.
* `ParkedIsStoppedHolds`.  `RInv` is not enough: a park commits long after it stopped the
  group, and what makes it final is that in between nothing can revive *that* process.
  `PInv` adds it: a process that a row or an actor knows was created (`Created`); launches
  of different processes open panes of different generations (`LaunchesApart`,
  `PanesFresh`); an action that stopped its group and is about to commit knows a process
  that ended and whose group holds no evidence any more (`Claims`); and no pending evidence
  fits the row of a parked Workstream (`ParkedIsUnheard`).

It then proves what holds of processes that do not race, still for any generations, failures,
hooks and bounds:

* `LiveIsRecordedHolds`, `ParkedIsQuietHolds` and `PromiseKeptHolds` assume `OneActor`: the next
  action may begin wherever the one before it crashed, but no two run at a time.  `SInv` says
  that a barrier waits only on the current server (`BarrierOnServer`), that `launch.ready` is
  there only for the recorded process (`ReleasedIsRecorded`), that a Workstream without a Runtime row or parked
  has neither directory nor server (`NoRowIsEmpty`, `ParkedIsEmpty`), and for each step of the
  action what it has already cleared away (`SerialClaims`): that is why a reservation, a park,
  an archive and a forget find nothing, wherever a crash left the directory before.  The
  refinement of `WorkstreamPromise` follows action by action.
* `OneProviderAlone` and `ArchiveHidesNothingAlone` prove, under the same hypothesis, the two
  properties that the runs `one_provider` and `archive_race` refute: what those runs show comes
  from two processes at a time and from nothing else.
* `RecordedIsOwnHolds` assumes `TwoActors` and that no server ends by itself.  `OwnInv` says
  that while the revision of a launcher's row is current the socket holds the launcher's own
  pane or nothing, and its own pane as long as an overtaken launch has still to open one; only
  another action can clear it, and there the other process is already the overtaken launch.

`OnboardingProofs` proves, for any number of presentations and slots and all failures, from
the sole assumption that `Nil` is neither of them:

* `OnboardingInvariant`.  The invariant holds the five safety properties and what
  makes them inductive: `JobAgrees` says, for each step the holder of the lease may be at,
  how far the marker, the journal and the row have got.  It is needed because every
  property is about two stores that are written one after the other: between the two
  writes only the holder's program counter explains the difference, and when the holder
  dies there, what it leaves must already be one of the pairs that `MarkerAgrees`
  allows.  `CandidateIsSole` says the same of marker files, torn ones included, that
  `AtMostOneCandidate` says of directories and servers; `MarkersAreApart` that a marker
  names its slot alone.
* The proof is organised by *kind of write*, not by action: what a change of the marker, of
  one journal phase, of one row or of one pane must respect so that the parts survive it,
  once each; an action then cites the lemma of its kind.  `RowAgrees`,
  `EffectsAreFenced` and the like are per slot, so that only the slot of the action is argued.
* `OnboardingTypeCorrect`, `CandidateIsSingleton`, `RecoveryFindsEverything`,
  `StoresStayTogether`, `FencesPrecedeEffects`, `RowsTellTheTruth`: the properties of the run.
* `OnboardingKeepsPromise`: every step is a step of `PromotionPromise` on the mapped status
  or a stutter.  That one reservation exists at a time follows from `CandidateIsSole`; that a
  failed operation ran nothing, from `EffectsAreFenced`.

`GroupStopProofs` proves `StopIsExact` for any number of pids and attempts.  `StopInv` says
that a number is no stranger's while a member has it (`NumberIsTaken`), at which steps the
leader is held and that it is frozen then and only then (`HeldBetween`, `HeldIsFrozen`,
`FrozenIsHeld`), and that nobody runs below the cursor of a search that found nobody
(`SearchedIsGone`).

It proves `CommandIsContained` likewise, for any number of descendants.  `CommandInv` says that
strangers have the number only after the reaping and over an empty group (`NumberIsPinned`),
that nobody runs below the cursor of a search that saw nobody unless one slipped
(`SearchedHaveEnded`), that a confirmation follows the reaping (`ReapedInTime`) and that
strangers of another session who stood there all along are not seen (`StoodUnseen`).

`ObserverProofs` proves `MarkerIsSound` for any number of hooks.  `MarkerInv` says that
whoever has to fill a file is at it unless it stopped there, and, for hooks that neither
overlap nor meet a torn file, what each step knows of the two files and of what failed since the
last commit.  A failure that does not mark keeps it, since it moves neither files nor a "marked".

It proves `ReviewIsTidy` for any number of reviewers, of which each may die or be abandoned at
any step.  `ReviewInv` says whose marker and folder there can be (`MarkersAreOwned`,
`MovesMarked`, `MakingHasFolder`); that without overlapping creations there is the trace of one
reviewer at most (`OneTrace`); and that without abandonment somebody is in charge of every
remnant (`ReviewersInCharge`), so that one of the two suffices for what is left to be recoverable.

It proves `ProfileIsReviewed` for any number of parties and executables.  `SetupInv` says which
parties do not meet unless the accident is recorded (`ApartUnlessRecorded`), that file and row
stand apart only between a party's two writes (`ChangesAreWhole`), that the trust in the
file is that of the declaration in the file unless its review was overtaken (`TrustIsShown`), and
that a profile in use is ready with nobody between its writes (`UsedIsReady`).

`PresentationProofs` proves `ShownIsRecorded` for any number of users, attempts and Workstreams,
whatever tmux refuses.  `PaneInv` says that one user at most is at a claimed step
(`ClaimIsExclusive`), that a running status names the helper of its attempt (`RunningNames`),
and that until the user who holds the claim replaces the pane, a running status -- the current
one or the one kept to be restored -- is that of the helper the pane shows
(`UsersAreInOrder`).

It proves `LeftInOrder` for any number of terminals and directories.  `PresInv` is per
directory and only of unharmed ones: who makes a directory is alone in it and has written
what its step says, who closes one has cleared what its step says, and when nobody makes it
it is settled, that is, readable or missing or somebody's to clear.

`SessionProofs` proves `PostsOnce` and `AbandonedIsFenced` for any number of creators
and generations, whoever is killed.  The core of `CInv` is that every generation in creation
has one owner and that the owner's step says what operation, POSTs and guardian are; a
generation left *dirty* (it may have posted, or its server may live) fences the Workstream in
recovery, and no later generation creates.

It proves `SettlesOnce` and `ReadyIsSupervised` for any number of
processes, generations and turns, whoever dies.  The core of `ObserverInv` is `Claim`: until
a launch has recorded the pid of its observer, no handle of its generation names one, and
the handle it recorded is the value it will compare with.  That needs `LaunchesDiffer`, that no two
launches have one generation, and `HandleOK`, that the handle is not ahead of the row, so
that a reservation finds no handle of its new generation.  Only then can no launch spawn over
an observer that is Ready.  `Counted` says that what asked for attention is what is recorded
as settled.  Most actions neither reserve nor record nor spawn: `ObserverQuietKeeps` takes what they
do to the rows, the handle, the observers, the world and the actors apart, and an action
cites the part for each.

`BootstrapProofs` proves, for any number of processes and identities, that die anywhere,
from the assumptions that identities are no file states:

* `BInv`.  The record in the lock file is at most one effect behind the files: `Base` is what
  a phase says of them, `Ahead` what a process holds whose effect is done and whose record is
  not written.  `Blank` says that there is nothing before the first record, `OneNew` that
  one process creates the lock file, `Whole` that -- unless something was torn -- whatever
  the record does not account for has somebody who works on it.
* `RootIsSoundHolds`: one identity, complete before anyone uses it, and resumable.
* `RootKeepsPromise`: every effect is a step of `RootPromise` or a stutter; the commit of the
  provisional lock publishes, `OpenReady` uses.

`HostProofs` EXTENDS `MCHost` and the proof modules of its components, and proves of the host, in
every scene a behaviour may pick and for any values of the constants, `HostTypesHold` and
`HostIsSafe`: that `HostTypeOK` and the twelve safety invariants of the run `host` hold whichever
component moves.  The invariant is the conjunction of the components' invariants.  What is new is
that the two scenes that begin later, with a session parked after one turn and with a reviewed
observer, are states the components' invariants allow; that while the host plays one component the
others stutter; and that a step under `Undisturbed`, `Calm` or `Steady`, which the scenes use to
keep a run small, is a step of its component.  `ScenesAssumption` says that those scenes exist.

### Safety halves of the liveness properties

Each liveness property of the passing runs says that something which is owed is done in the end.
That a fair scheduler does it is TLC's part: the prover reaches neither fairness nor `ENABLED`.
What does not depend on fairness is proved: that whatever may interfere, the one who owes it stays
there and nothing undoes the progress.

| Liveness (TLC) | Safety half (TLAPS) |
|---|---|
| `LaunchSettles` | `PreparedIsOwnedHolds`: without crashes, a prepared generation is held with its current row by its launcher or by the clean-up of its launch.  The run `prepared_crash` shows that the hypothesis is needed |
| `CodexIsProven` | `CodexStaysProvable`: a running Codex keeps a marker that owns its Runtime (`ExecIsOwned`) and a row that awaits its process (`CodexAwaits`), no reconciler that took it up is refused, and it runs on until it is proven or its pane ends -- with all failures.  Both parts follow from what a step may do to a slot (`SlotStep`) and to a marker that owns one (`OwnersStay`) |
| `FirstStartSettles` | `FirstStartIsTended`: from the first `mkdir` on, some process is at exactly the step that creation has reached or the root is ready, unless somebody died or the new lock file was locked by another |
| `ServerEndsWithLease` | `OwedServersComeCloser`: a server whose lease ended has a guardian on its way, and each step that touches it comes closer to the stop (`StepsLeft`) or is the end or failure of the guardian.  `ServerIsGoneFirst`: a creation commits, or is recorded as known absent, only when its server no longer runs |
| `ObserversEnd` | `ObserversOnlyEnd`: an observer whose Runtime is gone or replaced stays so until it ends, and no generation gets a second observer: once it was started no launch of its generation has still to spawn one (`StartedInv`) |
| `AttemptsSettle` | `AttemptIsHeldHolds`: unless tmux refused, whoever holds the claim works under it, and a pending status with no claim has a helper in the live pane that has yet to report, or the shell took the pane |

Every safety invariant and action property of the passing runs is proved.  Only model-checked: the
leads-to parts of the six liveness properties above.  What is proved with a hypothesis on the number
of processes is `LiveIsRecorded`, `ParkedIsQuiet`, `PromiseKept` (one at a time) and `RecordedIsOwn`
(two), and each fails without it: TLC has the counterexamples.  `RuntimeTypeOK` is in no run:
`RuntimeTypeCorrect` proves it.

## 6. What is left out

* OpenCode variants of the Runtime actions, backfill of a provider pid, working
  directories promoted by onboarding.
* In `RuntimeControl` a group stop is one step; what is inside it is `GroupStop`.  A probe that
  tmux answers with an error is a failed action, which changes nothing.
* The lengths of the hook retry budgets.
* SQLite errors that end an OpenCode observer: in `SessionObserver` an observer ends with its
  target or by death.  Of the observer profile, a row that SQLite fails to write after its file
  was written has no action of its own: it leaves what the death of the party leaves
  (`PartyDies`, the accident "died" of `FileFollowsRow`).
* Schema text and file identities of the state root; the HTTP and SSE framing and the discovery
  of the OpenCode port; TOML, hashes and the text of the profile; geometry, key tables and styles
  of the presentation; the validation of command lines.
* In `GroupStop` two processes that stop the same group at once.
* The composition of the components of `MCHost` with each other: they meet only in files and
  rows that each module abstracts (a launch in `ObserverSetup` is one step, the parked Runtime of
  `ProviderPane` a set), so a hazard between them is out of reach.
* Of a control command: a failing `wait`, platforms other than Linux, and that every call
  returns (`NobodyHoldsPipes` is its safety part); of the App Server what is asked and how an
  answer is read.
* The snapshot, the launch grammar and the terminal UI: read-only,
  pure or formatting.
* One kind of hook evidence is pending at a time.
* In `Onboarding`: forgetting a promoted Workstream, the OpenCode `Ended` event, the
  set-up of the shell before its gate is ready, the identity and name checks on files of
  the private directory, and the capability's hash, which the model replaces by the pane
  being the helper that received it.
* Names, paths, times and texts.

## 7. Plan

The order was: what may lose a running provider first (`Registry`, `RuntimeControl`), then the
one-shot promotion (`Onboarding`), then what cannot be repeated or undone (`SessionCreation`,
`Bootstrap`, `GroupStop`), then what users meet (`Presentation`, `ProviderPane`, `ReviewFiles`,
`ObserverSetup`, `DegradedMarker`, `ControlCommand`), each with its properties, then its proofs.  All of these are
done.  What is left:

1. OpenCode's variants of the Runtime actions in `RuntimeControl`, so that creation, observer and
   park meet in one model; forgetting a promoted Workstream in `Onboarding`.
2. Two stoppers in `GroupStop`, as a park and a cleanup may stop one group at the same time.
