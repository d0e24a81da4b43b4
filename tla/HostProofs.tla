----------------------------- MODULE HostProofs -----------------------------
(***************************************************************************)
(* The host of MCHost for any number of processes, generations, turns,     *)
(* directories, Workstreams, parties and hooks: whatever scene a behaviour *)
(* picks, also those that begin with a parked session or a reviewed        *)
(* observer, every component keeps its inductive invariant.                *)
(***************************************************************************)
EXTENDS MCHost, BootstrapProofs, SessionProofs, PresentationProofs, GroupStopProofs, ObserverProofs

\* The invariants of the components, each with its type.
HostInv ==
  /\ BootTypeOK /\ BInv
  /\ SessionTypeOK /\ CInv /\ ObserverInv
  /\ PresInv /\ PaneInv
  /\ StopInv /\ CommandInv
  /\ SetupInv /\ ReviewInv /\ MarkerInv

-----------------------------------------------------------------------------
(* The scenes that begin later.                                            *)

\* A session that was parked after one settled turn is one that the observers'
\* invariant allows: its message asked for attention once, no handle is left
\* and nobody launches.
LEMMA ParkedIsInvariant == ParkedAfterOneTurn => ObserverInv
<1> SUFFICES ASSUME ParkedAfterOneTurn PROVE ObserverInv
  OBVIOUS
<1>1. 1 \in Gens /\ 1 \in Messages /\ 1 \in 0..Turns /\ 1 \in 0..Launches /\ 0 \in 0..Turns /\ 0 \in 0..Launches
  BY ScenesAssumption, TurnsAssumption, LaunchesAssumption DEF Gens, Messages
<1>2. /\ liveRow \in LiveRows /\ workstream \in {"open", "parked", "recovery_required"}
      /\ bound \in [gen : 0..Launches, source : {"none", "new", "resume"}, last : 0..Turns]
      /\ settled \subseteq Gens \X Messages /\ session \in [busy : BOOLEAN, done : 0..Turns]
  BY <1>1 DEF ParkedAfterOneTurn, LiveRows
<1>3. /\ observer \in [Gens -> ObserverState] /\ actor \in [Actors -> ActorState]
      /\ marked \in [Gens -> [Messages -> Nat]] /\ \A g \in Gens : observer[g].hint.kind = "none"
  BY RestTyped DEF ParkedAfterOneTurn, Process, NoHint
<1>4. ObserverTypeOK
  BY <1>1, <1>2, <1>3, RestTyped DEF ParkedAfterOneTurn, ObserverTypeOK, ObserverState, ActorState, Hints, Statuses
<1>5. \A a \in Actors : actor[a].at = "idle"
  BY DEF ParkedAfterOneTurn, Fresh
<1>6. (\A a \in Actors : Claim(actor[a])) /\ LaunchesDiffer
  BY <1>5 DEF Claim, LaunchesDiffer, Launching, Unrecorded, Spawning
<1>7. HandleOK /\ ReadyIsSupervised
  BY DEF ParkedAfterOneTurn, HandleOK, ReadyIsSupervised, NoHandle
<1>8. Counted
  BY DEF ParkedAfterOneTurn, Counted
<1> QED BY <1>3, <1>4, <1>6, <1>7, <1>8 DEF ObserverInv, ObserversTyped

\* So is a profile that was set up and reviewed: file and row carry the same
\* declaration, its hooks are trusted, and nobody works on it.
LEMMA ReviewedIsInvariant == ReviewedBefore => SetupInv
<1> SUFFICES ASSUME ReviewedBefore PROVE SetupInv
  OBVIOUS
<1>1. Reviewed # Undeclared /\ Reviewed \in Declarations /\ 1 \in 0..Operations
  BY ScenesAssumption, UndeclaredAssumption, OperationsAssumption DEF Declarations
<1>2. party \in [Parties -> PartyStates] /\ \A p \in Parties : party[p].at = "idle"
  BY IdleIsTyped DEF ReviewedBefore, Unoccupied
<1>3. SetupTypeOK
  BY <1>1, <1>2 DEF ReviewedBefore, SetupTypeOK, Integrations, PartyStates, PartySteps
<1>4. PartiesInOrder /\ ApartUnlessRecorded
  BY <1>2 DEF PartiesInOrder, ApartUnlessRecorded, Leased, Writing, Removing, Led, Found, Busy
<1>5. RowDeclares /\ ChangesAreWhole /\ TrustIsShown
  BY <1>1, <1>2 DEF ReviewedBefore, RowDeclares, ChangesAreWhole, Stands, Removing, RowFollows, TrustIsShown
<1>6. UsedIsReady
  BY <1>2 DEF ReviewedBefore, UsedIsReady, InUse
<1> QED BY <1>3, <1>4, <1>5, <1>6 DEF SetupInv

\* Every scene begins in the invariant.
LEMMA HostStarts == HostInit => HostInv
<1>1. HostInit => ObserverInv
  BY ParkedIsInvariant, ObserverStarts DEF HostInit
<1>2. HostInit => SetupInv
  BY ReviewedIsInvariant, SetupStart DEF HostInit
<1> QED BY <1>1, <1>2, BootTypeInit, BootstrapInit, SessionTypeInit, CreationInit, PresStart, PaneStart, StopStarts,
           CommandStarts, ReviewInitInv, MarkerStarts
        DEF HostInit, HostInv

-----------------------------------------------------------------------------
(* The scenes that leave something out take steps of their component.      *)

\* Without deaths and for one turn, the observers take their own steps.
LEMMA UndisturbedIsObserver ==
  ASSUME ObserverTypeOK, Undisturbed!ObserverNext
  PROVE  ObserverNext
<1>0. session.done < 1 => session.done < Turns
  BY ScenesAssumption, TurnsAssumption DEF ObserverTypeOK
<1> USE DEF Undisturbed!Refused, Refused, Undisturbed!ResumesRecovery, ResumesRecovery, Undisturbed!Live, Live,
            Undisturbed!Observed, Observed, Undisturbed!Corroborated, Corroborated, Undisturbed!HintOf, HintOf,
            Undisturbed!Applied, Applied, Undisturbed!Gone, Gone, Undisturbed!Process, Process,
            Undisturbed!NoHint, NoHint, Undisturbed!NoHandle, NoHandle, Undisturbed!Alone, Alone,
            Undisturbed!world, world, Undisturbed!liveRows, liveRows, Undisturbed!Runs, Runs,
            Undisturbed!MarkUnknownIfOf, MarkUnknownIfOf, Undisturbed!Applying, Applying, Undisturbed!SetStatus,
            SetStatus, Undisturbed!IsNew, IsNew, Undisturbed!Hint, Hint, Undisturbed!Watches, Watches,
            Undisturbed!Reads, Reads, Undisturbed!Candidate, Candidate, Undisturbed!Becoming, Becoming,
            Undisturbed!Step, Step, Undisturbed!Fresh, Fresh, Undisturbed!NotStarted, NotStarted,
            Undisturbed!On, On, Undisturbed!NextLaunch, NextLaunch, Undisturbed!StopProvider, StopProvider,
            Undisturbed!StopObserver, StopObserver, Undisturbed!AsRead, AsRead, Undisturbed!FenceRuntime,
            FenceRuntime, Undisturbed!Mine, Mine, Undisturbed!Keep, Keep, Undisturbed!OwnHandle, OwnHandle,
            Undisturbed!HandleAdmitted, HandleAdmitted, Undisturbed!Gens, Gens
<1>1. ASSUME NEW a \in Actors, Undisturbed!LaunchRuntime(a) PROVE LaunchRuntime(a)
  BY <1>1 DEF Undisturbed!LaunchRuntime, LaunchRuntime, Undisturbed!LaunchPane, LaunchPane,
    Undisturbed!LaunchUnidentified, LaunchUnidentified, Undisturbed!RecordIdentity, RecordIdentity,
    Undisturbed!ProviderReady, ProviderReady, Undisturbed!RecordHandle, RecordHandle,
    Undisturbed!LaunchFailed, LaunchFailed, Undisturbed!SpawnObserver, SpawnObserver,
    Undisturbed!RecordObserver, RecordObserver, Undisturbed!ObserverReady, ObserverReady,
    Undisturbed!ObserverFailed, ObserverFailed, Undisturbed!CleanObserver, CleanObserver,
    Undisturbed!CleanRuntime, CleanRuntime, Undisturbed!Fence, Fence
<1>2. ASSUME NEW a \in Actors, Undisturbed!ParkRuntime(a) PROVE ParkRuntime(a)
  BY <1>2 DEF Undisturbed!ParkRuntime, ParkRuntime, Undisturbed!BeginPark, BeginPark, Undisturbed!ParkObserver,
    ParkObserver, Undisturbed!ParkProvider, ParkProvider, Undisturbed!DeleteHandle, DeleteHandle,
    Undisturbed!ParkRow, ParkRow, Undisturbed!ParkFailed, ParkFailed
<1>3. ASSUME NEW a \in Actors, Undisturbed!RecoverRuntime(a) PROVE RecoverRuntime(a)
  BY <1>3 DEF Undisturbed!RecoverRuntime, RecoverRuntime, Undisturbed!BeginRecovery, BeginRecovery,
    Undisturbed!StopLost, StopLost, Undisturbed!ReserveRecovery, ReserveRecovery
<1>4. ASSUME NEW g \in Gens, Undisturbed!BecomeReady(g) PROVE BecomeReady(g)
  BY <1>4 DEF Undisturbed!BecomeReady, BecomeReady, Undisturbed!OpenStream, OpenStream, Undisturbed!StartupEnds,
    StartupEnds, Undisturbed!ReadHandle, ReadHandle, Undisturbed!MarkReady, MarkReady
<1>5. ASSUME NEW g \in Gens, Undisturbed!Supervise(g) PROVE Supervise(g)
  BY <1>5 DEF Undisturbed!Supervise, Supervise, Undisturbed!SupervisionEnds, SupervisionEnds,
    Undisturbed!PollBusy, PollBusy, Undisturbed!PollIdle, PollIdle, Undisturbed!EventCompleted,
    EventCompleted, Undisturbed!EventUpdated, EventUpdated, Undisturbed!EventIdle, EventIdle,
    Undisturbed!EventStarted, EventStarted, Undisturbed!EventEnded, EventEnded
<1>6. ASSUME NEW g \in Gens, Undisturbed!ApplyObservation(g) PROVE ApplyObservation(g)
  BY <1>6 DEF Undisturbed!ApplyObservation, ApplyObservation, Undisturbed!ApplyStarted, ApplyStarted,
    Undisturbed!ApplyWorking, ApplyWorking, Undisturbed!ApplySettled, ApplySettled,
    Undisturbed!ApplyEnded, ApplyEnded, Undisturbed!ApplyRefused, ApplyRefused
<1>7. ASSUME NEW a \in Actors, Undisturbed!ReserveStart(a) PROVE ReserveStart(a)
  BY <1>7 DEF Undisturbed!ReserveStart, ReserveStart
<1>8. Undisturbed!ReconcileLost => ReconcileLost
  BY DEF Undisturbed!ReconcileLost, ReconcileLost
<1>9. Undisturbed!RefuteHandle => RefuteHandle
  BY DEF Undisturbed!RefuteHandle, RefuteHandle
<1>10. Undisturbed!TurnStarts => TurnStarts
  BY <1>0 DEF Undisturbed!TurnStarts, TurnStarts
<1>11. Undisturbed!TurnCompletes => TurnCompletes
  BY <1>0 DEF Undisturbed!TurnCompletes, TurnCompletes
<1>12. Undisturbed!ProviderDies => ProviderDies
  BY DEF Undisturbed!ProviderDies, ProviderDies
<1>13. \A a \in Actors : ~Undisturbed!ActorDies(a)
  BY DEF Undisturbed!ActorDies
<1>14. \A g \in Gens : ~Undisturbed!ObserverDies(g)
  BY DEF Undisturbed!ObserverDies
<1> QED BY <1>1, <1>2, <1>3, <1>4, <1>5, <1>6, <1>7, <1>8, <1>9, <1>10, <1>11, <1>12, <1>13, <1>14
        DEF Undisturbed!ObserverNext, ObserverNext

\* Without faults, the commands of the terminals are those of a presentation.
LEMMA CalmIsPresentation ==
  ASSUME NEW t \in Terminals, Calm!Command(t)
  PROVE  Command(t)
<1> USE DEF Calm!Closed, Closed, Calm!Ends, Ends, Calm!Idle, Idle, Calm!Proceed, Proceed, Calm!Dir, Dir,
            Calm!Reached, Reached, Calm!Missing, Missing, Calm!SameMarker, SameMarker, Calm!Remove,
            Remove, Calm!Named, Named, Calm!Readable, Readable, Calm!Contested, Contested,
            Calm!Starting, Starting, Calm!NoServer, NoServer, Calm!BeginClose, BeginClose,
            Calm!Topology, Topology, Calm!StageFails, StageFails, Calm!Stage, Stage,
            Calm!TruncateMarker, TruncateMarker, Calm!ReadableUninitialized, ReadableUninitialized
<1>1. Calm!StartFresh(t) => StartFresh(t)
  BY DEF Calm!StartFresh, StartFresh, Calm!MakeDirectory, MakeDirectory, Calm!WriteConfig, WriteConfig,
         Calm!CreateMarker, CreateMarker, Calm!WriteMarker, WriteMarker, Calm!InitializeContext,
         InitializeContext, Calm!NewServer, NewServer, Calm!CaptureSocket, CaptureSocket,
         Calm!LaunchNavigator, LaunchNavigator, Calm!SplitProvider, SplitProvider, Calm!InstallBindings,
         InstallBindings
<1>2. Calm!ClosePresentation(t) => ClosePresentation(t)
  BY DEF Calm!ClosePresentation, ClosePresentation, Calm!ReadOwnership, ReadOwnership, Calm!KillServer,
         KillServer, Calm!RemoveFiles, RemoveFiles, Calm!RemoveDirectory, RemoveDirectory
<1>3. Calm!OpenPresentation(t) => OpenPresentation(t)
  BY DEF Calm!OpenPresentation, OpenPresentation
<1>4. Calm!ProbeDirectory(t) => ProbeDirectory(t)
  BY DEF Calm!ProbeDirectory, ProbeDirectory
<1>5. Calm!InspectNavigator(t) => InspectNavigator(t)
  BY DEF Calm!InspectNavigator, InspectNavigator
<1>6. Calm!CountClients(t) => CountClients(t)
  BY DEF Calm!CountClients, CountClients
<1>7. Calm!ChoosePresentation(t) => ChoosePresentation(t)
  BY DEF Calm!ChoosePresentation, ChoosePresentation
<1>8. Calm!PrepareAttach(t) => PrepareAttach(t)
  BY DEF Calm!PrepareAttach, PrepareAttach
<1>9. Calm!AttachClient(t) => AttachClient(t)
  BY DEF Calm!AttachClient, AttachClient
<1>10. Calm!ClientReturns(t) => ClientReturns(t)
  BY DEF Calm!ClientReturns, ClientReturns
<1>11. Calm!AfterAttach(t) => AfterAttach(t)
  BY DEF Calm!AfterAttach, AfterAttach
<1> QED BY <1>1, <1>2, <1>3, <1>4, <1>5, <1>6, <1>7, <1>8, <1>9, <1>10, <1>11
        DEF Calm!Command, Command

\* Where tmux refuses nothing and nobody dies, the pane takes its own steps.
LEMMA SteadyIsPane == Steady!PaneNext => PaneNext
<1> USE DEF Steady!UserTo, UserTo, Steady!UserAt, UserAt, Steady!NoStatus, NoStatus, Steady!Terminal,
            Terminal, Steady!Resting, Resting, Steady!Killed, Killed, Steady!HelperGone, HelperGone,
            Steady!NoHelper, NoHelper, Steady!Exits, Exits, Steady!WriteReport, WriteReport,
            Steady!HelperAt, HelperAt, Steady!ReadReport, ReadReport, Steady!HelperTo, HelperTo,
            Steady!TakeClaim, TakeClaim, Steady!Users, Users
<1>1. ASSUME NEW u \in Users, Steady!UserSteps(u) PROVE UserSteps(u)
  BY <1>1 DEF Steady!UserSteps, UserSteps, Steady!ReleaseClaim, ReleaseClaim, Steady!CycleSource,
         CycleSource, Steady!CyclePrior, CyclePrior, Steady!WritePending, WritePending, Steady!ClearTag,
         ClearTag, Steady!SetTag, SetTag, Steady!RespawnHelper, RespawnHelper, Steady!FinishFailed,
         FinishFailed, Steady!RestoreCheck, RestoreCheck, Steady!RestoreTag, RestoreTag,
         Steady!RestoreStatus, RestoreStatus, Steady!RespawnOther, RespawnOther, Steady!ProbePane,
         ProbePane, Steady!MarkFailed, MarkFailed
<1>2. ASSUME NEW n \in 1..Attempts, Steady!HelperStep(n) PROVE HelperStep(n)
  BY <1>2 DEF Steady!HelperStep, HelperStep, Steady!PrepareCycle, PrepareCycle, Steady!ReportRunning,
         ReportRunning, Steady!ReportUnready, ReportUnready, Steady!AttachNative, AttachNative,
         Steady!ReportEnd, ReportEnd
<1>3. Steady!ReviewSteps => ReviewSteps
  BY DEF Steady!ReviewSteps, ReviewSteps, Steady!ReviewContext, ReviewContext, Steady!ProveStopped,
         ProveStopped, Steady!ReadPrevious, ReadPrevious, Steady!UnfileStatus, UnfileStatus,
         Steady!UndoReview, UndoReview, Steady!UndoReviewStatus, UndoReviewStatus
<1>4. Steady!BeginAttach => BeginAttach
  BY DEF Steady!BeginAttach, BeginAttach
<1>5. Steady!BeginShell => BeginShell
  BY DEF Steady!BeginShell, BeginShell
<1>6. Steady!BeginReview => BeginReview
  BY DEF Steady!BeginReview, BeginReview
<1>7. Steady!ReviewEnds => ReviewEnds
  BY DEF Steady!ReviewEnds, ReviewEnds
<1>8. ASSUME NEW k \in Keys, Steady!BeginCycle(k) PROVE BeginCycle(k)
  BY <1>8 DEF Steady!BeginCycle, BeginCycle
<1>9. ASSUME NEW k \in Keys, Steady!ReadStatus(k) PROVE ReadStatus(k)
  BY <1>9 DEF Steady!ReadStatus, ReadStatus
<1>10. ASSUME NEW n \in 1..Attempts, Steady!NativeReturns(n) PROVE NativeReturns(n)
  BY <1>10 DEF Steady!NativeReturns, NativeReturns
<1>11. ASSUME NEW w \in Cards, Steady!ParkOrStart(w) PROVE ParkOrStart(w)
  BY <1>11 DEF Steady!ParkOrStart, ParkOrStart
<1>12. /\ \A k \in Keys : ~Steady!KeyDies(k)
      /\ \A u \in Users : ~Steady!ReplacementFails(u)
      /\ \A n \in 1..Attempts : ~Steady!HelperDies(n)
  BY DEF Steady!KeyDies, Steady!ReplacementFails, Steady!HelperDies
<1> QED BY <1>1, <1>2, <1>3, <1>4, <1>5, <1>6, <1>7, <1>8, <1>9, <1>10, <1>11, <1>12
        DEF Steady!PaneNext, PaneNext

-----------------------------------------------------------------------------
(* Every step of the host is one of each component, or leaves it alone.    *)

\* What a step of the host is for each component.
LEMMA HostSteps ==
  ASSUME HostInv, [HostNext]_hostVars
  PROVE  /\ [BootNext]_bootVars
         /\ [SessionNext]_sessionVars /\ [ObserverNext]_observerVars
         /\ [PresentationNext]_presentationVars /\ [PaneNext]_paneVars
         /\ [GroupNext]_groupVars /\ [CommandNext]_commandVars
         /\ [SetupNext]_setupVars /\ [ReviewNext]_reviewVars /\ [MarkerNext]_markerVars
<1>1. CASE OverlapMoves
  <2>1. ObserverNext
    BY <1>1, UndisturbedIsObserver DEF OverlapMoves, HostInv, ObserverInv
  <2> QED BY <1>1, <2>1 DEF OverlapMoves
<1>2. CASE OpeningMoves
  <2>1. PresentationNext
    BY <1>2, CalmIsPresentation DEF OpeningMoves, PresentationNext
  <2> QED BY <1>2, <2>1 DEF OpeningMoves
<1>3. CASE SwitchingMoves
  BY <1>3, SteadyIsPane DEF SwitchingMoves
<1>4. CASE RootMoves
  BY <1>4 DEF RootMoves
<1>5. CASE CreationMoves
  BY <1>5 DEF CreationMoves
<1>6. CASE LaunchMoves
  BY <1>6 DEF LaunchMoves
<1>7. CASE PresentationMoves
  BY <1>7 DEF PresentationMoves
<1>8. CASE PaneMoves
  BY <1>8 DEF PaneMoves
<1>9. CASE StopMoves
  BY <1>9 DEF StopMoves
<1>10. CASE SetupMoves
  BY <1>10 DEF SetupMoves
<1>11. CASE ReviewMoves
  BY <1>11 DEF ReviewMoves
<1>12. CASE HookMoves
  BY <1>12 DEF HookMoves
<1>13. CASE CommandMoves
  BY <1>13 DEF CommandMoves
<1>14. CASE UNCHANGED hostVars
  BY <1>14 DEF hostVars
<1> QED BY <1>1, <1>2, <1>3, <1>4, <1>5, <1>6, <1>7, <1>8, <1>9, <1>10, <1>11, <1>12, <1>13, <1>14 DEF HostNext

\* So every step keeps every invariant.
LEMMA HostStep == HostInv /\ [HostNext]_hostVars => HostInv'
<1> SUFFICES ASSUME HostInv, [HostNext]_hostVars PROVE HostInv'
  OBVIOUS
<1>1. (BootTypeOK /\ BInv)' /\ (SessionTypeOK /\ CInv)' /\ ObserverInv'
  BY HostSteps, BootTypeStep, BootstrapStep, SessionTypeStep, CreationStep, ObserverStep DEF HostInv
<1>2. PresInv' /\ PaneInv' /\ StopInv' /\ CommandInv'
  BY HostSteps, PresStep, PaneStep, StopStep, CommandStep DEF HostInv
<1>3. SetupInv' /\ ReviewInv' /\ MarkerInv'
  BY HostSteps, SetupNextInv, ReviewNextKeeps, MarkerStep DEF HostInv
<1> QED BY <1>1, <1>2, <1>3 DEF HostInv

\* The invariant holds throughout the host, whichever component moves.
LEMMA HostInvariant == HostSpec => []HostInv
BY HostStarts, HostStep, PTL DEF HostSpec

\* Every variable of every component keeps its type in every scene.
THEOREM HostTypesHold == HostSpec => []HostTypeOK
<1>1. HostInv => HostTypeOK
  BY DEF HostInv, HostTypeOK, ObserverInv, PresInv, PaneInv, StopInv, CommandInv, SetupInv, ReviewInv, MarkerInv
<1> QED BY <1>1, HostInvariant, PTL

\* What the run "host" checks of the components on small instances holds of
\* them for every value of the constants, in every scene: a root has one whole
\* identity, sessions are posted once and an abandoned server fences them, a
\* message asks for attention once, a Ready handle is supervised, presentations
\* are left in order, a literal key goes to the recorded provider, a stop is
\* exact, a Ready profile was reviewed, reviews are tidy, a degraded marker is
\* there exactly if a write failed on a path that marks since the last commit,
\* and a control command is contained.
THEOREM HostIsSafe ==
  HostSpec => [](/\ RootIsSound /\ PostsOnce /\ AbandonedIsFenced /\ SettlesOnce /\ ReadyIsSupervised
                 /\ LeftInOrder /\ ShownIsRecorded /\ StopIsExact /\ ProfileIsReviewed /\ ReviewIsTidy
                 /\ MarkerIsSound /\ CommandIsContained)
<1>1. HostInv => RootIsSound /\ PostsOnce /\ AbandonedIsFenced /\ SettlesOnce /\ ReadyIsSupervised
  BY InvariantIsSound, PostsMeans, AbandonedMeans, SettlesMeans DEF HostInv, ObserverInv
<1>2. HostInv => LeftInOrder /\ ShownIsRecorded /\ StopIsExact /\ CommandIsContained
  BY PresMeans, StopMeans DEF HostInv, PaneInv, CommandInv, CommandIsContained
<1>3. HostInv => ProfileIsReviewed /\ ReviewIsTidy /\ MarkerIsSound
  BY SetupMeans, ReviewMeans, MarkerMeans DEF HostInv
<1> QED BY <1>1, <1>2, <1>3, HostInvariant, PTL
=============================================================================
