------------------------------- MODULE MCHost -------------------------------
(***************************************************************************)
(* The components of the host that share no variable, on small instances.  *)
(*                                                                         *)
(* One run explores them one at a time: a behaviour picks a scene, its     *)
(* component moves and the others stay in a quiet initial state, where     *)
(* nothing of theirs is owed.  "root", "creation", "stop" and "hooks" are  *)
(* whole components; the others have two scenes each, because all their    *)
(* actors and all its faults at once would be too many: "launch" has one   *)
(* process and two generations, "overlap" two processes on the second      *)
(* generation of a parked session; "presentation" has faults, "opening"    *)
(* a second directory; "pane" has refusals, "switching" more users;        *)
(* "setup" starts without an observer, "update" with a reviewed one;       *)
(* "review" has faults, "reviews" a second reviewer; "command" has faults, *)
(* "descent" a grandchild.                                                 *)
(***************************************************************************)
EXTENDS Bootstrap, SessionCreation, SessionObserver, Presentation, ProviderPane, GroupStop,
        ObserverSetup, ReviewFiles, DegradedMarker, ControlCommand

CONSTANTS
  Solo,      \* the process that acts in the scene "launch"
  OnlyOne,   \* the directory that is made in the scene "presentation"
  Reviewed,  \* the executable that is set up in the scene "update"
  Lone       \* the reviewer of the scene "review"

(* The two scenes that begin later have a turn and a set-up behind them.   *)
ASSUME ScenesAssumption == Turns # 0 /\ Operations # 0 /\ Reviewed \in Executables

VARIABLE scene

Observing == {"launch", "overlap"}
Showing == {"pane", "switching"}
SettingUp == {"setup", "update"}
Reviewing == {"review", "reviews"}
Commanding == {"command", "descent"}

(* The observer without processes that die and without another turn.       *)
Undisturbed == INSTANCE SessionObserver WITH Failures <- FALSE, Turns <- 1

(* Presentations without processes that die and servers that are lost.     *)
Calm == INSTANCE Presentation WITH Mishaps <- FALSE

(* The pane when tmux accepts every command and no process dies.           *)
Steady == INSTANCE ProviderPane WITH Refusals <- FALSE

hostVars == <<scene, bootVars, sessionVars, observerVars, presentationVars, paneVars, groupVars, setupVars, reviewVars, markerVars, commandVars>>

ParkedAfterOneTurn ==
  /\ liveRow = [gen |-> 1, status |-> "stopped", identified |-> TRUE]
  /\ workstream = "parked"
  /\ bound = [gen |-> 1, source |-> "new", last |-> 1]
  /\ settled = {<<1, 1>>}
  /\ handle = NoHandle
  /\ observer = [g \in Gens |-> IF g = 1 THEN Gone ELSE Process]
  /\ provider = 0
  /\ session = [busy |-> FALSE, done |-> 1]
  /\ actor = [a \in Actors |-> Fresh]
  /\ marked = [g \in Gens |-> [m \in Messages |-> IF g = 1 /\ m = 1 THEN 1 ELSE 0]]
  /\ stopped = {1}

ReviewedBefore ==
  /\ profile = [decl |-> Reviewed, trusted |-> Reviewed, settings |-> FALSE]
  /\ integration = [owner |-> 1, decl |-> Reviewed, life |-> "ready", rev |-> 2]
  /\ setupLease = Undeclared
  /\ party = [p \in Parties |-> Unoccupied]
  /\ live = FALSE
  /\ started = 1
  /\ accidents = {}

HostInit ==
  /\ scene \in {"root", "creation", "presentation", "opening", "stop", "hooks"}
              \union Observing \union Showing \union SettingUp \union Reviewing \union Commanding
  /\ BootInit /\ (scene # "root" => root = "absent")
  /\ SessionInit /\ PresentationInit /\ PaneInit /\ GroupInit /\ ReviewInit /\ MarkerInit /\ CommandInit
  /\ IF scene = "overlap" THEN ParkedAfterOneTurn ELSE ObserverInit
  /\ IF scene = "update" THEN ReviewedBefore ELSE SetupInit

RootMoves ==
  scene = "root" /\ BootNext /\ UNCHANGED <<scene, sessionVars, observerVars, presentationVars, paneVars, groupVars, setupVars, reviewVars, markerVars, commandVars>>
CreationMoves ==
  scene = "creation" /\ SessionNext /\ UNCHANGED <<scene, bootVars, observerVars, presentationVars, paneVars, groupVars, setupVars, reviewVars, markerVars, commandVars>>
LaunchMoves ==
  /\ scene = "launch" /\ ObserverNext
  /\ \A a \in Actors \ {Solo} : actor'[a] = actor[a]
  /\ session'.done <= 1 \/ liveRow'.gen <= 1
  /\ UNCHANGED <<scene, bootVars, sessionVars, presentationVars, paneVars, groupVars, setupVars, reviewVars, markerVars, commandVars>>
OverlapMoves ==
  /\ scene = "overlap" /\ Undisturbed!ObserverNext
  /\ UNCHANGED <<scene, bootVars, sessionVars, presentationVars, paneVars, groupVars, setupVars, reviewVars, markerVars, commandVars>>
PresentationMoves ==
  /\ scene = "presentation" /\ PresentationNext
  /\ \A d \in Directories \ {OnlyOne} : entries'[d] = Missing
  /\ UNCHANGED <<scene, bootVars, sessionVars, observerVars, paneVars, groupVars, setupVars, reviewVars, markerVars, commandVars>>
(* The second directory is only made while the first one exists.           *)
OpeningMoves ==
  /\ scene = "opening" /\ \E t \in Terminals : Calm!Command(t)
  /\ \A d \in Directories \ {OnlyOne} : entries[d] = Missing /\ entries'[d] # Missing => entries'[OnlyOne] # Missing
  /\ UNCHANGED <<scene, bootVars, sessionVars, observerVars, paneVars, groupVars, setupVars, reviewVars, markerVars, commandVars>>

PaneMoves ==
  /\ scene = "pane" /\ PaneNext /\ running' = running
  /\ UNCHANGED <<scene, bootVars, sessionVars, observerVars, presentationVars, groupVars, setupVars, reviewVars, markerVars, commandVars>>
SwitchingMoves ==
  /\ scene = "switching" /\ Steady!PaneNext
  /\ UNCHANGED <<scene, bootVars, sessionVars, observerVars, presentationVars, groupVars, setupVars, reviewVars, markerVars, commandVars>>

StopMoves ==
  /\ scene = "stop" /\ GroupNext
  /\ UNCHANGED <<scene, bootVars, sessionVars, observerVars, presentationVars, paneVars, setupVars, reviewVars, markerVars, commandVars>>

SetupMoves ==
  /\ scene \in SettingUp /\ SetupNext
  /\ scene = "setup" => started' <= 2
  /\ UNCHANGED <<scene, bootVars, sessionVars, observerVars, presentationVars, paneVars, groupVars, reviewVars, markerVars, commandVars>>

ReviewMoves ==
  /\ scene \in Reviewing /\ ReviewNext
  /\ IF scene = "review" THEN \A r \in Reviewers \ {Lone} : owner'[r] = owner[r]
     ELSE mishaps' \intersect {"torn", "littered"} = {} /\ ~({"overlapped", "abandoned"} \subseteq mishaps')
  /\ UNCHANGED <<scene, bootVars, sessionVars, observerVars, presentationVars, paneVars, groupVars, setupVars, markerVars, commandVars>>

(* A third hook only comes when no two of them overlap.                    *)
HookMoves ==
  /\ scene = "hooks" /\ MarkerNext
  /\ "overlapped" \in lapses' => HookAt(3, "idle")'
  /\ UNCHANGED <<scene, bootVars, sessionVars, observerVars, presentationVars, paneVars, groupVars, setupVars, reviewVars, commandVars>>

(* The last pid is used where nothing is refused and nobody takes the      *)
(* number of the group.                                                    *)
CommandMoves ==
  /\ scene \in Commanding /\ CommandNext
  /\ IF scene = "command" THEN tree'[LastMember] = "free"
     ELSE ~call'.doubt /\ ~call'.error /\ tree'[Child] # "stranger" /\ call'.use = "output"
  /\ UNCHANGED <<scene, bootVars, sessionVars, observerVars, presentationVars, paneVars, groupVars, setupVars, reviewVars, markerVars>>

HostNext ==
  \/ RootMoves \/ CreationMoves \/ LaunchMoves \/ OverlapMoves \/ PresentationMoves \/ OpeningMoves
  \/ PaneMoves \/ SwitchingMoves \/ StopMoves \/ SetupMoves \/ ReviewMoves \/ HookMoves \/ CommandMoves

(* The fairness of the components; a component whose scene it is not owes  *)
(* nothing, which the guards tell TLC without evaluating its actions.      *)
HostFairness ==
  /\ \A p \in Processes : WF_bootVars(scene = "root" /\ Attempt(p))
  /\ \A c \in Creators :
       WF_sessionVars(scene = "creation" /\ (InspectRuntime(c) \/ CreateSession(c)))
  /\ \A g \in Generations : WF_sessionVars(scene = "creation" /\ Guard(g))
  /\ \A g \in Gens :
       /\ WF_observerVars(scene \in Observing /\ BecomeReady(g))
       /\ WF_observerVars(scene \in Observing /\ ApplyObservation(g))
       /\ SF_observerVars(scene \in Observing /\ TargetLost(g) /\ SupervisionEnds(g))
  /\ \A u \in Users : WF_paneVars(scene \in Showing /\ UserSteps(u))
  /\ WF_paneVars(scene \in Showing /\ ReviewSteps)
  /\ \A n \in 1..Attempts : WF_paneVars(scene \in Showing /\ HelperStep(n))

HostSpec == HostInit /\ [][HostNext]_hostVars /\ HostFairness

-----------------------------------------------------------------------------

(* Every variable of every component keeps its type.                       *)
HostTypeOK ==
  /\ BootTypeOK /\ SessionTypeOK /\ ObserverTypeOK
  /\ PresentationTypeOK /\ PaneTypeOK /\ GroupTypeOK /\ SetupTypeOK /\ ReviewTypeOK /\ MarkerTypeOK /\ CommandTypeOK
=============================================================================
