---------------------------- MODULE ProviderPane ----------------------------
(***************************************************************************)
(* The provider pane of a presentation: what it shows, the Workstream it   *)
(* is tagged with, and the status file of the current attachment attempt   *)
(* (presentation/attachment.rs, presentation/control.rs, app/launch.rs).   *)
(*                                                                         *)
(* The Navigator attaches a Workstream, the account shell or an observer   *)
(* review; a key bound in tmux cycles to another Workstream or sends a     *)
(* literal C-b, each in a process of its own.  Whoever replaces the pane   *)
(* holds a claim, a tmux option that is set only when it is not set.  The  *)
(* helper in the pane and the literal key do not take it.                  *)
(*                                                                         *)
(* A phase is reported by reading the status, checking it and writing it,  *)
(* so every report is two steps.  Respawning the pane kills its process.   *)
(* Files, servers and the Navigator are in Presentation.                   *)
(***************************************************************************)
EXTENDS Naturals

CONSTANTS
  Cards,       \* Workstreams
  Keys,        \* processes that a bound key starts
  Navigator,   \* the Navigator process
  Nobody,      \* model value: no Workstream, and nobody
  Attempts,    \* bound: attachment attempts
  Refusals     \* TRUE if tmux refuses a command, or a process dies

ASSUME RefusalsAssumption == Refusals \in BOOLEAN
ASSUME AttemptsAssumption == Attempts \in Nat
ASSUME UsersAssumption == Navigator \notin Keys /\ Nobody \notin Keys \union Cards \union {Navigator}

VARIABLES
  claim,     \* who holds the attachment claim
  status,    \* the attachment status file
  shown,     \* the provider pane
  helpers,   \* the attachment helper of each attempt
  running,   \* Workstreams whose Runtime is live; the others were parked
  user,      \* the Navigator and the key processes
  tried,     \* attempts so far
  refused    \* history: tmux refused a command or a process died

paneVars == <<claim, status, shown, helpers, running, user, tried, refused>>

Users == Keys \union {Navigator}
Terminal == {"completed", "failed"}
NoStatus == [attempt |-> 0, card |-> Nobody, phase |-> "none"]
NoHelper == [card |-> Nobody, cycle |-> FALSE, at |-> "none", result |-> "none"]
HelperGone == [NoHelper EXCEPT !.at = "gone"]
Resting == [at |-> "idle", kind |-> "none", card |-> Nobody, attempt |-> 0, prior |-> NoStatus]

PaneInit ==
  /\ claim = Nobody
  /\ status = NoStatus
  /\ shown = [what |-> "wait", attempt |-> 0, tag |-> Nobody, dead |-> FALSE]
  /\ helpers = [n \in 1..Attempts |-> NoHelper]
  /\ running = Cards
  /\ user = [u \in Users |-> Resting]
  /\ tried = 0
  /\ refused = FALSE

UserAt(u, step) == user[u].at = step
UserTo(u, step) == user' = [user EXCEPT ![u].at = step]

(* The process a respawn kills.                                            *)
Killed == [n \in 1..Attempts |-> IF n = shown.attempt /\ shown.what = "helper"
                                 THEN HelperGone ELSE helpers[n]]

-----------------------------------------------------------------------------
(* with_attachment_claim.                                                  *)

TakeClaim(u, kind, card, step) ==
  /\ UserAt(u, "idle") /\ claim = Nobody
  /\ claim' = u
  /\ user' = [user EXCEPT ![u] = [Resting EXCEPT !.at = step, !.kind = kind, !.card = card]]
  /\ UNCHANGED <<status, shown, helpers, running, tried, refused>>

ReleaseClaim(u) ==
  /\ UserAt(u, "release")
  /\ claim' = IF claim = u THEN Nobody ELSE claim
  /\ user' = [user EXCEPT ![u] = Resting]
  /\ UNCHANGED <<status, shown, helpers, running, tried, refused>>

BeginAttach == tried < Attempts /\ \E w \in Cards : TakeClaim(Navigator, "attach", w, "pend")
\* Mutant: the shell takes the pane without clearing its Workstream.
BeginShellKeepsTag == TakeClaim(Navigator, "shell", Nobody, "respawn")

BeginShell == TakeClaim(Navigator, "shell", Nobody, "clear")
BeginReview == TakeClaim(Navigator, "review", Nobody, "context")
BeginCycle(k) == tried < Attempts /\ TakeClaim(k, "cycle", Nobody, "source")

-----------------------------------------------------------------------------
(* attach_workstream_claimed, for the Navigator and for a cycle.           *)

(* switch_provider_workstream: the running attachment and a live neighbour.*)
CycleSource(k) ==
  /\ UserAt(k, "source")
  /\ \/ /\ status.phase = "running" /\ status.card = shown.tag /\ ~shown.dead
        /\ status.card \in running
        /\ \E w \in running \ {status.card} :
             user' = [user EXCEPT ![k].at = "prior", ![k].card = w]
     \/ /\ \/ status.phase # "running" \/ status.card # shown.tag \/ shown.dead
           \/ status.card \notin running \/ running \subseteq {status.card}
        /\ UserTo(k, "release")
  /\ UNCHANGED <<claim, status, shown, helpers, running, tried, refused>>

CyclePrior(k) ==
  /\ UserAt(k, "prior")
  /\ user' = IF status.phase = "running" /\ status.card = shown.tag
             THEN [user EXCEPT ![k].at = "pend", ![k].prior = status]
             ELSE [user EXCEPT ![k].at = "release"]
  /\ UNCHANGED <<claim, status, shown, helpers, running, tried, refused>>

WritePending(u) ==
  /\ UserAt(u, "pend") /\ tried < Attempts
  /\ tried' = tried + 1
  /\ status' = [attempt |-> tried + 1, card |-> user[u].card, phase |-> "pending"]
  /\ user' = [user EXCEPT ![u].at = "clear", ![u].attempt = tried + 1]
  /\ UNCHANGED <<claim, shown, helpers, running, refused>>

(* set_pane_role clears the tag and then sets the new one.                 *)
ClearTag(u) ==
  /\ UserAt(u, "clear")
  /\ shown' = [shown EXCEPT !.tag = Nobody]
  /\ UserTo(u, CASE user[u].kind = "shell" -> "respawn" [] user[u].kind = "review" -> "unfile" [] OTHER -> "tag")
  /\ UNCHANGED <<claim, status, helpers, running, tried, refused>>

SetTag(u) ==
  /\ UserAt(u, "tag")
  /\ shown' = [shown EXCEPT !.tag = user[u].card]
  /\ UserTo(u, "respawn")
  /\ UNCHANGED <<claim, status, helpers, running, tried, refused>>

RespawnHelper(u) ==
  /\ UserAt(u, "respawn") /\ user[u].kind \in {"attach", "cycle"}
  /\ shown' = [shown EXCEPT !.what = "helper", !.attempt = user[u].attempt, !.dead = FALSE]
  /\ helpers' = [Killed EXCEPT ![user[u].attempt] =
                   [card |-> user[u].card, cycle |-> user[u].kind = "cycle",
                    at |-> "started", result |-> "none"]]
  /\ UserTo(u, "release")
  /\ UNCHANGED <<claim, status, running, tried, refused>>

(* tmux refuses one of them.                                               *)
ReplacementFails(u) ==
  /\ Refusals /\ refused' = TRUE /\ user[u].at \in {"clear", "tag", "respawn"}
  /\ UserTo(u, CASE user[u].kind = "shell" -> "release"
               [] user[u].kind = "review" -> "undo"
               [] user[u].kind = "cycle" -> "restore"
               [] OTHER -> "fail")
  /\ UNCHANGED <<claim, status, shown, helpers, running, tried>>

FinishFailed(u) ==
  /\ UserAt(u, "fail")
  /\ status' = [attempt |-> user[u].attempt, card |-> user[u].card, phase |-> "failed"]
  /\ UserTo(u, "release")
  /\ UNCHANGED <<claim, shown, helpers, running, tried, refused>>

(* restore_cycle_precommit.                                                *)
RestoreCheck(k) ==
  /\ UserAt(k, "restore")
  /\ UserTo(k, IF status.attempt = user[k].attempt /\ status.phase = "pending"
                /\ shown.tag \in {Nobody, user[k].card, user[k].prior.card}
             THEN "retag" ELSE "release")
  /\ UNCHANGED <<claim, status, shown, helpers, running, tried, refused>>

RestoreTag(k) ==
  /\ UserAt(k, "retag")
  /\ \/ shown' = [shown EXCEPT !.tag = user[k].prior.card] /\ UserTo(k, "refile")
     \/ Refusals /\ shown' \in {shown, [shown EXCEPT !.tag = Nobody]} /\ UserTo(k, "release")
  /\ UNCHANGED <<claim, status, helpers, running, tried, refused>>

RestoreStatus(k) ==
  /\ UserAt(k, "refile")
  /\ status' = user[k].prior
  /\ UserTo(k, "release")
  /\ UNCHANGED <<claim, shown, helpers, running, tried, refused>>

-----------------------------------------------------------------------------
(* attach_provisional_shell and start_observer_review.                     *)

RespawnOther(u) ==
  /\ UserAt(u, "respawn") /\ user[u].kind \in {"shell", "review"}
  /\ shown' = [shown EXCEPT !.what = user[u].kind, !.attempt = 0, !.dead = FALSE]
  /\ helpers' = Killed
  /\ UserTo(u, "release")
  /\ UNCHANGED <<claim, status, running, tried, refused>>

(* observer_attachment_context: nothing attached, or the ended attempt of  *)
(* the tagged Workstream.  A pending attempt in a dead pane counts as      *)
(* failed, and is recorded so; under the claim a dead pane stays dead.     *)
ReviewContext ==
  LET seen == IF status.phase = "pending" /\ shown.dead THEN [status EXCEPT !.phase = "failed"]
              ELSE status
  IN
  /\ UserAt(Navigator, "context")
  /\ status' = seen
  /\ user' = CASE shown.tag = Nobody /\ seen = NoStatus ->
                    [user EXCEPT ![Navigator].at = "previous"]
               [] shown.tag # Nobody /\ seen.card = shown.tag /\ seen.phase \in Terminal ->
                    [user EXCEPT ![Navigator].at = "prove", ![Navigator].card = shown.tag]
               [] OTHER -> [user EXCEPT ![Navigator].at = "release"]
  /\ UNCHANGED <<claim, shown, helpers, running, tried, refused>>

(* prove_stopped_attachment: parked on purpose, and its server is missing. *)
ProveStopped ==
  /\ UserAt(Navigator, "prove")
  /\ UserTo(Navigator, IF user[Navigator].card \in running THEN "release" ELSE "previous")
  /\ UNCHANGED <<claim, status, shown, helpers, running, tried, refused>>

ReadPrevious ==
  /\ UserAt(Navigator, "previous")
  /\ user' = [user EXCEPT ![Navigator].at = "clear", ![Navigator].prior = status]
  /\ UNCHANGED <<claim, status, shown, helpers, running, tried, refused>>

(* clear_observer_attachment_status.                                       *)
UnfileStatus ==
  LET w == user[Navigator].card IN
  /\ UserAt(Navigator, "unfile")
  /\ \/ /\ IF w = Nobody THEN status = NoStatus ELSE status.card = w /\ status.phase \in Terminal
        /\ status' = NoStatus
        /\ UserTo(Navigator, "respawn")
     \/ /\ IF w = Nobody THEN status # NoStatus ELSE status.card # w \/ status.phase \notin Terminal
        /\ UserTo(Navigator, "undo")
        /\ UNCHANGED status
  /\ UNCHANGED <<claim, shown, helpers, running, tried, refused>>

UndoReview ==
  /\ UserAt(Navigator, "undo")
  /\ shown' = [shown EXCEPT !.tag = user[Navigator].card]
  /\ UserTo(Navigator, "undo_status")
  /\ UNCHANGED <<claim, status, helpers, running, tried, refused>>

UndoReviewStatus ==
  /\ UserAt(Navigator, "undo_status")
  /\ status' = IF status = NoStatus THEN user[Navigator].prior ELSE status
  /\ UserTo(Navigator, "release")
  /\ UNCHANGED <<claim, shown, helpers, running, tried, refused>>

-----------------------------------------------------------------------------
(* attachment_status, for a literal key: a pending attempt whose pane is   *)
(* dead is written back as failed.                                         *)

ReadStatus(k) ==
  /\ UserAt(k, "idle") /\ status.phase = "pending"
  /\ user' = [user EXCEPT ![k] = [Resting EXCEPT !.at = "look", !.kind = "literal", !.prior = status]]
  /\ UNCHANGED <<claim, status, shown, helpers, running, tried, refused>>

ProbePane(k) ==
  /\ UserAt(k, "look")
  /\ user' = IF shown.dead THEN [user EXCEPT ![k].at = "mark"] ELSE [user EXCEPT ![k] = Resting]
  /\ UNCHANGED <<claim, status, shown, helpers, running, tried, refused>>

MarkFailed(k) ==
  /\ UserAt(k, "mark")
  /\ status' = [user[k].prior EXCEPT !.phase = "failed"]
  /\ user' = [user EXCEPT ![k] = Resting]
  /\ UNCHANGED <<claim, shown, helpers, running, tried, refused>>

-----------------------------------------------------------------------------
(* provider_attach: the helper of an attempt.                              *)

HelperAt(n, step) == helpers[n].at = step
HelperTo(n, step) == helpers' = [helpers EXCEPT ![n].at = step]

(* A helper that returns an error leaves its pane dead.                    *)
Exits(n) ==
  /\ helpers' = [helpers EXCEPT ![n] = HelperGone]
  /\ shown' = IF shown.what = "helper" /\ shown.attempt = n THEN [shown EXCEPT !.dead = TRUE] ELSE shown

(* A cycle proves and prepares the Runtime before it reports.              *)
PrepareCycle(n) ==
  /\ HelperAt(n, "started") /\ helpers[n].cycle
  /\ \/ helpers[n].card \in running /\ HelperTo(n, "prepared")
     \/ helpers' = [helpers EXCEPT ![n].at = "unready", ![n].result = "failed"]
  /\ UNCHANGED <<claim, status, shown, running, user, tried, refused>>

(* report_attachment_phase reads and checks, then writes what it read with *)
(* another phase.  A stale attempt ends the helper.                        *)
ReadReport(n, steps, phase, next) ==
  /\ helpers[n].at \in steps
  /\ IF status.attempt = n /\ status.phase = phase
     THEN HelperTo(n, next) /\ UNCHANGED shown
     ELSE Exits(n)
  /\ UNCHANGED <<claim, status, running, user, tried, refused>>

WriteReport(n, step, phase) ==
  /\ HelperAt(n, step)
  /\ status' = [attempt |-> n, card |-> helpers[n].card, phase |-> phase]
  /\ UNCHANGED <<claim, running, user, tried, refused>>

ReportRunning(n) ==
  \/ ~helpers[n].cycle /\ ReadReport(n, {"started"}, "pending", "report_running")
  \/ helpers[n].cycle /\ ReadReport(n, {"prepared"}, "pending", "report_running")
  \/ WriteReport(n, "report_running", "running") /\ HelperTo(n, "attach") /\ UNCHANGED shown

\* Mutant: a cycle helper that cannot prepare exits without reporting.
ReportUnreadySilently(n) == HelperAt(n, "unready") /\ Exits(n) /\ UNCHANGED <<claim, status, running, user, tried, refused>>

ReportUnready(n) ==
  \/ ReadReport(n, {"unready"}, "pending", "report_unready")
  \/ WriteReport(n, "report_unready", "failed") /\ Exits(n)

(* The native tmux client shows the Runtime; an ordinary attachment proves *)
(* it first.                                                               *)
AttachNative(n) ==
  /\ HelperAt(n, "attach")
  /\ \/ helpers[n].card \in running /\ HelperTo(n, "native")
     \/ \E result \in Terminal :
          helpers' = [helpers EXCEPT ![n].at = "ended", ![n].result = result]
  /\ UNCHANGED <<claim, status, shown, running, user, tried, refused>>

(* It returns when the client detaches or the Runtime stops.               *)
NativeReturns(n) ==
  /\ HelperAt(n, "native")
  /\ \E result \in Terminal :
       helpers' = [helpers EXCEPT ![n].at = "ended", ![n].result = result]
  /\ UNCHANGED <<claim, status, shown, running, user, tried, refused>>

ReportEnd(n) ==
  \/ ReadReport(n, {"ended"}, "running", "report_end")
  \/ /\ WriteReport(n, "report_end", helpers[n].result)
     /\ helpers' = [helpers EXCEPT ![n].at = "waiting", ![n].result = "none"]
     /\ UNCHANGED shown

HelperStep(n) ==
  PrepareCycle(n) \/ ReportRunning(n) \/ ReportUnready(n) \/ AttachNative(n) \/ ReportEnd(n)

-----------------------------------------------------------------------------
(* The environment.                                                        *)

ParkOrStart(w) ==
  /\ running' = IF w \in running THEN running \ {w} ELSE running \union {w}
  /\ UNCHANGED <<claim, status, shown, helpers, user, tried, refused>>

HelperDies(n) ==
  /\ Refusals /\ refused' = TRUE /\ helpers[n].at \notin {"none", "gone"}
  /\ Exits(n)
  /\ UNCHANGED <<claim, status, running, user, tried>>

ReviewEnds ==
  /\ shown.what = "review" /\ ~shown.dead
  /\ shown' = [shown EXCEPT !.dead = TRUE]
  /\ UNCHANGED <<claim, status, helpers, running, user, tried, refused>>

(* A key process dies; its claim stays set for the life of the server.     *)
KeyDies(k) ==
  /\ Refusals /\ refused' = TRUE /\ user[k].at \notin {"idle", "dead"}
  /\ UserTo(k, "dead")
  /\ UNCHANGED <<claim, status, shown, helpers, running, tried>>

UserSteps(u) ==
  \/ ReleaseClaim(u) \/ CycleSource(u) \/ CyclePrior(u) \/ WritePending(u)
  \/ ClearTag(u) \/ SetTag(u) \/ RespawnHelper(u) \/ RespawnOther(u) \/ FinishFailed(u)
  \/ RestoreCheck(u) \/ RestoreTag(u) \/ RestoreStatus(u) \/ ProbePane(u) \/ MarkFailed(u)

ReviewSteps ==
  ReviewContext \/ ProveStopped \/ ReadPrevious \/ UnfileStatus \/ UndoReview \/ UndoReviewStatus

PaneNext ==
  \/ BeginAttach \/ BeginShell \/ BeginReview \/ ReviewSteps \/ ReviewEnds
  \/ \E k \in Keys : BeginCycle(k) \/ ReadStatus(k) \/ KeyDies(k)
  \/ \E u \in Users : UserSteps(u) \/ ReplacementFails(u)
  \/ \E n \in 1..Attempts : HelperStep(n) \/ NativeReturns(n) \/ HelperDies(n)
  \/ \E w \in Cards : ParkOrStart(w)

(* Processes run on; a client stays attached as long as its Runtime lives. *)
PaneFairness ==
  /\ \A u \in Users : WF_paneVars(UserSteps(u))
  /\ WF_paneVars(ReviewSteps)
  /\ \A n \in 1..Attempts : WF_paneVars(HelperStep(n))

PaneSpec == PaneInit /\ [][PaneNext]_paneVars
FairPaneSpec == PaneSpec /\ PaneFairness

-----------------------------------------------------------------------------

(* Every variable keeps its type.                                          *)
PaneTypeOK ==
  LET Status == [attempt : 0..Attempts, card : Cards \union {Nobody}, phase : {"none", "pending", "running"} \union Terminal] IN
  /\ claim \in Users \union {Nobody}
  /\ status \in Status
  /\ shown \in [what : {"wait", "helper", "shell", "review"}, attempt : 0..Attempts,
                tag : Cards \union {Nobody}, dead : BOOLEAN]
  /\ helpers \in [1..Attempts -> [card : Cards \union {Nobody}, cycle : BOOLEAN,
       at : {"none", "started", "prepared", "unready", "report_running", "report_unready", "attach",
             "native", "ended", "report_end", "waiting", "gone"},
       result : Terminal \union {"none"}]]
  /\ running \subseteq Cards
  /\ user \in [Users -> [kind : {"none", "attach", "cycle", "shell", "review", "literal"},
       at : {"idle", "source", "prior", "pend", "clear", "tag", "respawn", "release", "fail",
             "restore", "retag", "refile", "context", "prove", "previous", "unfile", "undo",
             "undo_status", "look", "mark", "dead"},
       card : Cards \union {Nobody}, attempt : 0..Attempts, prior : Status]]
  /\ tried \in 0..Attempts
  /\ refused \in BOOLEAN

(* A literal key goes to the Workstream of a running status that the pane  *)
(* is tagged with: a live pane then shows the helper of that Workstream,   *)
(* whatever switches, failures and restores went before.                   *)
ShownIsRecorded ==
  status.phase = "running" /\ shown.tag = status.card /\ ~shown.dead
    => shown.what = "helper" /\ helpers[shown.attempt].card = status.card

(* Unless tmux refuses something or a process dies, every claim is         *)
(* released, and an attempt settles unless the shell took its pane.        *)
AttemptsSettle ==
  []<>(\/ refused
       \/ claim = Nobody /\ (status.phase = "pending" => shown.what = "shell"))
=============================================================================
