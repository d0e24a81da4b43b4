--------------------------- MODULE ControlCommand ---------------------------
(***************************************************************************)
(* A finite child command in a process group of its own: tmux, git and     *)
(* provider commands whose output is collected (process.rs), and a Codex   *)
(* App Server that answers one request, at leisure or within the deadline  *)
(* of a hook (provider/codex/app_server.rs).                               *)
(*                                                                         *)
(* The caller waits with a deadline while threads read the pipes.  Before  *)
(* it joins the readers it stops the whole group, because a descendant may *)
(* hold a pipe open: the group is probed, searched for in /proc, killed by *)
(* its number, the child reaped and the group searched again.  Meanwhile   *)
(* processes fork, exit and leave the group, and once the child is reaped  *)
(* its number may be given to strangers as soon as the group is empty.     *)
(*                                                                         *)
(* One call.  A descendant that leaves the group closes the pipes          *)
(* (isolate_long_lived_helper and its callers).                            *)
(***************************************************************************)
EXTENDS Naturals

CONSTANTS
  LastMember,   \* bound: the pids the group can use are Child..LastMember
  Obstructed    \* TRUE if /proc may be unreadable and signals refused

ASSUME LastMemberAssumption == LastMember \in Nat \ {0}
ASSUME ObstructedAssumption == Obstructed \in BOOLEAN

VARIABLES
  tree,      \* the process that holds each pid
  rival,     \* a group of strangers with the child's number
  call,      \* the caller
  reader,    \* the threads that read the pipes
  slipped,   \* history: a child was born behind a search, of a parent before it
  stood,     \* history: the strangers have had the number since the search began
  hit        \* history: what the kill found of strangers

commandVars == <<tree, rival, call, reader, slipped, stood, hit>>

Child == 1
Numbers == Child..LastMember
Living == {"run", "killed"}
Uses == {"output", "request", "hook"}   \* output_bounded, App Server requests

CommandInit ==
  /\ tree = [p \in Numbers |-> "free"]
  /\ rival = "none"
  /\ call = [use |-> "output", at |-> "idle", reaped |-> FALSE, error |-> FALSE, doubt |-> FALSE,
             search |-> "signal", next |-> Child, seen |-> "nobody", outcome |-> "none"]
  /\ reader = "none"
  /\ slipped = FALSE
  /\ stood = FALSE
  /\ hit = "nobody"

CallAt(step) == call.at = step
CallTo(step) == call' = [call EXCEPT !.at = step]
Member(p) == tree[p] \in Living \union {"zombie"}
NobodyLives == \A p \in Numbers : tree[p] \notin Living
Unmoved == UNCHANGED <<rival, slipped, hit>>
Aside == Unmoved /\ UNCHANGED stood

-----------------------------------------------------------------------------
(* The processes of the group, those that left it, and strangers.          *)

Others == UNCHANGED <<call, reader, hit>>

(* A pid is not given away while a process or a group has it.  A search    *)
(* that goes up the pids misses a child behind it of a parent before it.   *)
ForkMember(p, q) ==
  /\ tree[p] = "run" /\ tree[q] = "free" /\ q # Child
  /\ tree' = [tree EXCEPT ![q] = "run"]
  /\ slipped' = (slipped \/ (CallAt("search") /\ q < call.next /\ call.next <= p))
  /\ UNCHANGED <<rival, stood>> /\ Others

MemberLeaves(p) ==
  /\ p # Child /\ tree[p] = "run"
  /\ tree' = [tree EXCEPT ![p] = "away"]
  /\ UNCHANGED <<rival, slipped, stood>> /\ Others

MemberExits(p) ==
  /\ tree[p] \in Living
  /\ tree' = [tree EXCEPT ![p] = "zombie"]
  /\ UNCHANGED <<rival, slipped, stood>> /\ Others

(* The child's own parent is the caller.                                   *)
PidFreed(p) ==
  /\ tree[p] \in {"away", "stranger"} \/ (tree[p] = "zombie" /\ p # Child)
  /\ tree' = [tree EXCEPT ![p] = "free"]
  /\ UNCHANGED <<rival, slipped, stood>> /\ Others

StrangerBorn ==
  /\ call.reaped /\ rival = "none" /\ tree[Child] = "free" /\ \A p \in Numbers : ~Member(p)
  /\ tree' = [tree EXCEPT ![Child] = "stranger"]
  /\ UNCHANGED <<rival, slipped, stood>> /\ Others

(* A sibling is of the caller's session, as the child was.                 *)
RivalGroup ==
  /\ IF rival = "none" THEN tree[Child] = "stranger" /\ rival' \in {"sibling", "session"}
     ELSE rival' = "none"
  /\ stood' = FALSE
  /\ UNCHANGED <<tree, slipped>> /\ Others

(* The end of the pipe, a line that answers, or a failed read.             *)
ReaderEnds ==
  /\ reader = "reading"
  /\ reader' \in {"whole", "bad"}
  /\ UNCHANGED <<tree, call>> /\ Aside

-----------------------------------------------------------------------------
(* The command.                                                            *)

SpawnCommand(use) ==
  /\ CallAt("idle")
  /\ tree' = [tree EXCEPT ![Child] = "run"]
  /\ call' = [call EXCEPT !.at = "capture", !.use = use]
  /\ UNCHANGED reader /\ Aside

(* capture_process_group: the child is not reaped, so its entry is there.  *)
(* If it cannot be read only the child itself is stopped.                  *)
CaptureGroup ==
  /\ CallAt("capture")
  /\ \/ CallTo("work") /\ reader' = "reading"
     \/ /\ Obstructed
        /\ call' = [call EXCEPT !.at = "direct", !.error = TRUE] /\ UNCHANGED reader
  /\ UNCHANGED tree /\ Aside

ReapsChild(step, outcome) ==
  /\ tree' = [tree EXCEPT ![Child] = "free"]
  /\ call' = [call EXCEPT !.at = step, !.reaped = TRUE, !.outcome = outcome]

(* wait_bounded: the exit, told by a pidfd or found by polling.            *)
CommandExits ==
  /\ CallAt("work") /\ call.use = "output" /\ tree[Child] = "zombie"
  /\ ReapsChild("probe", "ok")
  /\ UNCHANGED reader /\ Aside

(* The reader found the answer, or its end.                                *)
AnswerArrives ==
  /\ CallAt("work") /\ call.use # "output" /\ reader # "reading"
  /\ call' = [call EXCEPT !.at = IF call.use = "request" THEN "shutdown" ELSE "probe", !.outcome = "ok"]
  /\ UNCHANGED <<tree, reader>> /\ Aside

(* The deadline, or the wait or a write failed.                            *)
DeadlinePasses ==
  /\ CallAt("work")
  /\ call' = [call EXCEPT !.at = "probe", !.outcome = "failed"]
  /\ UNCHANGED <<tree, reader>> /\ Aside

(* wait_for_child, which ends after a second.                              *)
AwaitShutdown ==
  /\ CallAt("shutdown")
  /\ \/ tree[Child] = "zombie" /\ ReapsChild("probe", call.outcome)
     \/ CallTo("probe") /\ UNCHANGED tree
  /\ UNCHANGED reader /\ Aside

-----------------------------------------------------------------------------
(* cleanup_child.                                                          *)

SearchFor(for) == [call EXCEPT !.at = "search", !.search = for, !.next = Child, !.seen = "nobody"]
Searches == stood' = (rival # "none") /\ Unmoved

GroupExists == rival # "none" \/ \E p \in Numbers : Member(p)

(* process_group_exists: refused, it says nothing, and the search decides. *)
ProbeGroup ==
  /\ CallAt("probe")
  /\ IF GroupExists
     THEN \E doubt \in {FALSE, Obstructed} : call' = [SearchFor("signal") EXCEPT !.doubt = doubt]
     ELSE CallTo("direct")
  /\ UNCHANGED <<tree, reader>> /\ Searches

(* process_group_has_member: one entry after the other, and at the end the *)
(* processes of a group of strangers in the same session.                  *)
ReadEntry ==
  /\ CallAt("search") /\ call.seen = "nobody" /\ call.next \in Numbers
  /\ call' = [call EXCEPT !.next = @ + 1, !.seen = IF tree[call.next] \in Living THEN "member" ELSE "nobody"]
  /\ UNCHANGED <<tree, reader>> /\ Aside

ReadRest ==
  /\ CallAt("search") /\ call.seen = "nobody" /\ call.next = LastMember + 1
  /\ call' = [call EXCEPT !.at = "found", !.seen = IF rival = "sibling" THEN "sibling" ELSE "nobody"]
  /\ UNCHANGED <<tree, reader>> /\ Aside

MemberSeen ==
  /\ CallAt("search") /\ call.seen = "member"
  /\ CallTo("found")
  /\ UNCHANGED <<tree, reader>> /\ Aside

Unproven(step) == call' = [call EXCEPT !.at = step, !.error = TRUE]

SearchFails ==
  /\ Obstructed /\ CallAt("search")
  /\ Unproven(IF call.search = "signal" THEN "direct" ELSE "unclean")
  /\ UNCHANGED <<tree, reader>> /\ Aside

(* signal_process_group: doubt about the probe is never dropped.           *)
NobodyToKill ==
  /\ CallAt("found") /\ call.search = "signal" /\ call.seen = "nobody"
  /\ call' = [call EXCEPT !.at = "direct", !.error = call.doubt]
  /\ UNCHANGED <<tree, reader>> /\ Aside

(* kill_process_group reaches whatever has the number by then.             *)
KillGroup ==
  /\ CallAt("found") /\ call.search = "signal" /\ call.seen # "nobody"
  /\ tree' = [p \in Numbers |-> IF tree[p] = "run" THEN "killed" ELSE tree[p]]
  /\ call' = [call EXCEPT !.at = "direct", !.error = call.doubt]
  /\ hit' = IF rival = "none" THEN "nobody" ELSE IF ~call.reaped THEN "pinned"
            ELSE IF stood THEN rival ELSE "newcomer"
  /\ UNCHANGED <<rival, slipped, stood, reader>>

KillRefused ==
  /\ Obstructed /\ CallAt("found") /\ call.search = "signal" /\ call.seen # "nobody"
  /\ Unproven("direct")
  /\ UNCHANGED <<tree, reader>> /\ Aside

(* The child itself, which only its own handle names.                      *)
StopChild ==
  /\ CallAt("direct")
  /\ IF ~call.reaped /\ tree[Child] = "zombie" THEN ReapsChild("reap", call.outcome)
     ELSE /\ tree' = IF ~call.reaped /\ tree[Child] = "run" THEN [tree EXCEPT ![Child] = "killed"] ELSE tree
          /\ CallTo("reap")
  /\ UNCHANGED reader /\ Aside

ReapChild ==
  /\ CallAt("reap") /\ ~call.reaped /\ tree[Child] = "zombie"
  /\ ReapsChild("reap", call.outcome)
  /\ UNCHANGED reader /\ Aside

\* Mutant: a group that was signalled is taken to be gone.
TrustSignal ==
  /\ CallAt("reap") /\ call.reaped
  /\ call' = [call EXCEPT !.at = IF call.error THEN "unclean" ELSE "join"]
  /\ UNCHANGED <<tree, reader>> /\ Aside

(* An error is kept; otherwise wait_for_process_group_exit.                *)
ConfirmGroup ==
  /\ CallAt("reap") /\ call.reaped
  /\ call' = IF call.error THEN [call EXCEPT !.at = "unclean"] ELSE SearchFor("confirm")
  /\ UNCHANGED <<tree, reader>> /\ Searches

SomebodyConfirmed == CallAt("found") /\ call.search = "confirm" /\ call.seen # "nobody"

SearchAgain ==
  /\ SomebodyConfirmed
  /\ call' = SearchFor("confirm")
  /\ UNCHANGED <<tree, reader>> /\ Searches

ConfirmExpires ==
  /\ SomebodyConfirmed
  /\ Unproven("unclean")
  /\ UNCHANGED <<tree, reader>> /\ Aside

GroupGone ==
  /\ CallAt("found") /\ call.search = "confirm" /\ call.seen = "nobody"
  /\ CallTo("join")
  /\ UNCHANGED <<tree, reader>> /\ Aside

-----------------------------------------------------------------------------
(* The end.                                                                *)

CallReturns(outcome) == call' = [call EXCEPT !.at = "returned", !.outcome = outcome]

(* The readers' errors count; a hook's reader is left behind.              *)
JoinReaders ==
  /\ CallAt("join")
  /\ call.use = "hook" \/ reader # "reading"
  /\ CallReturns(IF reader = "bad" THEN "failed" ELSE call.outcome)
  /\ UNCHANGED <<tree, reader>> /\ Aside

(* A reader that a survivor may keep is not joined.                        *)
LeaveReaders ==
  /\ CallAt("unclean")
  /\ CallReturns("unclean")
  /\ UNCHANGED <<tree, reader>> /\ Aside

CleanUpChild ==
  \/ ProbeGroup \/ ReadEntry \/ ReadRest \/ MemberSeen \/ SearchFails \/ NobodyToKill \/ KillGroup \/ KillRefused
  \/ StopChild \/ ReapChild \/ ConfirmGroup \/ SearchAgain \/ ConfirmExpires \/ GroupGone

CallSteps ==
  \/ CaptureGroup \/ CommandExits \/ AnswerArrives \/ DeadlinePasses \/ AwaitShutdown
  \/ CleanUpChild \/ JoinReaders \/ LeaveReaders

TreeLives ==
  \/ \E p \in Numbers :
       \/ MemberLeaves(p) \/ MemberExits(p) \/ PidFreed(p)
       \/ \E q \in Numbers : ForkMember(p, q)
  \/ StrangerBorn \/ RivalGroup \/ ReaderEnds

CommandNext == CallSteps \/ TreeLives \/ \E use \in Uses : SpawnCommand(use)

CommandSpec == CommandInit /\ [][CommandNext]_commandVars

-----------------------------------------------------------------------------

(* Every variable keeps its type.                                          *)
CommandTypeOK ==
  /\ tree \in [Numbers -> Living \union {"free", "zombie", "away", "stranger"}]
  /\ rival \in {"none", "sibling", "session"}
  /\ call \in [use : Uses,
               at : {"idle", "capture", "work", "shutdown", "probe", "search", "found", "direct", "reap",
                     "unclean", "join", "returned"},
               reaped : BOOLEAN, error : BOOLEAN, doubt : BOOLEAN, search : {"signal", "confirm"},
               next : Child..(LastMember + 1), seen : {"nobody", "member", "sibling"},
               outcome : {"none", "ok", "failed", "unclean"}]
  /\ reader \in {"none", "reading", "whole", "bad"}
  /\ slipped \in BOOLEAN /\ stood \in BOOLEAN
  /\ hit \in {"nobody", "pinned", "sibling", "session", "newcomer"}

(* When the readers are joined, and when the call returns without an error *)
(* of the cleanup, nobody of the group runs and the child is reaped: no    *)
(* pipe is held open (output_bounded_with_timeout).  A search that goes up *)
(* the pids may miss a child born behind it.                               *)
NobodyHoldsPipes ==
  CallAt("join") \/ (CallAt("returned") /\ call.outcome # "unclean")
  => call.reaped /\ (NobodyLives \/ slipped)

(* While the child is not reaped its number is not given away, and strangers *)
(* of another session who have it when the search begins are never killed;   *)
(* siblings, and those who take the number after it, are not told apart      *)
(* (signal_process_group).                                                   *)
KillsItsOwn == hit \notin {"pinned", "session"}

(* A command is stopped whole, and nothing else is.                        *)
CommandIsContained == NobodyHoldsPipes /\ KillsItsOwn
=============================================================================
