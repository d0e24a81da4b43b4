------------------------------ MODULE GroupStop ------------------------------
(***************************************************************************)
(* How a provider's process group, and a single helper process, is stopped *)
(* (runtime/mod.rs): probes of /proc, pidfd signals, TERM, a bounded wait  *)
(* and KILL.                                                               *)
(*                                                                         *)
(* A stop is one of three ways: "recorded" starts from the pid and birth   *)
(* in a Runtime row, "captured" from a group that a guardian proved while  *)
(* the leader lived, "helper" from the pid and birth of a single process.  *)
(*                                                                         *)
(* Every read of /proc is a step, and a search for members reads one       *)
(* process after the other while the group goes on forking and exiting.    *)
(* A pid is given to a stranger once no process and no group holds it.     *)
(* TERM obliges nobody: a process may exit at any time or never.           *)
(***************************************************************************)
EXTENDS Naturals

CONSTANTS
  LastPid,    \* bound: the pids the group can use are Leader..LastPid
  Stops       \* bound: attempts to stop, one after the other

ASSUME LastPidAssumption == LastPid \in Nat \ {0}
ASSUME StopsAssumption == Stops \in Nat

VARIABLES
  table,      \* the process that holds each pid
  namesake,   \* a group of strangers with the leader's number
  shuffled,   \* history: a child was given a lower pid than its parent
  stop,       \* the attempt in progress
  begun,      \* attempts so far
  outcome,    \* what the last attempt returned
  struck,     \* history: how the leader was held when a signal hit a namesake
  crashed     \* history: a stopping process died

groupVars == <<table, namesake, shuffled, stop, begun, outcome, struck, crashed>>

Leader == 1
Pids == Leader..LastPid
Running == {"run", "frozen", "dying"}   \* listed as members of the group
Owned == Running \union {"zombie"}
Ways == {"recorded", "captured", "helper"}
Inactive == [at |-> "idle", way |-> "recorded", signal |-> "term", alone |-> FALSE,
             held |-> "no", scan |-> "none", cursor |-> Leader, found |-> FALSE]

GroupInit ==
  /\ table = [p \in Pids |-> IF p = Leader THEN "run" ELSE "free"]
  /\ namesake = "none"
  /\ shuffled = FALSE
  /\ stop = Inactive
  /\ begun = 0
  /\ outcome = "none"
  /\ struck = {}
  /\ crashed = FALSE

LeaderIs == table[Leader]
Exact == LeaderIs \in Owned
Absent == LeaderIs = "free"

-----------------------------------------------------------------------------
(* The group and the strangers.                                            *)

World == UNCHANGED <<stop, begun, outcome, struck, crashed>>

Fork(p, child) ==
  /\ table[p] = "run" /\ table[child] = "free"
  /\ table' = [table EXCEPT ![child] = "run"]
  /\ shuffled' = (shuffled \/ child < p)
  /\ UNCHANGED namesake /\ World

ProcessExits(p) ==
  /\ table[p] \in {"run", "dying"}
  /\ table' = [table EXCEPT ![p] = "zombie"]
  /\ UNCHANGED <<namesake, shuffled>> /\ World

Reap(p) ==
  /\ table[p] = "zombie"
  /\ table' = [table EXCEPT ![p] = "free"]
  /\ UNCHANGED <<namesake, shuffled>> /\ World

(* The number of a group is in use until its last member is reaped.        *)
StrangerStarts ==
  /\ namesake = "none" /\ \A p \in Pids : table[p] = "free"
  /\ table' = [table EXCEPT ![Leader] = "stranger"]
  /\ UNCHANGED <<namesake, shuffled>> /\ World

(* setpgid makes a group of another session, setsid also a session.        *)
StrangerLeads ==
  /\ LeaderIs = "stranger" /\ namesake = "none"
  /\ namesake' \in {"job", "session"}
  /\ UNCHANGED <<table, shuffled>> /\ World

StrangersExit ==
  /\ LeaderIs \notin Owned
  /\ table' = [table EXCEPT ![Leader] = "free"]
  /\ namesake' \in {namesake, "none"}
  /\ UNCHANGED shuffled /\ World

-----------------------------------------------------------------------------
(* Steps of a stop.                                                        *)

StopAt(step) == stop.at = step
StopTo(step) == stop' = [stop EXCEPT !.at = step]
Searching(for) == [stop EXCEPT !.at = "search", !.scan = for, !.cursor = Leader, !.found = FALSE]
StillAsItWas == UNCHANGED <<namesake, shuffled, begun, struck, crashed>>

(* Every way out but a crash leaves no pidfd and no held leader behind.    *)
Thawed == IF LeaderIs = "frozen" /\ stop.held # "no" THEN [table EXCEPT ![Leader] = "run"] ELSE table
Returns(result) ==
  /\ stop' = [Inactive EXCEPT !.way = stop.way]
  /\ outcome' = result
  /\ table' = Thawed

BeginStop(way) ==
  /\ StopAt("idle") /\ begun < Stops
  /\ begun' = begun + 1
  /\ outcome' = "none"
  /\ stop' = [Inactive EXCEPT !.way = way, !.at = IF way = "helper" THEN "zombie" ELSE "identify"]
  /\ UNCHANGED <<table, namesake, shuffled, struck, crashed>>

(* The birth of the leader, at the start and again before KILL.            *)
Identify ==
  /\ StopAt("identify")
  /\ \/ /\ Exact
        /\ StopTo(IF stop.way = "recorded" /\ stop.signal = "term" THEN "prove" ELSE "compare")
        /\ UNCHANGED <<table, outcome>>
     \/ LeaderIs = "stranger" /\ Returns("failed")
     \/ /\ Absent
        /\ stop' = Searching(IF stop.signal = "kill" THEN "escalating" ELSE stop.way)
        /\ UNCHANGED <<table, outcome>>
  /\ StillAsItWas

(* A process that is not a zombie leads the group of its own pid.          *)
ProveGroup ==
  /\ StopAt("prove")
  /\ IF LeaderIs \in Running \/ (LeaderIs = "stranger" /\ namesake # "none")
     THEN StopTo("open") /\ UNCHANGED <<table, outcome>>
     ELSE Returns("failed")
  /\ StillAsItWas

CompareGroup ==
  /\ StopAt("compare")
  /\ IF Exact \/ (LeaderIs = "stranger" /\ namesake = "session")
     THEN StopTo("open") /\ UNCHANGED <<table, outcome>>
     ELSE Returns("failed")
  /\ StillAsItWas

(* The leader turns out to be gone: only KILL without a leader goes on.    *)
LeaderGone == IF stop.alone THEN StopTo("strike") ELSE stop' = Searching("waiting")

OpenLeader ==
  /\ StopAt("open")
  /\ IF Absent THEN LeaderGone ELSE StopTo("verify")
  /\ UNCHANGED <<table, outcome>> /\ StillAsItWas

VerifyLeader ==
  /\ StopAt("verify")
  /\ IF LeaderIs = "stranger" THEN Returns("failed")
     ELSE (IF Exact THEN StopTo("freeze") ELSE LeaderGone) /\ UNCHANGED <<table, outcome>>
  /\ StillAsItWas

\* Mutant: the leader is verified twice but not stopped in between.
FreezeNothing ==
  /\ StopAt("freeze")
  /\ IF Exact THEN stop' = [stop EXCEPT !.at = "recheck", !.held = "frozen"] ELSE LeaderGone
  /\ UNCHANGED <<table, outcome>> /\ StillAsItWas

(* SIGSTOP through the pidfd; a process that already exits is not held.    *)
Freeze ==
  /\ StopAt("freeze")
  /\ \/ /\ LeaderIs \in {"run", "frozen"}
        /\ table' = [table EXCEPT ![Leader] = "frozen"]
        /\ stop' = [stop EXCEPT !.at = "recheck", !.held = "frozen"]
     \/ /\ LeaderIs \in {"dying", "zombie"}
        /\ stop' = [stop EXCEPT !.at = "recheck", !.held = "exiting"] /\ UNCHANGED table
     \/ ~Exact /\ LeaderGone /\ UNCHANGED table
  /\ UNCHANGED outcome /\ StillAsItWas

Recheck ==
  /\ StopAt("recheck")
  /\ \/ Exact /\ StopTo("strike") /\ UNCHANGED <<table, outcome>>
     \/ LeaderIs = "stranger" /\ Returns("failed")
     \/ Absent /\ stop' = [Searching("waiting") EXCEPT !.held = "no"] /\ UNCHANGED <<table, outcome>>
  /\ StillAsItWas

(* killpg reaches whatever has the number of the group at that moment.     *)
Strike ==
  /\ StopAt("strike")
  /\ table' = [p \in Pids |-> IF stop.signal = "kill" /\ table[p] \in {"run", "frozen"}
                              THEN "dying" ELSE table[p]]
  /\ struck' = IF namesake # "none" THEN struck \union {stop.held} ELSE struck
  /\ stop' = IF stop.held = "no" THEN Searching("waiting") ELSE [stop EXCEPT !.at = "thaw"]
  /\ UNCHANGED <<namesake, shuffled, begun, outcome, crashed>>

Thaw ==
  /\ StopAt("thaw")
  /\ table' = Thawed
  /\ stop' = [Searching("waiting") EXCEPT !.held = "no"]
  /\ UNCHANGED outcome /\ StillAsItWas

-----------------------------------------------------------------------------
(* The search for members, which skips zombies.                            *)

ReadProcess ==
  /\ StopAt("search") /\ ~stop.found /\ stop.cursor \in Pids
  /\ stop' = [stop EXCEPT !.cursor = @ + 1, !.found = table[stop.cursor] \in Running]
  /\ UNCHANGED <<table, outcome>> /\ StillAsItWas

(* Strangers with the number of the group count if the session agrees; a   *)
(* recorded row has no session to compare.                                 *)
SearchSees == stop.found \/ namesake = "session" \/ (stop.scan = "recorded" /\ namesake = "job")

NobodyLeft ==
  /\ StopAt("search") /\ stop.cursor = LastPid + 1 /\ ~SearchSees
  /\ Returns(CASE stop.scan \in {"recorded", "captured"} -> "gone"
               [] stop.scan = "escalating" -> "term"
               [] stop.scan = "waiting" -> stop.signal)
  /\ StillAsItWas

SearchEnds == StopAt("search") /\ (stop.found \/ (stop.cursor = LastPid + 1 /\ SearchSees))

SomebodyLeft ==
  /\ SearchEnds
  /\ \/ stop.scan = "recorded" /\ Returns("failed")
     \/ /\ stop.scan \in {"captured", "escalating"}
        /\ stop' = [stop EXCEPT !.at = "open", !.signal = "kill", !.alone = TRUE]
        /\ UNCHANGED <<table, outcome>>
     \/ /\ stop.scan = "waiting"
        /\ stop' = Searching("waiting") /\ UNCHANGED <<table, outcome>>
  /\ StillAsItWas

(* The deadline of the wait for TERM, or for KILL.                         *)
WaitTimesOut ==
  /\ SearchEnds /\ stop.scan = "waiting"
  /\ IF stop.signal = "term"
     THEN stop' = [stop EXCEPT !.at = "identify", !.signal = "kill"] /\ UNCHANGED <<table, outcome>>
     ELSE Returns("failed")
  /\ StillAsItWas

-----------------------------------------------------------------------------
(* terminate_owned_observer_process: one process, and a zombie is gone.    *)

CheckZombie ==
  /\ StopAt("zombie")
  /\ IF LeaderIs = "zombie" THEN Returns(IF stop.signal = "term" THEN "gone" ELSE "term")
     ELSE StopTo("exact") /\ UNCHANGED <<table, outcome>>
  /\ StillAsItWas

CheckExact ==
  /\ StopAt("exact")
  /\ IF Exact THEN StopTo("openHelper") /\ UNCHANGED <<table, outcome>> ELSE Returns("gone")
  /\ StillAsItWas

(* signal: the pidfd, and the birth once more before it is used.           *)
HelperLost == IF stop.signal = "term" THEN Returns("gone")
              ELSE StopTo("await") /\ UNCHANGED <<table, outcome>>

OpenHelper ==
  /\ StopAt("openHelper")
  /\ IF Absent THEN HelperLost ELSE StopTo("corroborate") /\ UNCHANGED <<table, outcome>>
  /\ StillAsItWas

Corroborate ==
  /\ StopAt("corroborate")
  /\ IF Exact THEN StopTo("send") /\ UNCHANGED <<table, outcome>> ELSE HelperLost
  /\ StillAsItWas

SendSignal ==
  /\ StopAt("send")
  /\ \/ /\ Exact /\ StopTo("await") /\ UNCHANGED outcome
        /\ table' = IF stop.signal = "kill" /\ LeaderIs \in {"run", "frozen"}
                    THEN [table EXCEPT ![Leader] = "dying"] ELSE table
     \/ ~Exact /\ HelperLost
  /\ StillAsItWas

HelperExited ==
  /\ StopAt("await") /\ LeaderIs \notin Running
  /\ Returns(stop.signal)
  /\ StillAsItWas

HelperTimesOut ==
  /\ StopAt("await") /\ LeaderIs \in Running
  /\ IF stop.signal = "term"
     THEN stop' = [stop EXCEPT !.at = "zombie", !.signal = "kill"] /\ UNCHANGED <<table, outcome>>
     ELSE Returns("failed")
  /\ StillAsItWas

-----------------------------------------------------------------------------
(* Faults.                                                                 *)

(* A read of /proc fails: the stop reports it and decides nothing.         *)
ProbeFails ==
  /\ stop.at \in {"identify", "prove", "compare", "verify", "recheck", "search",
                  "zombie", "exact", "corroborate", "await"}
  /\ Returns("failed")
  /\ StillAsItWas

StopperDies ==
  /\ ~StopAt("idle")
  /\ stop' = [Inactive EXCEPT !.way = stop.way]
  /\ crashed' = TRUE
  /\ UNCHANGED <<table, namesake, shuffled, begun, outcome, struck>>

-----------------------------------------------------------------------------

GroupLives ==
  \/ \E p \in Pids : ProcessExits(p) \/ Reap(p) \/ \E child \in Pids \ {Leader} : Fork(p, child)
  \/ StrangerStarts \/ StrangerLeads \/ StrangersExit

StopGroup ==
  \/ Identify \/ ProveGroup \/ CompareGroup \/ OpenLeader \/ VerifyLeader \/ Freeze \/ Recheck
  \/ Strike \/ Thaw \/ ReadProcess \/ NobodyLeft \/ SomebodyLeft \/ WaitTimesOut

StopHelper ==
  \/ CheckZombie \/ CheckExact \/ OpenHelper \/ Corroborate \/ SendSignal
  \/ HelperExited \/ HelperTimesOut

GroupNext ==
  \/ GroupLives \/ StopGroup \/ StopHelper \/ ProbeFails \/ StopperDies
  \/ \E way \in Ways : BeginStop(way)

GroupSpec == GroupInit /\ [][GroupNext]_groupVars

-----------------------------------------------------------------------------

(* Every variable keeps its type.                                          *)
GroupTypeOK ==
  /\ table \in [Pids -> Owned \union {"free", "stranger"}]
  /\ namesake \in {"none", "job", "session"}
  /\ shuffled \in BOOLEAN
  /\ stop \in [at : {"idle", "identify", "prove", "compare", "open", "verify", "freeze", "recheck",
                     "strike", "thaw", "search", "zombie", "exact", "openHelper", "corroborate",
                     "send", "await"},
               way : Ways, signal : {"term", "kill"}, alone : BOOLEAN,
               held : {"no", "frozen", "exiting"},
               scan : {"none", "recorded", "captured", "escalating", "waiting"},
               cursor : Leader..(LastPid + 1), found : BOOLEAN]
  /\ begun \in 0..Stops
  /\ outcome \in {"none", "gone", "term", "kill", "failed"}
  /\ struck \subseteq {"no", "frozen", "exiting"}
  /\ crashed \in BOOLEAN

Succeeded == outcome \in {"gone", "term", "kill"}

(* A stop that succeeds leaves no running process of the group, not even   *)
(* one that was forked behind the search (terminate_owned_process_group,   *)
(* linux_process_group_members), or not the helper.  The search goes up    *)
(* the pids: it may miss a child whose pid is lower than its parent's.     *)
StopsAll ==
  /\ Succeeded /\ stop.way # "helper" /\ ~shuffled => \A p \in Pids : table[p] \notin Running
  /\ Succeeded /\ stop.way = "helper" => LeaderIs \notin Running

(* A signal that is sent while the leader is held reaches no group of      *)
(* strangers (stop_and_verify_linux_group_leader): the stopped leader      *)
(* keeps its pid, which no group but its own can have.                     *)
SparesOthers == "frozen" \notin struck

(* A stop that returns, whatever it returns, leaves the leader running if  *)
(* no stopping process died (send_linux_group_signal).                     *)
LeavesNoneFrozen == StopAt("idle") /\ ~crashed => LeaderIs # "frozen"

(* What is stopped is exactly the group that was proven.                   *)
StopIsExact == StopsAll /\ SparesOthers /\ LeavesNoneFrozen
=============================================================================
