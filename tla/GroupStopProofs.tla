-------------------------- MODULE GroupStopProofs --------------------------
(***************************************************************************)
(* StopIsExact for groups of any size and any number of stops, with every  *)
(* fork, exit and reuse of a pid between any two steps of a stop; and      *)
(* CommandIsContained, the same of a control command and its descendants.  *)
(***************************************************************************)
EXTENDS GroupStop, ControlCommand, TLAPS

HelperSteps == {"zombie", "exact", "openHelper", "corroborate", "send", "await"}
HoldingSteps == {"recheck", "strike", "thaw"}

\* While a process of the group holds a pid, no stranger has the number of
\* the group: this is what a stopped leader is good for.
NumberIsTaken ==
  LeaderIs = "stranger" \/ namesake # "none" => \A p \in Pids : table[p] \notin Owned

\* The leader is held only between its SIGSTOP and its SIGCONT.
HeldBetween == stop.at \notin HoldingSteps => stop.held = "no"

\* Held means frozen, until the signal is out.
HeldIsFrozen == stop.at \in {"recheck", "strike"} /\ stop.held = "frozen" => LeaderIs = "frozen"

\* A frozen leader has somebody who will thaw it.
FrozenIsHeld == LeaderIs = "frozen" /\ ~crashed => stop.at \in HoldingSteps /\ stop.held = "frozen"

\* Below the cursor of a search that found nobody nobody runs: a process
\* above it forks only upwards.
SearchedIsGone ==
  stop.at = "search" /\ ~stop.found /\ ~shuffled =>
    \A p \in Pids : p < stop.cursor => table[p] \notin Running

\* The steps of a helper's stop and of a group's stop are apart, and a search
\* has a purpose.
WaysApart ==
  /\ stop.at # "idle" => (stop.way = "helper" <=> stop.at \in HelperSteps)
  /\ stop.at = "search" => stop.scan # "none"

\* The inductive invariant.
StopInv == /\ GroupTypeOK /\ NumberIsTaken /\ HeldBetween /\ HeldIsFrozen /\ FrozenIsHeld
           /\ SearchedIsGone /\ WaysApart /\ StopsAll /\ SparesOthers

-----------------------------------------------------------------------------

\* The leader is the first pid.
LEMMA LeaderIsPid == Leader \in Pids /\ Pids \subseteq Nat /\ LastPid \in Nat /\ Pids = 1..LastPid
BY LastPidAssumption DEF Leader, Pids

\* A group whose leader runs, and nobody who stops it.
LEMMA StopStarts == GroupInit => StopInv
<1> SUFFICES ASSUME GroupInit PROVE StopInv
  OBVIOUS
<1> USE LeaderIsPid DEF GroupInit
<1>1. Inactive.at = "idle" /\ Inactive.held = "no" /\ outcome = "none" /\ struck = {}
  BY DEF Inactive
<1>2. table \in [Pids -> Owned \union {"free", "stranger"}]
  BY DEF Owned, Running
<1>3. GroupTypeOK
  <2>1. Leader \in Leader..(LastPid + 1) /\ begun \in 0..Stops
    BY StopsAssumption DEF Leader
  <2>2. /\ namesake \in {"none", "job", "session"} /\ shuffled \in BOOLEAN
        /\ outcome \in {"none", "gone", "term", "kill", "failed"} /\ crashed \in BOOLEAN
        /\ struck \subseteq {"no", "frozen", "exiting"}
    OBVIOUS
  <2> QED BY <1>2, <2>1, <2>2 DEF GroupTypeOK, Inactive, Ways
<1>4. LeaderIs = "run"
  BY DEF LeaderIs
<1> QED
  BY <1>1, <1>3, <1>4
     DEF StopInv, NumberIsTaken, HeldBetween, HeldIsFrozen, FrozenIsHeld, SearchedIsGone,
         WaysApart, StopsAll, SparesOthers, Succeeded, HoldingSteps, HelperSteps

-----------------------------------------------------------------------------
(* What the processes do on their own.                                     *)

\* Processes fork, exit and are reaped, and numbers are taken again.
LEMMA WorldKeeps ==
  ASSUME StopInv, GroupLives
  PROVE  StopInv'
<1> USE LeaderIsPid
    DEF StopInv, GroupTypeOK, NumberIsTaken, HeldBetween, HeldIsFrozen, FrozenIsHeld, SearchedIsGone,
        WaysApart, StopsAll, SparesOthers, Succeeded, World, LeaderIs, Owned, Running
<1>1. ASSUME NEW p \in Pids, ProcessExits(p) PROVE StopInv'
  BY <1>1 DEF ProcessExits
<1>2. ASSUME NEW p \in Pids, Reap(p) PROVE StopInv'
  BY <1>2 DEF Reap
<1>3. ASSUME NEW p \in Pids, NEW child \in Pids \ {Leader}, Fork(p, child) PROVE StopInv'
  <2> USE <1>3 DEF Fork
  <2>1. GroupTypeOK' /\ HeldBetween' /\ HeldIsFrozen' /\ FrozenIsHeld' /\ WaysApart' /\ SparesOthers'
    OBVIOUS
  <2>2. NumberIsTaken'
    OBVIOUS
  <2>3. SearchedIsGone'
    <3>1. SUFFICES ASSUME stop.at = "search", ~stop.found, ~shuffled', NEW q \in Pids, q < stop.cursor
                   PROVE  table'[q] \notin Running
      OBVIOUS
    <3>2. ~shuffled /\ ~(child < p) /\ ~(p < stop.cursor)
      BY <3>1
    <3>3. q # child
      BY <3>1, <3>2
    <3> QED BY <3>1, <3>2, <3>3
  <2>4. StopsAll'
    OBVIOUS
  <2> QED BY <2>1, <2>2, <2>3, <2>4
<1>4. CASE StrangerStarts
  BY <1>4 DEF StrangerStarts
<1>5. CASE StrangerLeads
  BY <1>5 DEF StrangerLeads
<1>6. CASE StrangersExit
  BY <1>6 DEF StrangersExit
<1> QED BY <1>1, <1>2, <1>3, <1>4, <1>5, <1>6 DEF GroupLives

-----------------------------------------------------------------------------
(* The steps of a stop.                                                    *)

\* The types of a stop, and the two ways in which a step changes its record.
StopSteps == {"idle", "identify", "prove", "compare", "open", "verify", "freeze", "search"}
               \union HoldingSteps \union HelperSteps
StopRecord == [at : StopSteps, way : Ways, signal : {"term", "kill"}, alone : BOOLEAN,
               held : {"no", "frozen", "exiting"},
               scan : {"none", "recorded", "captured", "escalating", "waiting"},
               cursor : Leader..(LastPid + 1), found : BOOLEAN]

\* The types with the set of stop records under a name.
LEMMA StopTyped == GroupTypeOK <=> /\ stop \in StopRecord
                                   /\ table \in [Pids -> Owned \union {"free", "stranger"}]
                                   /\ namesake \in {"none", "job", "session"}
                                   /\ shuffled \in BOOLEAN /\ begun \in 0..Stops
                                   /\ outcome \in {"none", "gone", "term", "kill", "failed"}
                                   /\ struck \subseteq {"no", "frozen", "exiting"}
                                   /\ crashed \in BOOLEAN
<1>1. StopSteps = {"idle", "identify", "prove", "compare", "open", "verify", "freeze", "recheck",
                   "strike", "thaw", "search", "zombie", "exact", "openHelper", "corroborate",
                   "send", "await"}
  BY DEF StopSteps, HoldingSteps, HelperSteps
<1> QED BY <1>1 DEF GroupTypeOK, StopRecord

\* The two usual changes of the record.
LEMMA RecordMoves ==
  ASSUME GroupTypeOK, NEW step \in StopSteps, StopTo(step)
  PROVE  /\ stop' \in StopRecord
         /\ stop'.at = step /\ stop'.way = stop.way /\ stop'.held = stop.held
BY StopTyped DEF StopRecord, StopTo

\* What the beginning of a search sets.
LEMMA RecordSearches ==
  ASSUME GroupTypeOK, NEW for \in {"recorded", "captured", "escalating", "waiting"}
  PROVE  /\ Searching(for) \in StopRecord
         /\ Searching(for).at = "search" /\ Searching(for).way = stop.way
         /\ Searching(for).held = stop.held /\ Searching(for).scan = for
         /\ Searching(for).cursor = Leader /\ Searching(for).found = FALSE
<1>1. Leader \in Leader..(LastPid + 1)
  BY LeaderIsPid DEF Leader
<1> QED BY <1>1, StopTyped DEF StopRecord, Searching, StopSteps

\* A stop that returns thaws a leader it holds, and may report success only
\* when nobody is left.
LEMMA ReturnKeeps ==
  ASSUME StopInv, StillAsItWas,
         NEW result \in {"gone", "term", "kill", "failed"}, Returns(result),
         result # "failed" => IF stop.way = "helper" THEN LeaderIs \notin Running
                              ELSE ~shuffled => \A p \in Pids : table[p] \notin Running
  PROVE  StopInv'
<1> USE LeaderIsPid DEF StopInv, StillAsItWas
<1>1. /\ stop' \in StopRecord
      /\ stop'.at = "idle" /\ stop'.held = "no" /\ stop'.way = stop.way
  <2>1. Inactive \in StopRecord /\ Inactive.at = "idle" /\ Inactive.held = "no"
    <3>1. Leader \in Leader..(LastPid + 1)
      BY DEF Leader
    <3> QED BY <3>1 DEF Inactive, StopRecord, StopSteps, Ways
  <2> QED BY <2>1, StopTyped DEF StopRecord, Returns
<1>2. \A p \in Pids : \/ table'[p] = table[p]
                      \/ p = Leader /\ table[p] = "frozen" /\ table'[p] = "run"
  BY StopTyped DEF Thawed, LeaderIs, Returns
<1>3. table' \in [Pids -> Owned \union {"free", "stranger"}]
  BY StopTyped DEF Thawed, LeaderIs, Owned, Running, Returns
<1>4. GroupTypeOK'
  BY <1>1, <1>3, StopTyped DEF Returns, GroupTypeOK, StopRecord, StopSteps, HoldingSteps, HelperSteps
<1>5. NumberIsTaken'
  BY <1>2 DEF NumberIsTaken, LeaderIs, Owned, Running
<1>6. HeldBetween' /\ HeldIsFrozen' /\ SearchedIsGone' /\ WaysApart' /\ SparesOthers'
  BY <1>1 DEF HeldBetween, HeldIsFrozen, SearchedIsGone, WaysApart, SparesOthers
<1>7. FrozenIsHeld'
  BY StopTyped DEF FrozenIsHeld, HeldBetween, HeldIsFrozen, Thawed, LeaderIs, Returns
<1>8. StopsAll'
  BY <1>1, <1>2 DEF Returns, StopsAll, Succeeded, LeaderIs, Running
<1> QED BY <1>4, <1>5, <1>6, <1>7, <1>8

\* A stop that goes on to a step before or after the leader is held.
LEMMA MoveKeeps ==
  ASSUME StopInv, StillAsItWas, UNCHANGED <<table, outcome>>,
         stop.at \notin HoldingSteps \union {"idle"},
         stop' \in StopRecord, stop'.way = stop.way, stop'.held = stop.held,
         stop'.at \notin {"idle", "recheck", "thaw"}, stop.way = "helper" <=> stop'.at \in HelperSteps,
         stop'.at = "search" => stop'.cursor = Leader /\ stop'.scan # "none"
  PROVE  StopInv'
<1> USE LeaderIsPid DEF StopInv, StillAsItWas
<1>1. stop.held = "no" /\ stop'.held = "no"
  BY DEF HeldBetween
<1>2. GroupTypeOK'
  BY StopTyped DEF GroupTypeOK, StopRecord, StopSteps, HoldingSteps, HelperSteps
<1>3. NumberIsTaken' /\ SparesOthers'
  BY DEF NumberIsTaken, SparesOthers, LeaderIs
<1>4. HeldBetween' /\ HeldIsFrozen'
  BY <1>1 DEF HeldBetween, HeldIsFrozen
<1>5. FrozenIsHeld'
  BY DEF FrozenIsHeld, LeaderIs
<1>6. SearchedIsGone'
  BY DEF SearchedIsGone, Leader
<1>7. WaysApart' /\ StopsAll'
  BY DEF WaysApart, StopsAll, Succeeded, LeaderIs
<1> QED BY <1>2, <1>3, <1>4, <1>5, <1>6, <1>7

-----------------------------------------------------------------------------

\* Up to the signal.
LEMMA SignalKeeps ==
  ASSUME StopInv,
         Identify \/ ProveGroup \/ CompareGroup \/ OpenLeader \/ VerifyLeader
  PROVE  StopInv'
<1> USE DEF StopAt, Exact, Absent
<1>0. GroupTypeOK /\ stop \in StopRecord /\ WaysApart
  BY StopTyped DEF StopInv
<1> USE <1>0 DEF WaysApart, HelperSteps, HoldingSteps, StopSteps
<1>1. CASE Identify
  <2> USE <1>1 DEF Identify
  <2>1. stop.way \in {"recorded", "captured"} /\ StillAsItWas
    BY DEF StopRecord, Ways
  <2>2. CASE StopTo(IF stop.way = "recorded" /\ stop.signal = "term" THEN "prove" ELSE "compare")
             /\ UNCHANGED <<table, outcome>>
    BY <2>1, <2>2, RecordMoves, MoveKeeps
  <2>3. CASE Returns("failed")
    BY <2>1, <2>3, ReturnKeeps
  <2>4. CASE /\ stop' = Searching(IF stop.signal = "kill" THEN "escalating" ELSE stop.way)
             /\ UNCHANGED <<table, outcome>>
    BY <2>1, <2>4, RecordSearches, MoveKeeps
  <2> QED BY <2>2, <2>3, <2>4
<1>2. CASE ProveGroup
  BY <1>2, ReturnKeeps, RecordMoves, MoveKeeps DEF ProveGroup
<1>3. CASE CompareGroup
  BY <1>3, ReturnKeeps, RecordMoves, MoveKeeps DEF CompareGroup
<1>4. CASE OpenLeader
  BY <1>4, RecordMoves, RecordSearches, MoveKeeps DEF OpenLeader, LeaderGone
<1>5. CASE VerifyLeader
  BY <1>5, ReturnKeeps, RecordMoves, RecordSearches, MoveKeeps DEF VerifyLeader, LeaderGone
<1> QED BY <1>1, <1>2, <1>3, <1>4, <1>5

\* While the leader is held.
LEMMA HoldKeeps ==
  ASSUME StopInv, Freeze \/ Recheck \/ Strike \/ Thaw
  PROVE  StopInv'
<1> USE LeaderIsPid DEF StopAt, Exact, Absent, StillAsItWas
<1>0. /\ GroupTypeOK /\ stop \in StopRecord /\ WaysApart
      /\ table \in [Pids -> Owned \union {"free", "stranger"}]
  BY StopTyped DEF StopInv
<1>1. CASE Freeze
  <2> USE <1>1 DEF Freeze
  <2>1. stop.at = "freeze" /\ stop.way # "helper"
    BY <1>0 DEF WaysApart, HelperSteps
  <2>2. CASE ~Exact /\ LeaderGone /\ UNCHANGED <<table, outcome>>
    BY <2>1, <2>2, <1>0, RecordMoves, RecordSearches, MoveKeeps
       DEF LeaderGone, HelperSteps, HoldingSteps, StopSteps
  <2>3. ASSUME NEW held \in {"frozen", "exiting"}, stop' = [stop EXCEPT !.at = "recheck", !.held = held],
               table' = [table EXCEPT ![Leader] = IF held = "frozen" THEN "frozen" ELSE @],
               held = "frozen" <=> LeaderIs \in {"run", "frozen"}, Exact, UNCHANGED outcome
        PROVE  StopInv'
    <3> USE <1>0, <2>1, <2>3
    <3>1. stop' \in StopRecord /\ stop'.at = "recheck" /\ stop'.held = held /\ stop'.way = stop.way
      BY DEF StopRecord, StopSteps, HoldingSteps
    <3>2. table' \in [Pids -> Owned \union {"free", "stranger"}]
      BY DEF Owned, Running
    <3>3. \A p \in Pids : p # Leader => table'[p] = table[p]
      OBVIOUS
    <3>4. LeaderIs' = (IF held = "frozen" THEN "frozen" ELSE LeaderIs)
      BY DEF LeaderIs
    <3>5. GroupTypeOK'
      BY <3>1, <3>2, StopTyped DEF GroupTypeOK, StopRecord, StopSteps, HoldingSteps, HelperSteps
    <3>6. NumberIsTaken' /\ SparesOthers'
      BY DEF StopInv, NumberIsTaken, SparesOthers, Owned, Running, LeaderIs
    <3>7. HeldBetween' /\ HeldIsFrozen' /\ FrozenIsHeld' /\ SearchedIsGone' /\ WaysApart'
      BY <3>1, <3>4
         DEF StopInv, HeldBetween, HeldIsFrozen, FrozenIsHeld, SearchedIsGone, WaysApart, HoldingSteps,
             HelperSteps, LeaderIs
    <3>8. StopsAll'
      BY <3>1, <3>3, <3>4 DEF StopInv, StopsAll, Succeeded, Running, LeaderIs
    <3> QED BY <3>5, <3>6, <3>7, <3>8 DEF StopInv
  <2>4. CASE LeaderIs \in {"run", "frozen"} /\ table' = [table EXCEPT ![Leader] = "frozen"]
             /\ stop' = [stop EXCEPT !.at = "recheck", !.held = "frozen"]
    BY <2>3, <2>4 DEF Owned, Running
  <2>5. CASE LeaderIs \in {"dying", "zombie"} /\ UNCHANGED table
             /\ stop' = [stop EXCEPT !.at = "recheck", !.held = "exiting"]
    BY <2>3, <2>5, <1>0 DEF Owned, Running
  <2> QED BY <2>2, <2>4, <2>5
<1>2. CASE Recheck
  <2> USE <1>2 DEF Recheck
  <2>1. stop.at = "recheck" /\ stop.way # "helper"
    BY <1>0 DEF WaysApart, HelperSteps
  <2>2. CASE LeaderIs = "stranger" /\ Returns("failed")
    BY <2>2, ReturnKeeps DEF StillAsItWas
  <2>3. ASSUME stop' \in StopRecord, stop'.way = stop.way, UNCHANGED <<table, outcome>>,
               \/ stop'.at = "strike" /\ stop'.held = stop.held
               \/ /\ stop'.at = "search" /\ stop'.held = "no" /\ stop'.cursor = Leader
                  /\ stop'.scan # "none" /\ Absent
        PROVE  StopInv'
    <3> USE <1>0, <2>1, <2>3
    <3>1. GroupTypeOK'
      BY StopTyped DEF GroupTypeOK, StopRecord, StopSteps, HoldingSteps, HelperSteps
    <3> QED
      BY <3>1
         DEF StopInv, NumberIsTaken, SparesOthers, HeldBetween, HeldIsFrozen, FrozenIsHeld, SearchedIsGone,
             WaysApart, StopsAll, Succeeded, HoldingSteps, HelperSteps, LeaderIs, Leader
  <2>4. CASE Exact /\ StopTo("strike") /\ UNCHANGED <<table, outcome>>
    BY <2>3, <2>4, <1>0, RecordMoves DEF StopSteps, HoldingSteps
  <2>5. CASE Absent /\ stop' = [Searching("waiting") EXCEPT !.held = "no"] /\ UNCHANGED <<table, outcome>>
    BY <2>3, <2>5, <1>0, RecordSearches DEF StopRecord
  <2> QED BY <2>2, <2>4, <2>5
<1>3. CASE Strike
  <2> USE <1>0, <1>3 DEF Strike
  <2>1. stop.at = "strike" /\ stop.way # "helper"
    BY DEF WaysApart, HelperSteps
  <2>2. /\ table' \in [Pids -> Owned \union {"free", "stranger"}]
        /\ \A p \in Pids : /\ table'[p] \in Running <=> table[p] \in Running
                           /\ table[p] \notin Running => table'[p] = table[p]
                           /\ table'[p] # table[p] => table'[p] = "dying"
    BY DEF Owned, Running
  <2>3. stop.held = "frozen" => namesake = "none"
    BY DEF StopInv, HeldIsFrozen, NumberIsTaken, Owned, Running, LeaderIs
  <2>4. /\ stop' \in StopRecord /\ stop'.way = stop.way /\ stop'.held = stop.held
        /\ \/ stop'.at = "thaw"
           \/ /\ stop'.at = "search" /\ stop'.held = "no" /\ stop'.cursor = Leader
              /\ stop'.scan # "none"
    BY RecordSearches DEF StopRecord, StopSteps, HoldingSteps
  <2>5. GroupTypeOK' /\ SparesOthers'
    <3>1. struck' \subseteq {"no", "frozen", "exiting"} /\ "frozen" \notin struck'
      BY <2>3 DEF GroupTypeOK, StopInv, SparesOthers
    <3> QED
      BY <2>2, <2>4, <3>1, StopTyped
         DEF GroupTypeOK, SparesOthers, StopRecord, StopSteps, HoldingSteps, HelperSteps
  <2>6. NumberIsTaken'
    BY <2>2 DEF StopInv, NumberIsTaken, Owned, Running, LeaderIs
  <2>7. HeldBetween' /\ HeldIsFrozen' /\ SearchedIsGone' /\ WaysApart'
    BY <2>1, <2>4
       DEF HeldBetween, HeldIsFrozen, SearchedIsGone, WaysApart, HoldingSteps, HelperSteps, Leader
  <2>8. FrozenIsHeld'
    BY <2>1, <2>2, <2>4 DEF StopInv, FrozenIsHeld, HoldingSteps, LeaderIs
  <2>9. StopsAll'
    BY <2>2, <2>4 DEF StopInv, StopsAll, Succeeded, LeaderIs
  <2> QED BY <2>5, <2>6, <2>7, <2>8, <2>9 DEF StopInv
<1>4. CASE Thaw
  <2> USE <1>0, <1>4 DEF Thaw
  <2>1. stop.at = "thaw" /\ stop.way # "helper"
    BY DEF WaysApart, HelperSteps
  <2>2. /\ table' \in [Pids -> Owned \union {"free", "stranger"}]
        /\ \A p \in Pids : \/ table'[p] = table[p]
                           \/ p = Leader /\ table[p] = "frozen" /\ table'[p] = "run"
    BY DEF Thawed, LeaderIs, Owned, Running
  <2>3. /\ stop' \in StopRecord /\ stop'.way = stop.way /\ stop'.held = "no"
        /\ stop'.at = "search" /\ stop'.cursor = Leader /\ stop'.scan # "none"
    BY RecordSearches DEF StopRecord
  <2>4. GroupTypeOK' /\ SparesOthers'
    BY <2>2, <2>3, StopTyped
       DEF StopInv, GroupTypeOK, SparesOthers, StopRecord, StopSteps, HoldingSteps, HelperSteps
  <2>5. NumberIsTaken'
    BY <2>2 DEF StopInv, NumberIsTaken, Owned, Running, LeaderIs
  <2>6. HeldBetween' /\ HeldIsFrozen' /\ SearchedIsGone' /\ WaysApart'
    BY <2>1, <2>3
       DEF HeldBetween, HeldIsFrozen, SearchedIsGone, WaysApart, HoldingSteps, HelperSteps, Leader
  <2>7. FrozenIsHeld'
    BY <2>1 DEF StopInv, FrozenIsHeld, HoldingSteps, LeaderIs, Thawed
  <2>8. StopsAll'
    BY <2>2, <2>3 DEF StopInv, StopsAll, Succeeded, LeaderIs, Running
  <2> QED BY <2>4, <2>5, <2>6, <2>7, <2>8 DEF StopInv
<1> QED BY <1>1, <1>2, <1>3, <1>4

\* The search.
LEMMA SearchKeeps ==
  ASSUME StopInv, ReadProcess \/ NobodyLeft \/ SomebodyLeft \/ WaitTimesOut
  PROVE  StopInv'
<1> USE LeaderIsPid DEF StopAt, SearchEnds
<1>0. /\ GroupTypeOK /\ stop \in StopRecord /\ stop.at = "search" /\ stop.way # "helper"
      /\ stop.scan # "none" /\ stop.held = "no" /\ StillAsItWas
  BY StopTyped
     DEF StopInv, WaysApart, HelperSteps, HeldBetween, HoldingSteps, ReadProcess, NobodyLeft, SomebodyLeft,
         WaitTimesOut
<1> USE <1>0
<1>1. CASE ReadProcess
  <2> USE <1>1 DEF ReadProcess
  <2>1. /\ stop' \in StopRecord /\ stop'.at = "search" /\ stop'.held = "no" /\ stop'.way = stop.way
        /\ stop'.scan = stop.scan /\ stop'.cursor = stop.cursor + 1
        /\ stop'.found = (table[stop.cursor] \in Running)
    <3>1. stop.cursor + 1 \in Leader..(LastPid + 1)
      BY DEF Leader
    <3>2. (table[stop.cursor] \in Running) \in BOOLEAN
      OBVIOUS
    <3> QED BY <3>1, <3>2 DEF StopRecord
  <2>2. GroupTypeOK'
    BY <2>1, StopTyped
       DEF GroupTypeOK, StopRecord, StopSteps, HoldingSteps, HelperSteps, StillAsItWas
  <2>3. SearchedIsGone'
    <3>1. SUFFICES ASSUME ~stop'.found, ~shuffled, NEW p \in Pids, p < stop.cursor + 1
                   PROVE  table[p] \notin Running
      BY <2>1 DEF SearchedIsGone, StillAsItWas
    <3>2. stop.cursor \in Nat /\ (p < stop.cursor \/ p = stop.cursor)
      BY <3>1
    <3> QED BY <2>1, <3>1, <3>2 DEF StopInv, SearchedIsGone
  <2> QED
    BY <2>1, <2>2, <2>3
       DEF StopInv, NumberIsTaken, SparesOthers, HeldBetween, HeldIsFrozen, FrozenIsHeld, WaysApart,
           StopsAll, Succeeded, HoldingSteps, HelperSteps, LeaderIs, StillAsItWas
<1>2. CASE NobodyLeft
  <2>1. ~shuffled => \A p \in Pids : table[p] \notin Running
    BY <1>2 DEF StopInv, SearchedIsGone, NobodyLeft, SearchSees
  <2>2. PICK result \in {"gone", "term", "kill"} : Returns(result)
    BY <1>2 DEF NobodyLeft, StopRecord
  <2> QED BY <2>1, <2>2, ReturnKeeps
<1>3. CASE SomebodyLeft
  <2> USE <1>3 DEF SomebodyLeft
  <2>1. CASE Returns("failed")
    BY <2>1, ReturnKeeps
  <2>2. CASE /\ stop' = [stop EXCEPT !.at = "open", !.signal = "kill", !.alone = TRUE]
             /\ UNCHANGED <<table, outcome>>
    <3>1. stop' \in StopRecord /\ stop'.at = "open" /\ stop'.way = stop.way /\ stop'.held = stop.held
      BY <2>2 DEF StopRecord, StopSteps
    <3> QED BY <2>2, <3>1, MoveKeeps DEF HoldingSteps, HelperSteps
  <2>3. CASE stop' = Searching("waiting") /\ UNCHANGED <<table, outcome>>
    BY <2>3, RecordSearches, MoveKeeps DEF HoldingSteps, HelperSteps
  <2> QED BY <2>1, <2>2, <2>3
<1>4. CASE WaitTimesOut
  <2> USE <1>4 DEF WaitTimesOut
  <2>1. CASE Returns("failed")
    BY <2>1, ReturnKeeps
  <2>2. CASE stop' = [stop EXCEPT !.at = "identify", !.signal = "kill"] /\ UNCHANGED <<table, outcome>>
    <3>1. stop' \in StopRecord /\ stop'.at = "identify" /\ stop'.way = stop.way /\ stop'.held = stop.held
      BY <2>2 DEF StopRecord, StopSteps
    <3> QED BY <2>2, <3>1, MoveKeeps DEF HoldingSteps, HelperSteps
  <2> QED BY <2>1, <2>2
<1> QED BY <1>1, <1>2, <1>3, <1>4

\* The stop of a single helper process.
LEMMA HelperKeeps ==
  ASSUME StopInv, StopHelper
  PROVE  StopInv'
<1> USE LeaderIsPid DEF StopAt, Exact, Absent, HelperLost
<1>0. /\ GroupTypeOK /\ stop \in StopRecord /\ stop.at \in HelperSteps /\ stop.way = "helper"
      /\ stop.held = "no"
  BY StopTyped
     DEF StopInv, WaysApart, HelperSteps, HeldBetween, HoldingSteps, StopHelper, CheckZombie, CheckExact,
         OpenHelper, Corroborate, SendSignal, HelperExited, HelperTimesOut
<1>1. StillAsItWas /\ stop.signal \in {"term", "kill"}
  BY <1>0
     DEF StopRecord, StopHelper, CheckZombie, CheckExact, OpenHelper, Corroborate, SendSignal, HelperExited,
         HelperTimesOut
<1> USE <1>0, <1>1
<1>2. CASE CheckZombie
  BY <1>2, ReturnKeeps, RecordMoves, MoveKeeps
     DEF CheckZombie, HelperSteps, HoldingSteps, StopSteps, Running
<1>3. CASE CheckExact
  BY <1>3, ReturnKeeps, RecordMoves, MoveKeeps
     DEF CheckExact, HelperSteps, HoldingSteps, StopSteps, Owned, Running
<1>4. CASE OpenHelper
  BY <1>4, ReturnKeeps, RecordMoves, MoveKeeps
     DEF OpenHelper, HelperSteps, HoldingSteps, StopSteps, Running
<1>5. CASE Corroborate
  BY <1>5, ReturnKeeps, RecordMoves, MoveKeeps
     DEF Corroborate, HelperSteps, HoldingSteps, StopSteps, Owned, Running
<1>6. CASE SendSignal
  <2> USE <1>6 DEF SendSignal
  <2>1. CASE ~Exact /\ HelperLost
    BY <2>1, ReturnKeeps, RecordMoves, MoveKeeps
       DEF HelperSteps, HoldingSteps, StopSteps, Owned, Running
  <2>2. CASE /\ Exact /\ StopTo("await") /\ UNCHANGED outcome
             /\ table' = IF stop.signal = "kill" /\ LeaderIs \in {"run", "frozen"}
                         THEN [table EXCEPT ![Leader] = "dying"] ELSE table
    <3>1. /\ stop' \in StopRecord /\ stop'.at = "await" /\ stop'.way = "helper" /\ stop'.held = "no"
          /\ table \in [Pids -> Owned \union {"free", "stranger"}]
      BY <2>2, RecordMoves, StopTyped DEF HelperSteps, StopSteps
    <3>2. /\ table' \in [Pids -> Owned \union {"free", "stranger"}]
          /\ \A p \in Pids : /\ table'[p] \in Running <=> table[p] \in Running
                             /\ table[p] \notin Running => table'[p] = table[p]
                             /\ table'[p] # table[p] => table'[p] = "dying"
      BY <2>2, <3>1 DEF Owned, Running, LeaderIs
    <3>3. GroupTypeOK'
      BY <2>2, <3>1, <3>2, StopTyped
         DEF GroupTypeOK, StopRecord, StopSteps, HoldingSteps, HelperSteps, StillAsItWas
    <3> QED
      BY <2>2, <3>1, <3>2, <3>3
         DEF StopInv, NumberIsTaken, SparesOthers, HeldBetween, HeldIsFrozen, FrozenIsHeld, SearchedIsGone,
             WaysApart, StopsAll, Succeeded, HoldingSteps, HelperSteps, LeaderIs, Owned, Running,
             StillAsItWas
  <2> QED BY <2>1, <2>2
<1>7. CASE HelperExited
  BY <1>7, ReturnKeeps DEF HelperExited, Running
<1>8. CASE HelperTimesOut
  <2> USE <1>8 DEF HelperTimesOut
  <2>1. CASE Returns("failed")
    BY <2>1, ReturnKeeps
  <2>2. CASE stop' = [stop EXCEPT !.at = "zombie", !.signal = "kill"] /\ UNCHANGED <<table, outcome>>
    <3>1. stop' \in StopRecord /\ stop'.at = "zombie" /\ stop'.way = stop.way /\ stop'.held = stop.held
      BY <2>2 DEF StopRecord, StopSteps, HelperSteps
    <3> QED BY <2>2, <3>1, MoveKeeps DEF HoldingSteps, HelperSteps
  <2> QED BY <2>1, <2>2
<1> QED BY <1>2, <1>3, <1>4, <1>5, <1>6, <1>7, <1>8 DEF StopHelper

\* A stop begins, fails to read /proc, or dies.
LEMMA BoundaryKeeps ==
  ASSUME StopInv, ProbeFails \/ StopperDies \/ \E way \in Ways : BeginStop(way)
  PROVE  StopInv'
<1> USE LeaderIsPid DEF StopAt
<1>0. GroupTypeOK /\ stop \in StopRecord
  BY StopTyped DEF StopInv
<1>1. CASE ProbeFails
  BY <1>1, ReturnKeeps DEF ProbeFails
<1>2. Inactive.held = "no" /\ Inactive.at = "idle" /\ Inactive \in StopRecord
  <2>1. Leader \in Leader..(LastPid + 1)
    BY DEF Leader
  <2> QED BY <2>1 DEF Inactive, StopRecord, StopSteps, Ways
<1>3. CASE StopperDies
  <2>1. stop' \in StopRecord /\ stop'.at = "idle" /\ stop'.held = "no" /\ stop'.way = stop.way
    BY <1>0, <1>2, <1>3 DEF StopperDies, StopRecord
  <2>2. GroupTypeOK'
    BY <1>0, <1>3, <2>1, StopTyped
       DEF GroupTypeOK, StopperDies, StopRecord, StopSteps, HoldingSteps, HelperSteps
  <2> QED
    BY <1>3, <2>1, <2>2
       DEF StopperDies, StopInv, NumberIsTaken, SparesOthers, HeldBetween, HeldIsFrozen, FrozenIsHeld,
           SearchedIsGone, WaysApart, StopsAll, Succeeded, HoldingSteps, LeaderIs
<1>4. ASSUME NEW way \in Ways, BeginStop(way) PROVE StopInv'
  <2>1. /\ stop' \in StopRecord /\ stop'.held = "no" /\ stop'.way = way
        /\ stop'.at = IF way = "helper" THEN "zombie" ELSE "identify"
    BY <1>2, <1>4 DEF StopRecord, StopSteps, HelperSteps, BeginStop
  <2>2. /\ stop.at = "idle" /\ begun < Stops /\ begun' = begun + 1 /\ outcome' = "none"
        /\ UNCHANGED <<table, namesake, shuffled, struck, crashed>>
    BY <1>4 DEF BeginStop
  <2>3. begun' \in 0..Stops
    BY <1>0, <2>2, StopsAssumption DEF GroupTypeOK
  <2>4. GroupTypeOK'
    BY <1>0, <2>1, <2>2, <2>3, StopTyped
       DEF GroupTypeOK, StopRecord, StopSteps, HoldingSteps, HelperSteps
  <2>5. NumberIsTaken' /\ SparesOthers' /\ HeldBetween' /\ HeldIsFrozen' /\ SearchedIsGone' /\ WaysApart'
    BY <2>1, <2>2
       DEF StopInv, NumberIsTaken, SparesOthers, HeldBetween, HeldIsFrozen, SearchedIsGone, WaysApart,
           HoldingSteps, HelperSteps, LeaderIs
  <2>6. FrozenIsHeld' /\ StopsAll'
    BY <2>2 DEF StopInv, FrozenIsHeld, StopsAll, Succeeded, HoldingSteps, LeaderIs
  <2> QED BY <2>4, <2>5, <2>6 DEF StopInv
<1> QED BY <1>1, <1>3, <1>4

\* Nothing changes.
LEMMA StutterKeeps == ASSUME StopInv, UNCHANGED groupVars PROVE StopInv'
BY DEF groupVars, StopInv, GroupTypeOK, NumberIsTaken, SparesOthers, HeldBetween, HeldIsFrozen,
       FrozenIsHeld, SearchedIsGone, WaysApart, StopsAll, Succeeded, LeaderIs

-----------------------------------------------------------------------------

\* Every step of a group and of a stop keeps the invariant.
LEMMA StopStep == StopInv /\ [GroupNext]_groupVars => StopInv'
BY WorldKeeps, SignalKeeps, HoldKeeps, SearchKeeps, HelperKeeps, BoundaryKeeps, StutterKeeps
   DEF GroupNext, StopGroup

\* The invariant holds of every group and of every sequence of stops.
THEOREM GroupStopInvariant == GroupSpec => []StopInv
BY StopStep, StopStarts, PTL DEF GroupSpec

\* The pid table, the stop and its outcome keep their types.
THEOREM GroupTypeCorrect == GroupSpec => []GroupTypeOK
<1>1. StopInv => GroupTypeOK
  BY DEF StopInv
<1> QED BY <1>1, GroupStopInvariant, PTL

\* The invariant of a stop says what the property says.
LEMMA StopMeans == StopInv => StopIsExact
BY DEF StopInv, StopIsExact, LeavesNoneFrozen, FrozenIsHeld, HoldingSteps, StopAt

\* However the group forks and exits and pids are reused: a stop that
\* succeeds leaves nobody running, a held leader shields strangers, and a
\* stop that returns leaves no leader frozen.
THEOREM StopIsExactHolds == GroupSpec => []StopIsExact
BY StopMeans, GroupStopInvariant, PTL

-----------------------------------------------------------------------------
(* A control command and its descendants.                                  *)

\* Strangers have the number only after the child is reaped and its group
\* is empty, which it then stays: only a member forks one.
NumberIsPinned ==
  rival # "none" \/ tree[Child] = "stranger" => call.reaped /\ \A p \in Numbers : ~Member(p)

\* Nobody is reaped before the command, and a confirmation follows the reaping.
ReapedInTime ==
  /\ CallAt("idle") => ~call.reaped
  /\ call.at \in {"search", "found"} /\ call.search = "confirm" => call.reaped

\* A search that saw nobody so far has nobody behind it, unless one slipped.
SearchedHaveEnded ==
  /\ CallAt("search") /\ call.seen = "nobody" /\ ~slipped =>
       \A p \in Numbers : p < call.next => tree[p] \notin Living
  /\ CallAt("found") /\ call.seen = "nobody" /\ ~slipped => NobodyLives

\* Strangers of another session who stood there all along are not seen.
StoodUnseen ==
  call.at \in {"search", "found"} /\ stood /\ rival = "session" => call.seen = "nobody"

\* The inductive invariant of a command.
CommandInv ==
  /\ CommandTypeOK /\ NumberIsPinned /\ ReapedInTime /\ SearchedHaveEnded /\ StoodUnseen
  /\ NobodyHoldsPipes /\ KillsItsOwn

\* The child is the first member.
LEMMA ChildIsNumber ==
  Child \in Numbers /\ Numbers \subseteq Nat /\ LastMember \in Nat /\ Numbers = Child..LastMember /\ Child = 1
BY LastMemberAssumption DEF Child, Numbers

\* Before the command nobody runs.
LEMMA CommandStarts == CommandInit => CommandInv
<1> SUFFICES ASSUME CommandInit PROVE CommandInv
  OBVIOUS
<1> USE ChildIsNumber DEF CommandInit
<1>1. Child \in Child..(LastMember + 1) /\ "output" \in Uses
  BY DEF Uses
<1>2. CommandTypeOK
  BY <1>1 DEF CommandTypeOK
<1> QED
  BY <1>2 DEF CommandInv, NumberIsPinned, ReapedInTime, SearchedHaveEnded, StoodUnseen, NobodyHoldsPipes,
              KillsItsOwn, CallAt, Member, Living, NobodyLives

\* Processes only end, leave, or are born of a member: what is known of the
\* group stays true, unless a child is born behind the search.
LEMMA TreeKeeps == ASSUME CommandInv, TreeLives PROVE CommandInv'
<1> USE ChildIsNumber DEF TreeLives, Others
<1>1. ASSUME NEW p \in Numbers, NEW q \in Numbers, ForkMember(p, q) PROVE CommandInv'
  <2>1. /\ tree[p] = "run" /\ tree' = [tree EXCEPT ![q] = "run"] /\ tree[q] = "free" /\ q # Child
        /\ UNCHANGED <<rival, call, reader, stood, hit>>
        /\ slipped' = (slipped \/ (CallAt("search") /\ q < call.next /\ call.next <= p))
    BY <1>1 DEF ForkMember
  <2>2. Member(p) /\ tree[p] \in Living /\ rival = "none" /\ tree[Child] # "stranger"
    BY <2>1 DEF CommandInv, NumberIsPinned, Member, Living
  <2>3. CommandTypeOK'
    BY <2>1 DEF CommandInv, CommandTypeOK, Living
  <2>4. NumberIsPinned' /\ ReapedInTime' /\ StoodUnseen' /\ KillsItsOwn'
    BY <2>1, <2>2 DEF CommandInv, CommandTypeOK, NumberIsPinned, ReapedInTime, StoodUnseen, KillsItsOwn, CallAt
  <2>5. SearchedHaveEnded'
    <3>1. call.next \in Nat /\ slipped \in BOOLEAN /\ tree \in [Numbers -> Living \union {"free", "zombie", "away", "stranger"}]
      BY DEF CommandInv, CommandTypeOK
    <3>2. ASSUME CallAt("search"), call.seen = "nobody", ~slipped', NEW n \in Numbers, n < call.next
          PROVE  tree'[n] \notin Living
      <4>1. ~slipped /\ ~(p < call.next) /\ tree[n] \notin Living
        BY <2>1, <2>2, <3>1, <3>2 DEF CommandInv, SearchedHaveEnded
      <4>2. call.next <= p
        BY <3>1, <4>1
      <4>3. ~(q < call.next)
        BY <2>1, <3>2, <4>2
      <4>4. n # q
        BY <3>2, <4>3
      <4> QED BY <2>1, <3>1, <4>1, <4>4
    <3>3. ~(CallAt("found") /\ call.seen = "nobody" /\ ~slipped)
      BY <2>2 DEF CommandInv, SearchedHaveEnded, NobodyLives
    <3> QED BY <2>1, <3>2, <3>3 DEF SearchedHaveEnded, CallAt
  <2>6. NobodyHoldsPipes'
    BY <2>1, <2>2 DEF CommandInv, NobodyHoldsPipes, CallAt, NobodyLives
  <2> QED BY <2>3, <2>4, <2>5, <2>6 DEF CommandInv
<1>2. ASSUME NEW p \in Numbers, MemberLeaves(p) \/ MemberExits(p) \/ PidFreed(p) PROVE CommandInv'
  <2>1. PICK s \in {"away", "zombie", "free"} :
          /\ tree' = [tree EXCEPT ![p] = s]
          /\ s = "zombie" => tree[p] \in Living
          /\ UNCHANGED <<rival, call, reader, slipped, stood, hit>>
    BY <1>2 DEF MemberLeaves, MemberExits, PidFreed
  <2>2. CommandTypeOK'
    BY <2>1 DEF CommandInv, CommandTypeOK, Living
  <2>3. NumberIsPinned'
    BY <2>1 DEF CommandInv, CommandTypeOK, NumberIsPinned, Member, Living
  <2>4. ReapedInTime' /\ StoodUnseen' /\ KillsItsOwn'
    BY <2>1 DEF CommandInv, ReapedInTime, StoodUnseen, KillsItsOwn, CallAt
  <2>5. SearchedHaveEnded' /\ NobodyHoldsPipes'
    BY <2>1 DEF CommandInv, CommandTypeOK, SearchedHaveEnded, NobodyHoldsPipes, CallAt, NobodyLives, Living
  <2> QED BY <2>2, <2>3, <2>4, <2>5 DEF CommandInv
<1>3. CASE StrangerBorn
  <2>1. /\ call.reaped /\ \A p \in Numbers : ~Member(p)
        /\ tree' = [tree EXCEPT ![Child] = "stranger"]
        /\ UNCHANGED <<rival, call, reader, slipped, stood, hit>>
    BY <1>3 DEF StrangerBorn
  <2>2. CommandTypeOK' /\ NumberIsPinned'
    BY <2>1 DEF CommandInv, CommandTypeOK, NumberIsPinned, Member, Living
  <2>3. ReapedInTime' /\ StoodUnseen' /\ KillsItsOwn'
    BY <2>1 DEF CommandInv, ReapedInTime, StoodUnseen, KillsItsOwn, CallAt
  <2>4. SearchedHaveEnded' /\ NobodyHoldsPipes'
    BY <2>1 DEF CommandInv, CommandTypeOK, SearchedHaveEnded, NobodyHoldsPipes, CallAt, NobodyLives, Living
  <2> QED BY <2>2, <2>3, <2>4 DEF CommandInv
<1>4. CASE RivalGroup
  <2>1. /\ rival' \in {"none", "sibling", "session"} /\ ~stood'
        /\ rival' # "none" => rival # "none" \/ tree[Child] = "stranger"
        /\ UNCHANGED <<tree, slipped, call, reader, hit>>
    BY <1>4 DEF RivalGroup
  <2>2. CommandTypeOK' /\ NumberIsPinned'
    BY <2>1, <1>4 DEF RivalGroup, CommandInv, CommandTypeOK, NumberIsPinned, Member
  <2> QED
    BY <2>1, <2>2 DEF CommandInv, ReapedInTime, SearchedHaveEnded, StoodUnseen, NobodyHoldsPipes, KillsItsOwn,
                      CallAt, NobodyLives
<1>5. CASE ReaderEnds
  BY <1>5 DEF ReaderEnds, Aside, Unmoved, CommandInv, CommandTypeOK, NumberIsPinned, ReapedInTime,
              SearchedHaveEnded, StoodUnseen, NobodyHoldsPipes, KillsItsOwn, CallAt, NobodyLives, Member
<1> QED BY <1>1, <1>2, <1>3, <1>4, <1>5

\* What the caller knows of itself.
CallRecord ==
  [use : Uses,
   at : {"idle", "capture", "work", "shutdown", "probe", "search", "found", "direct", "reap",
         "unclean", "join", "returned"},
   reaped : BOOLEAN, error : BOOLEAN, doubt : BOOLEAN, search : {"signal", "confirm"},
   next : Child..(LastMember + 1), seen : {"nobody", "member", "sibling"},
   outcome : {"none", "ok", "failed", "unclean"}]

\* The call under the name of its type.
LEMMA CallTyped == CommandInv => call \in CallRecord
BY DEF CommandInv, CommandTypeOK, CallRecord

OffStage == {"capture", "work", "shutdown", "probe", "direct", "reap", "unclean"}

\* A step of the caller that starts, waits, probes or reaps: it searches for
\* nobody, adds nobody and does not join.
LEMMA StepKeeps ==
  ASSUME CommandInv, call' \in CallRecord, call'.at \in OffStage, call.reaped => call'.reaped,
         reader' \in {"none", "reading", "whole", "bad"},
         tree' \in [Numbers -> Living \union {"free", "zombie", "away", "stranger"}],
         \A p \in Numbers : Member(p)' => Member(p) \/ CallAt("idle"),
         tree'[Child] = "stranger" => tree[Child] = "stranger",
         Aside \/ Searches
  PROVE  CommandInv'
<1> USE ChildIsNumber
<1>0. UNCHANGED <<rival, slipped, hit>> /\ stood' \in BOOLEAN
  BY DEF CommandInv, CommandTypeOK, Aside, Searches, Unmoved
<1>1. CommandTypeOK'
  BY <1>0 DEF CommandInv, CommandTypeOK, CallRecord
<1>2. rival # "none" \/ tree[Child] = "stranger" => ~CallAt("idle")
  BY DEF CommandInv, NumberIsPinned, ReapedInTime
<1>3. NumberIsPinned'
  BY <1>0, <1>2 DEF CommandInv, NumberIsPinned
<1> QED
  BY <1>0, <1>1, <1>3 DEF CommandInv, ReapedInTime, SearchedHaveEnded, StoodUnseen, NobodyHoldsPipes, KillsItsOwn,
                          CallAt, OffStage

\* ... and one that moves no process at all, or only reaps the child.
LEMMA CallKeeps ==
  ASSUME CommandInv, UNCHANGED tree, call' \in CallRecord, call'.at \in OffStage, call.reaped => call'.reaped,
         reader' \in {"none", "reading", "whole", "bad"}, Aside \/ Searches
  PROVE  CommandInv'
<1>1. tree \in [Numbers -> Living \union {"free", "zombie", "away", "stranger"}]
  BY DEF CommandInv, CommandTypeOK
<1> QED BY <1>1, StepKeeps DEF Member

\* The child is reaped, after which its number may be anybody's.
LEMMA ReapKeeps ==
  ASSUME CommandInv, NEW step \in OffStage, NEW result \in {"none", "ok", "failed", "unclean"},
         ReapsChild(step, result), UNCHANGED reader, Aside
  PROVE  CommandInv'
<1> USE ChildIsNumber, CallTyped
<1>1. tree' = [tree EXCEPT ![Child] = "free"]
  BY DEF ReapsChild
<1>2. /\ tree' \in [Numbers -> Living \union {"free", "zombie", "away", "stranger"}]
      /\ \A p \in Numbers : Member(p)' => Member(p)
      /\ reader \in {"none", "reading", "whole", "bad"}
      /\ tree'[Child] # "stranger"
  BY <1>1 DEF CommandInv, CommandTypeOK, Member, Living
<1>3. call' \in CallRecord /\ call'.at \in OffStage /\ call'.reaped
  BY DEF ReapsChild, CallRecord, OffStage
<1> QED BY <1>2, <1>3, StepKeeps

\* The wait for the command, until it ends or has to be ended.
LEMMA WaitKeeps ==
  ASSUME CommandInv,
         \/ CaptureGroup \/ CommandExits \/ AnswerArrives \/ DeadlinePasses \/ AwaitShutdown
         \/ \E use \in Uses : SpawnCommand(use)
  PROVE  CommandInv'
<1> USE ChildIsNumber, CallTyped
<1>0. reader \in {"none", "reading", "whole", "bad"} /\ call.outcome \in {"none", "ok", "failed", "unclean"}
  BY DEF CommandInv, CommandTypeOK, CallRecord
<1>1. CASE CaptureGroup
  <2>1. /\ UNCHANGED tree /\ Aside /\ reader' \in {"none", "reading", "whole", "bad"}
        /\ call' \in CallRecord /\ call'.at \in OffStage /\ (call.reaped => call'.reaped)
    BY <1>0, <1>1 DEF CaptureGroup, CallTo, CallRecord, OffStage
  <2> QED BY <2>1, CallKeeps
<1>2. CASE CommandExits
  BY <1>2, ReapKeeps DEF CommandExits, OffStage
<1>3. CASE AnswerArrives \/ DeadlinePasses
  <2>1. /\ UNCHANGED <<tree, reader>> /\ Aside
        /\ call' \in CallRecord /\ call'.at \in OffStage /\ (call.reaped => call'.reaped)
    BY <1>3 DEF AnswerArrives, DeadlinePasses, CallRecord, OffStage
  <2> QED BY <1>0, <2>1, CallKeeps
<1>4. CASE AwaitShutdown
  <2>1. CASE ReapsChild("probe", call.outcome)
    BY <1>0, <1>4, <2>1, ReapKeeps DEF AwaitShutdown, OffStage
  <2>2. CASE CallTo("probe") /\ UNCHANGED tree
    <3>1. call' \in CallRecord /\ call'.at \in OffStage /\ (call.reaped => call'.reaped)
      BY <2>2 DEF CallTo, CallRecord, OffStage
    <3> QED BY <1>0, <1>4, <2>2, <3>1, CallKeeps DEF AwaitShutdown
  <2> QED BY <1>4, <2>1, <2>2 DEF AwaitShutdown
<1>5. ASSUME NEW use \in Uses, SpawnCommand(use) PROVE CommandInv'
  <2>1. /\ tree' \in [Numbers -> Living \union {"free", "zombie", "away", "stranger"}]
        /\ reader' \in {"none", "reading", "whole", "bad"}
        /\ tree'[Child] # "stranger"
    BY <1>0, <1>5 DEF SpawnCommand, CommandInv, CommandTypeOK, Living
  <2>2. call' \in CallRecord /\ call'.at \in OffStage /\ (call.reaped => call'.reaped)
    BY <1>5 DEF SpawnCommand, CallRecord, OffStage
  <2> QED BY <1>5, <2>1, <2>2, StepKeeps DEF SpawnCommand
<1> QED BY <1>1, <1>2, <1>3, <1>4, <1>5

\* A search begins with nobody behind it; one that confirms, after the reaping.
LEMMA SearchStarts ==
  ASSUME CommandInv, NEW doubt \in BOOLEAN, NEW for \in {"signal", "confirm"}, for = "confirm" => call.reaped,
         ~CallAt("idle"), call' = [SearchFor(for) EXCEPT !.doubt = doubt], UNCHANGED <<tree, reader>>, Searches
  PROVE  CommandInv'
<1> USE ChildIsNumber, CallTyped
<1>0. Child \in Child..(LastMember + 1)
  OBVIOUS
<1>1. /\ call' \in CallRecord /\ call'.at = "search" /\ call'.search = for /\ call'.next = Child
      /\ call'.seen = "nobody" /\ (call'.reaped <=> call.reaped)
  BY <1>0 DEF SearchFor, CallRecord
<1>2. CommandTypeOK'
  BY <1>1 DEF CommandInv, CommandTypeOK, CallRecord, Searches, Unmoved
<1>3. NumberIsPinned'
  BY <1>1 DEF CommandInv, NumberIsPinned, Searches, Unmoved, Member
<1>4. ReapedInTime' /\ StoodUnseen' /\ NobodyHoldsPipes' /\ KillsItsOwn'
  BY <1>1 DEF CommandInv, ReapedInTime, StoodUnseen, NobodyHoldsPipes, KillsItsOwn, CallAt, Searches, Unmoved
<1>5. SearchedHaveEnded'
  <2>1. \A p \in Numbers : ~(p < Child)
    OBVIOUS
  <2> QED BY <1>1, <2>1 DEF SearchedHaveEnded, CallAt
<1> QED BY <1>2, <1>3, <1>4, <1>5 DEF CommandInv

\* What a search sees, and what it has not seen.
LEMMA CommandSearchKeeps ==
  ASSUME CommandInv, ReadEntry \/ ReadRest \/ MemberSeen
  PROVE  CommandInv'
<1> USE ChildIsNumber, CallTyped
<1>0. call.next \in Nat /\ tree \in [Numbers -> Living \union {"free", "zombie", "away", "stranger"}]
  BY DEF CommandInv, CommandTypeOK
<1>1. UNCHANGED <<tree, reader, rival, slipped, stood, hit>>
  BY DEF ReadEntry, ReadRest, MemberSeen, Aside, Unmoved
<1>2. /\ call' \in CallRecord /\ call'.at \in {"search", "found"} /\ call.at = "search"
      /\ call'.search = call.search /\ (call'.reaped <=> call.reaped)
  <2>1. call.next \in Numbers => call.next + 1 \in Child..(LastMember + 1)
    BY <1>0
  <2>2. CASE ReadEntry
    BY <2>1, <2>2 DEF ReadEntry, CallAt, CallRecord
  <2>3. CASE ReadRest \/ MemberSeen
    BY <2>3 DEF ReadRest, MemberSeen, CallAt, CallTo, CallRecord
  <2> QED BY <2>2, <2>3
<1>3. CommandTypeOK'
  BY <1>1, <1>2 DEF CommandInv, CommandTypeOK, CallRecord
<1>4. NumberIsPinned' /\ ReapedInTime' /\ NobodyHoldsPipes' /\ KillsItsOwn'
  BY <1>1, <1>2 DEF CommandInv, NumberIsPinned, ReapedInTime, NobodyHoldsPipes, KillsItsOwn, CallAt, Member
<1>5. CASE ReadEntry
  <2>1. /\ call.next \in Numbers /\ call.seen = "nobody" /\ call'.at = "search" /\ call'.next = call.next + 1
        /\ call'.seen = IF tree[call.next] \in Living THEN "member" ELSE "nobody"
    BY <1>5, <1>2 DEF ReadEntry, CallRecord
  <2>2. SearchedHaveEnded'
    <3>1. ASSUME call'.seen = "nobody", ~slipped, NEW p \in Numbers, p < call.next + 1
          PROVE  tree[p] \notin Living
      BY <1>0, <1>2, <2>1, <3>1 DEF CommandInv, SearchedHaveEnded, CallAt
    <3> QED BY <1>1, <2>1, <3>1 DEF SearchedHaveEnded, CallAt
  <2>3. StoodUnseen'
    BY <1>1, <2>1 DEF CommandInv, StoodUnseen, NumberIsPinned, Member
  <2> QED BY <1>3, <1>4, <2>2, <2>3 DEF CommandInv
<1>6. CASE ReadRest
  <2>1. /\ call.next = LastMember + 1 /\ call.seen = "nobody" /\ call'.at = "found"
        /\ call'.seen = IF rival = "sibling" THEN "sibling" ELSE "nobody"
    BY <1>6, <1>2 DEF ReadRest, CallRecord
  <2>2. ~slipped => NobodyLives
    BY <1>2, <2>1 DEF CommandInv, SearchedHaveEnded, CallAt, NobodyLives
  <2>3. SearchedHaveEnded' /\ StoodUnseen'
    BY <1>1, <2>1, <2>2 DEF SearchedHaveEnded, StoodUnseen, CallAt, NobodyLives
  <2> QED BY <1>3, <1>4, <2>3 DEF CommandInv
<1>7. CASE MemberSeen
  <2>1. call.seen = "member" /\ call'.seen = "member"
    BY <1>7 DEF MemberSeen, CallTo, CallRecord
  <2>2. SearchedHaveEnded' /\ StoodUnseen'
    BY <1>1, <1>2, <2>1 DEF CommandInv, SearchedHaveEnded, StoodUnseen, CallAt
  <2> QED BY <1>3, <1>4, <2>2 DEF CommandInv
<1> QED BY <1>5, <1>6, <1>7

\* The probe, the signal, the reaping and the confirmation.
LEMMA CleanUpKeeps == ASSUME CommandInv, CleanUpChild PROVE CommandInv'
<1> USE ChildIsNumber, CallTyped
<1>0. /\ reader \in {"none", "reading", "whole", "bad"} /\ call.outcome \in {"none", "ok", "failed", "unclean"}
      /\ call.doubt \in BOOLEAN
  BY DEF CommandInv, CommandTypeOK, CallRecord
<1>1. CASE ProbeGroup
  <2>1. CASE GroupExists
    <3>1. PICK doubt \in {FALSE, Obstructed} : call' = [SearchFor("signal") EXCEPT !.doubt = doubt]
      BY <1>1, <2>1 DEF ProbeGroup
    <3> QED BY <1>1, <2>1, <3>1, SearchStarts, ObstructedAssumption DEF ProbeGroup, CallAt
  <2>2. CASE ~GroupExists
    <3>1. call' \in CallRecord /\ call'.at \in OffStage /\ (call.reaped => call'.reaped)
      BY <1>1, <2>2 DEF ProbeGroup, CallTo, CallRecord, OffStage
    <3> QED BY <1>0, <1>1, <2>2, <3>1, CallKeeps DEF ProbeGroup
  <2> QED BY <2>1, <2>2
<1>2. CASE SearchFails \/ NobodyToKill \/ KillRefused \/ ConfirmExpires
  <2>1. /\ UNCHANGED <<tree, reader>> /\ Aside
        /\ call' \in CallRecord /\ call'.at \in OffStage /\ (call.reaped => call'.reaped)
    BY <1>0, <1>2 DEF SearchFails, NobodyToKill, KillRefused, ConfirmExpires, Unproven, CallRecord, OffStage
  <2> QED BY <1>0, <2>1, CallKeeps
<1>3. CASE KillGroup
  <2>1. /\ CallAt("found") /\ call.seen # "nobody" /\ UNCHANGED <<rival, slipped, stood, reader>>
        /\ tree' = [p \in Numbers |-> IF tree[p] = "run" THEN "killed" ELSE tree[p]]
        /\ call' \in CallRecord /\ call'.at = "direct" /\ (call'.reaped <=> call.reaped)
    BY <1>0, <1>3 DEF KillGroup, CallRecord
  <2>2. hit' \in {"nobody", "sibling", "newcomer"}
    BY <1>3, <2>1 DEF KillGroup, CommandInv, CommandTypeOK, NumberIsPinned, StoodUnseen, CallAt
  <2>3. CommandTypeOK'
    BY <2>1, <2>2 DEF CommandInv, CommandTypeOK, CallRecord, Living
  <2>4. NumberIsPinned'
    BY <2>1 DEF CommandInv, CommandTypeOK, NumberIsPinned, Member, Living
  <2>5. ReapedInTime' /\ SearchedHaveEnded' /\ StoodUnseen' /\ NobodyHoldsPipes' /\ KillsItsOwn'
    BY <2>1, <2>2 DEF ReapedInTime, SearchedHaveEnded, StoodUnseen, NobodyHoldsPipes, KillsItsOwn, CallAt
  <2> QED BY <2>3, <2>4, <2>5 DEF CommandInv
<1>4. CASE StopChild
  <2>1. CASE ReapsChild("reap", call.outcome)
    BY <1>0, <1>4, <2>1, ReapKeeps DEF StopChild, OffStage
  <2>2. CASE /\ tree' = IF ~call.reaped /\ tree[Child] = "run" THEN [tree EXCEPT ![Child] = "killed"] ELSE tree
             /\ CallTo("reap")
    <3>1. /\ tree' \in [Numbers -> Living \union {"free", "zombie", "away", "stranger"}]
          /\ \A p \in Numbers : Member(p)' => Member(p)
          /\ tree'[Child] = "stranger" => tree[Child] = "stranger"
      BY <2>2 DEF CommandInv, CommandTypeOK, Member, Living
    <3>2. call' \in CallRecord /\ call'.at \in OffStage /\ (call.reaped => call'.reaped)
      BY <2>2 DEF CallTo, CallRecord, OffStage
    <3> QED BY <1>0, <1>4, <3>1, <3>2, StepKeeps DEF StopChild
  <2> QED BY <1>4, <2>1, <2>2 DEF StopChild
<1>5. CASE ReapChild
  BY <1>0, <1>5, ReapKeeps DEF ReapChild, OffStage
<1>6. CASE ConfirmGroup
  <2>1. UNCHANGED <<tree, reader>> /\ Searches /\ call.reaped /\ ~CallAt("idle")
    BY <1>6 DEF ConfirmGroup, CallAt
  <2>2. CASE call.error
    <3>1. call' \in CallRecord /\ call'.at \in OffStage /\ (call.reaped => call'.reaped)
      BY <1>6, <2>2 DEF ConfirmGroup, CallRecord, OffStage
    <3> QED BY <1>0, <2>1, <3>1, CallKeeps
  <2>3. CASE ~call.error
    <3>1. call' = [SearchFor("confirm") EXCEPT !.doubt = call.doubt]
      BY <1>6, <2>3 DEF ConfirmGroup, SearchFor, CallRecord
    <3> QED BY <1>0, <2>1, <3>1, SearchStarts
  <2> QED BY <2>2, <2>3
<1>7. CASE SearchAgain
  <2>1. call' = [SearchFor("confirm") EXCEPT !.doubt = call.doubt]
    BY <1>7 DEF SearchAgain, SearchFor, CallRecord
  <2>2. call.reaped /\ ~CallAt("idle")
    BY <1>7 DEF SearchAgain, SomebodyConfirmed, CommandInv, ReapedInTime, CallAt
  <2> QED BY <1>0, <1>7, <2>1, <2>2, SearchStarts DEF SearchAgain
<1>8. CASE GroupGone
  <2>1. /\ UNCHANGED <<tree, reader, rival, slipped, stood, hit>> /\ call.reaped
        /\ call' \in CallRecord /\ call'.at = "join" /\ call'.reaped /\ (~slipped => NobodyLives)
    BY <1>8 DEF GroupGone, Aside, Unmoved, CallTo, CallRecord, CommandInv, ReapedInTime, SearchedHaveEnded, CallAt
  <2>2. CommandTypeOK' /\ NumberIsPinned'
    BY <2>1 DEF CommandInv, CommandTypeOK, CallRecord, NumberIsPinned, Member
  <2>3. ReapedInTime' /\ SearchedHaveEnded' /\ StoodUnseen' /\ NobodyHoldsPipes' /\ KillsItsOwn'
    BY <2>1 DEF CommandInv, ReapedInTime, SearchedHaveEnded, StoodUnseen, NobodyHoldsPipes, KillsItsOwn, CallAt,
                NobodyLives
  <2> QED BY <2>2, <2>3 DEF CommandInv
<1>9. CASE ReadEntry \/ ReadRest \/ MemberSeen
  BY <1>9, CommandSearchKeeps
<1> QED BY <1>1, <1>2, <1>3, <1>4, <1>5, <1>6, <1>7, <1>8, <1>9 DEF CleanUpChild

\* The readers are joined, or left behind.
LEMMA EndKeeps == ASSUME CommandInv, JoinReaders \/ LeaveReaders PROVE CommandInv'
<1> USE ChildIsNumber, CallTyped
<1>1. /\ UNCHANGED <<tree, reader, rival, slipped, stood, hit>>
      /\ call' \in CallRecord /\ call'.at = "returned" /\ (call'.reaped <=> call.reaped)
      /\ call'.outcome = "unclean" \/ CallAt("join")
  BY DEF JoinReaders, LeaveReaders, CallReturns, Aside, Unmoved, CallRecord
<1>2. CommandTypeOK' /\ NumberIsPinned'
  BY <1>1 DEF CommandInv, CommandTypeOK, CallRecord, NumberIsPinned, Member
<1>3. ReapedInTime' /\ SearchedHaveEnded' /\ StoodUnseen' /\ NobodyHoldsPipes' /\ KillsItsOwn'
  BY <1>1 DEF CommandInv, ReapedInTime, SearchedHaveEnded, StoodUnseen, NobodyHoldsPipes, KillsItsOwn, CallAt,
              NobodyLives
<1> QED BY <1>2, <1>3 DEF CommandInv

\* Every step of a call and of its descendants keeps the invariant.
LEMMA CommandStep == CommandInv /\ [CommandNext]_commandVars => CommandInv'
<1>1. ASSUME CommandInv, UNCHANGED commandVars PROVE CommandInv'
  BY <1>1 DEF commandVars, CommandInv, CommandTypeOK, NumberIsPinned, ReapedInTime, SearchedHaveEnded, StoodUnseen,
              NobodyHoldsPipes, KillsItsOwn, CallAt, Member, NobodyLives
<1> QED BY <1>1, TreeKeeps, WaitKeeps, CleanUpKeeps, EndKeeps DEF CommandNext, CallSteps

\* The invariant holds of every command, whatever its descendants do.
THEOREM CommandInvariant == CommandSpec => []CommandInv
BY CommandStep, CommandStarts, PTL DEF CommandSpec

\* The call, its descendants and the number of its group keep their types.
THEOREM CommandTypeCorrect == CommandSpec => []CommandTypeOK
<1>1. CommandInv => CommandTypeOK
  BY DEF CommandInv
<1> QED BY <1>1, CommandInvariant, PTL

\* However its descendants fork, leave and exit and whoever takes its number:
\* a command that returns without an error of its cleanup is stopped whole,
\* and strangers who were there all along are spared.
THEOREM CommandIsContainedHolds == CommandSpec => []CommandIsContained
<1>1. CommandInv => CommandIsContained
  BY DEF CommandInv, CommandIsContained
<1> QED BY <1>1, CommandInvariant, PTL
=============================================================================
