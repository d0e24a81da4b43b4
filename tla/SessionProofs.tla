---------------------------- MODULE SessionProofs ---------------------------
(***************************************************************************)
(* The OpenCode sessions, for any number of processes and generations and  *)
(* whoever is killed.  SessionCreation: the sessions of a Workstream are   *)
(* posted once, and a server that its guardian left behind is never        *)
(* followed by another generation.  SessionObserver: a completed message   *)
(* asks for attention once, and a handle that is Ready has an observer     *)
(* behind it.                                                              *)
(***************************************************************************)
EXTENDS SessionCreation, SessionObserver, TLAPS

-----------------------------------------------------------------------------
(* Creation.                                                               *)

\* A process of these steps owns the generation it reserved.
Owning == {"rebind", "unlaunched", "prepare", "spawn", "await_ready", "begin", "post",
           "verify", "close", "await_exit", "commit", "unknown", "cleanup_unknown",
           "known_absent", "launch"}

\* Guardians that leave no server.
ServerGone == {"none", "exited"}

CreatorOwns(c, g) == creator[c].at \in Owning /\ GenOf(c) = g

\* What the step of an owner says of its generation: the operation s, the
\* POSTs n and the guardian w.
ClaimOK(o, s, n, w) ==
  /\ o.at \in {"rebind", "prepare"} => s = "none"
  /\ o.at = "rebind" => o.session # 0
  /\ o.at \in {"spawn", "await_ready", "begin", "cleanup_unknown", "known_absent"} => s = "prepared"
  /\ o.at \in {"spawn", "known_absent", "unlaunched"} => w \in ServerGone
  /\ o.at \in {"post", "verify", "commit", "unknown"} => s = "external_effect_started"
  /\ o.at = "post" => n = 0
  /\ o.at \in {"verify", "commit"} => n = 1
  /\ o.at \in {"close", "await_exit"} =>
       s \in Unresolved /\ (o.ok => n = 1 /\ s = "external_effect_started")
  /\ o.at = "unlaunched" => s \in {"none", "prepared", "failed"} /\ n = 0
  /\ o.at = "launch" => s \in {"none", "committed"}

CreationClaim(c) == creator[c].at \in Owning =>
  /\ GenOf(c) \in 1..runtimeRow.gen /\ creator[c].row.status = "starting"
  /\ Doing(c, "unlaunched") /\ creation[GenOf(c)] = "prepared" => ~ StillStarting(c)
  /\ ClaimOK(creator[c], creation[GenOf(c)], posted[GenOf(c)], guardian[GenOf(c)])

OneOwner == \A c, d \in Creators : creator[c].at \in Owning /\ creator[d].at \in Owning
                                   /\ GenOf(c) = GenOf(d) => c = d

\* The operation, the POSTs and the processes of one generation.
Cell(g) ==
  /\ posted[g] \in {0, 1}
  /\ creation[g] = "none" => posted[g] = 0 /\ guardian[g] = "none"
  /\ creation[g] = "prepared" => posted[g] = 0
  /\ creation[g] = "committed" => posted[g] = 1 /\ binding # Unbound
  /\ helper[g] = "serving" => guardian[g] \notin ServerGone \union {"spawned"}
  /\ runtimeRow.gen < g => creation[g] = "none"

\* A generation that runs in the pane is no longer being created.
PaneApart ==
  pane # 0 => /\ pane <= runtimeRow.gen
              /\ creation[pane] \in {"none", "committed"}
              /\ \A c \in Creators : ~ CreatorOwns(c, pane)

\* A generation whose creation may have left a session or a server behind.
Dirty(g) ==
  \/ creation[g] \in Unresolved
  \/ creation[g] = "failed" /\ (posted[g] = 1 \/ guardian[g] \notin ServerGone)

\* Behind such a generation the Workstream is in recovery, stays at this
\* generation unless it has a session to resume, and creates nothing more.
CreationFence(g) == Dirty(g) =>
  /\ \/ lifecycle = "recovery_required"
     \/ runtimeRow.gen = g /\ runtimeRow.status = "starting" /\ creation[g] \in Unresolved
  /\ binding = Unbound => runtimeRow.gen = g
  /\ \A h \in Generations : g < h => creation[h] = "none"

\* A Runtime that starts in recovery resumes its session.
RecoveryResumes ==
  lifecycle = "recovery_required" /\ runtimeRow.status = "starting" =>
    \A c \in Creators : Doing(c, "prepare") => GenOf(c) # runtimeRow.gen

Bound == (binding.session = 0 => binding = Unbound) /\ BoundIsPosted

CInv == /\ \A c \in Creators : CreationClaim(c)
        /\ OneOwner
        /\ \A g \in Generations : Cell(g) /\ CreationFence(g)
        /\ PaneApart /\ RecoveryResumes /\ Bound

-----------------------------------------------------------------------------
(* Types.                                                                  *)

CreatorState == [at : CreatorSteps, row : Rows, session : 0..LastGeneration, ok : BOOLEAN]

\* The row of the next generation.
LEMMA NextGenerationTyped ==
  ASSUME SessionTypeOK, runtimeRow.gen < LastGeneration
  PROVE  /\ NextGeneration \in Rows
         /\ NextGeneration.gen = runtimeRow.gen + 1 /\ NextGeneration.gen \in Generations
         /\ NextGeneration.status = "starting"
BY LastGenerationAssumption DEF NextGeneration, SessionTypeOK, Rows, Generations

\* Initially every variable has its type.
LEMMA SessionTypeInit == SessionInit => SessionTypeOK
BY LastGenerationAssumption DEF SessionInit, SessionTypeOK, Rows, NoRow, Unbound, Generations,
   CreatorSteps, Unresolved, GuardianExits

\* A process takes a step of its program and changes nothing else of its own.
LEMMA ThenMoves ==
  ASSUME SessionTypeOK, NEW c \in Creators, NEW step \in CreatorSteps, Then(c, step)
  PROVE  /\ creator' \in [Creators -> CreatorState]
         /\ creator'[c].at = step /\ creator'[c].row = creator[c].row
         /\ creator'[c].session = creator[c].session /\ creator'[c].ok = creator[c].ok
         /\ \A d \in Creators \ {c} : creator'[d] = creator[d]
BY DEF SessionTypeOK, CreatorState, Then

\* The same when the step leaves a result.
LEMMA BoundaryMoves ==
  ASSUME SessionTypeOK, NEW c \in Creators, NEW step \in CreatorSteps, NEW ok \in BOOLEAN,
         Boundary(c, step, ok)
  PROVE  /\ creator' \in [Creators -> CreatorState]
         /\ creator'[c].at = step /\ creator'[c].row = creator[c].row
         /\ creator'[c].session = creator[c].session /\ creator'[c].ok = ok
         /\ \A d \in Creators \ {c} : creator'[d] = creator[d]
BY DEF SessionTypeOK, CreatorState, Boundary

\* A process puts a record of its own in place of the one it had.
LEMMA PutMoves ==
  ASSUME SessionTypeOK, NEW c \in Creators, NEW x \in CreatorState,
         creator' = [creator EXCEPT ![c] = x]
  PROVE  /\ creator' \in [Creators -> CreatorState]
         /\ creator'[c] = x
         /\ \A d \in Creators \ {c} : creator'[d] = creator[d]
BY DEF SessionTypeOK, CreatorState

\* A process that keeps what it read starts a new action or a new generation.
LEMMA FieldsTyped ==
  ASSUME NEW o \in CreatorState, NEW r \in Rows, NEW at \in CreatorSteps, NEW n \in 0..LastGeneration
  PROVE  /\ [[[o EXCEPT !.row = r] EXCEPT !.at = at] EXCEPT !.session = n] \in CreatorState
         /\ [[o EXCEPT !.row = r] EXCEPT !.at = at] \in CreatorState
BY DEF CreatorState

\* The row while its generation stays.
LEMMA RowMoves ==
  ASSUME SessionTypeOK
  PROVE  /\ RequireRecovery => /\ runtimeRow' \in Rows /\ runtimeRow'.gen = runtimeRow.gen
                               /\ runtimeRow'.status = "unknown"
                               /\ lifecycle' = "recovery_required"
         /\ MarkStopped => /\ runtimeRow' \in Rows /\ runtimeRow'.gen = runtimeRow.gen
                           /\ runtimeRow'.status = "stopped"
BY DEF SessionTypeOK, Rows, RequireRecovery, MarkStopped

\* The operation of one generation.
LEMMA CreatorMoves ==
  ASSUME SessionTypeOK, NEW g, NEW s \in Unresolved \union {"committed", "failed"},
         creation' = [creation EXCEPT ![g] = s]
  PROVE  /\ creation' \in [Generations -> Unresolved \union {"none", "committed", "failed"}]
         /\ g \in Generations => creation'[g] = s
         /\ \A h \in Generations \ {g} : creation'[h] = creation[h]
BY DEF SessionTypeOK

\* Every step keeps the types.
LEMMA SessionTypeStep == SessionTypeOK /\ CInv /\ [SessionNext]_sessionVars => SessionTypeOK'
<1> SUFFICES ASSUME SessionTypeOK, CInv, [SessionNext]_sessionVars PROVE SessionTypeOK'
  OBVIOUS
<1>a. CASE UNCHANGED sessionVars
  BY <1>a DEF sessionVars, SessionTypeOK
<1>b. ASSUME NEW c \in Creators, ReadOverview(c) \/ Recover(c) \/ InspectRuntime(c) \/ CreateSession(c) \/ KillCreator(c)
      PROVE SessionTypeOK'
  <2> USE DEF Nothing, rows, serving
  <2>o. SessionTypeOK /\ creator[c] \in CreatorState
    BY DEF SessionTypeOK, CreatorState
  <2>1. CASE ReadOverview(c)
    BY <2>1, ThenMoves DEF SessionTypeOK, CreatorSteps, CreatorState, ReadOverview
  <2>2. CASE Recover(c)
    <3> DEFINE x == [at |-> "launch", row |-> NextGeneration, session |-> binding.session, ok |-> FALSE]
    <3>1. NextGeneration \in Rows /\ NextGeneration.gen \in 0..LastGeneration
      BY <2>2, NextGenerationTyped DEF Recover, Generations
    <3>2. x \in CreatorState
      BY <3>1 DEF SessionTypeOK, CreatorState, CreatorSteps
    <3>3. creator' = [creator EXCEPT ![c] = x]
      BY <2>2 DEF Recover
    <3> HIDE DEF x
    <3>4. creator' \in [Creators -> CreatorState]
      BY <3>2, <3>3, PutMoves
    <3>5. UNCHANGED <<lifecycle, creation, guardian, helper, lease, posted, pane>>
          /\ runtimeRow' = NextGeneration /\ binding' = [binding EXCEPT !.gen = NextGeneration.gen]
      BY <2>2 DEF Recover
    <3> QED BY <3>1, <3>4, <3>5 DEF SessionTypeOK, CreatorState
  <2>3. CASE KillCreator(c)
    BY <2>3, ThenMoves DEF SessionTypeOK, CreatorSteps, CreatorState, KillCreator
  <2>4. CASE InspectRuntime(c)
    <3>1. CASE InspectPrior(c)
      <4> DEFINE x == [[[creator[c] EXCEPT !.row = runtimeRow]
                        EXCEPT !.at = IF runtimeRow = NoRow THEN "reserve" ELSE "probe"]
                        EXCEPT !.session = 0]
      <4>1. x \in CreatorState
        <5>1. (IF runtimeRow = NoRow THEN "reserve" ELSE "probe") \in CreatorSteps
          BY DEF CreatorSteps
        <5>2. runtimeRow \in Rows /\ creator[c] \in CreatorState /\ 0 \in 0..LastGeneration
          BY LastGenerationAssumption DEF SessionTypeOK, CreatorState
        <5> QED BY <5>1, <5>2, FieldsTyped
      <4>2. creator' = [creator EXCEPT ![c] = x]
        BY <3>1 DEF InspectPrior
      <4> QED BY <3>1, <4>1, <4>2, PutMoves DEF InspectPrior, SessionTypeOK, CreatorState
    <3>2. CASE ProbeLive(c)
      BY <3>2, ThenMoves DEF SessionTypeOK, CreatorSteps, CreatorState, ProbeLive
    <3>3. CASE ProbeMissing(c)
      BY <3>3, ThenMoves DEF SessionTypeOK, CreatorSteps, CreatorState, ProbeMissing
    <3>4. CASE MissingIsLost(c)
      BY <3>4, ThenMoves, RowMoves DEF SessionTypeOK, CreatorSteps, CreatorState, MissingIsLost
    <3>5. CASE MissingIsClean(c)
      BY <3>5, ThenMoves DEF SessionTypeOK, CreatorSteps, CreatorState, MissingIsClean
    <3>6. CASE MissingIsStopped(c)
      BY <3>6, ThenMoves, RowMoves DEF SessionTypeOK, CreatorSteps, CreatorState, MissingIsStopped
    <3>7. CASE ReadBinding(c)
      <4> DEFINE x == [[creator[c] EXCEPT !.session = binding.session] EXCEPT !.at = "reserve"]
      <4>1. x \in CreatorState
        BY DEF SessionTypeOK, CreatorState, CreatorSteps
      <4>2. creator' = [creator EXCEPT ![c] = x]
        BY <3>7 DEF ReadBinding
      <4> QED BY <3>7, <4>1, <4>2, PutMoves DEF ReadBinding, SessionTypeOK, CreatorState
    <3> QED BY <2>4, <3>1, <3>2, <3>3, <3>4, <3>5, <3>6, <3>7 DEF InspectRuntime
  <2>5. CASE CreateSession(c)
    <3>1. CASE Reserve(c)
      <4> DEFINE x == [[creator[c] EXCEPT !.row = NextGeneration]
                        EXCEPT !.at = IF creator[c].session = 0 THEN "prepare" ELSE "rebind"]
      <4>1. NextGeneration \in Rows
        BY <3>1, NextGenerationTyped DEF Reserve
      <4>2. x \in CreatorState
        BY <4>1 DEF SessionTypeOK, CreatorState, CreatorSteps
      <4>3. creator' = [creator EXCEPT ![c] = x]
        BY <3>1 DEF Reserve
      <4> HIDE DEF x
      <4>4. creator' \in [Creators -> CreatorState]
        BY <4>2, <4>3, PutMoves
      <4> QED BY <3>1, <4>1, <4>4 DEF Reserve, SessionTypeOK, CreatorState
    <3>2. CASE ReserveRefused(c)
      BY <3>2, ThenMoves DEF SessionTypeOK, CreatorSteps, CreatorState, ReserveRefused
    <3>3. CASE Rebind(c)
      <4>1. Then(c, "launch") \/ Then(c, "unlaunched")
        BY <3>3 DEF Rebind
      <4>2. creator' \in [Creators -> CreatorState]
        BY <4>1, ThenMoves DEF CreatorSteps
      <4>3. GenOf(c) \in 0..LastGeneration
        BY DEF GenOf, SessionTypeOK, Rows
      <4>4. binding' \in [session : 0..LastGeneration, gen : 0..LastGeneration]
        BY <3>3, <4>3 DEF Rebind, SessionTypeOK
      <4> QED BY <3>3, <4>2, <4>4 DEF Rebind, SessionTypeOK, CreatorState
    <3>4. CASE FailUnlaunched(c)
      BY <3>4, ThenMoves, RowMoves DEF SessionTypeOK, CreatorSteps, CreatorState, FailUnlaunched
    <3>5. CASE Prepare(c)
      BY <3>5, ThenMoves, CreatorMoves DEF SessionTypeOK, CreatorSteps, CreatorState, Prepare, Unresolved
    <3>6. CASE SpawnGuardian(c)
      <4>1. GenOf(c) \in Generations
        BY <3>6, LastGenerationAssumption DEF SpawnGuardian, Doing, CInv, CreationClaim, Owning, Generations, SessionTypeOK, Rows, GenOf
      <4> QED BY <3>6, <4>1, ThenMoves DEF SessionTypeOK, CreatorSteps, CreatorState, SpawnGuardian
    <3>7. CASE SpawnFails(c)
      BY <3>7, ThenMoves DEF SessionTypeOK, CreatorSteps, CreatorState, SpawnFails
    <3>8. CASE ServerReady(c)
      BY <3>8, ThenMoves DEF SessionTypeOK, CreatorSteps, CreatorState, ServerReady
    <3>9. CASE Begin(c)
      <4>1. Then(c, "post") \/ Boundary(c, "close", FALSE)
        BY <3>9 DEF Begin
      <4>2. creator' \in [Creators -> CreatorState]
        BY <4>1, ThenMoves, BoundaryMoves DEF CreatorSteps
      <4>3. creation' \in [Generations -> Unresolved \union {"none", "committed", "failed"}]
        BY <3>9 DEF Begin, SessionTypeOK, Unresolved
      <4> QED BY <3>9, <4>2, <4>3 DEF Begin, SessionTypeOK, CreatorState
    <3>10. CASE Post(c)
      <4>1. creator' \in [Creators -> CreatorState]
        BY <3>10, ThenMoves DEF CreatorSteps, Post
      <4>2. posted' \in [Generations -> Nat]
        <5>1. posted[GenOf(c)] \in Nat
          BY <3>10, LastGenerationAssumption DEF Post, Doing, CInv, CreationClaim, Owning, Generations, SessionTypeOK, Rows, GenOf
        <5>2. posted' = [posted EXCEPT ![GenOf(c)] = posted[GenOf(c)] + 1]
          BY <3>10 DEF Post
        <5> DEFINE n == posted[GenOf(c)] + 1
        <5>3. n \in Nat /\ posted \in [Generations -> Nat]
          BY <5>1 DEF SessionTypeOK
        <5>4. posted' = [posted EXCEPT ![GenOf(c)] = n]
          BY <5>2
        <5> HIDE DEF n
        <5> QED BY <5>3, <5>4
      <4> QED BY <3>10, <4>1, <4>2 DEF Post, SessionTypeOK, CreatorState
    <3>11. CASE Verify(c)
      BY <3>11, BoundaryMoves DEF SessionTypeOK, CreatorSteps, CreatorState, Verify
    <3>12. CASE CreationFails(c)
      BY <3>12, BoundaryMoves DEF SessionTypeOK, CreatorSteps, CreatorState, CreationFails
    <3>13. CASE CloseLease(c)
      BY <3>13, ThenMoves DEF SessionTypeOK, CreatorSteps, CreatorState, CloseLease
    <3>14. CASE GuardianExited(c)
      BY <3>14, ThenMoves DEF SessionTypeOK, CreatorSteps, CreatorState, GuardianExited, Outcome
    <3>15. CASE GuardianFailed(c)
      BY <3>15, ThenMoves DEF SessionTypeOK, CreatorSteps, CreatorState, GuardianFailed, Outcome
    <3>16. CASE Commit(c)
      <4>1. Then(c, "launch") \/ Then(c, "unknown")
        BY <3>16 DEF Commit
      <4>2. creator' \in [Creators -> CreatorState]
        BY <4>1, ThenMoves DEF CreatorSteps
      <4>3. GenOf(c) \in 0..LastGeneration
        BY DEF GenOf, SessionTypeOK, Rows
      <4>4. binding' \in [session : 0..LastGeneration, gen : 0..LastGeneration]
        BY <3>16, <4>3 DEF Commit, SessionTypeOK
      <4>5. creation' \in [Generations -> Unresolved \union {"none", "committed", "failed"}]
        BY <3>16, CreatorMoves DEF Commit, SessionTypeOK
      <4> QED BY <3>16, <4>2, <4>4, <4>5 DEF Commit, SessionTypeOK, CreatorState
    <3>17. CASE MarkUnknown(c)
      BY <3>17, ThenMoves, CreatorMoves, RowMoves DEF SessionTypeOK, CreatorSteps, CreatorState, MarkUnknown, MarkCreation
    <3>18. CASE MarkCleanupUnknown(c)
      BY <3>18, ThenMoves, CreatorMoves, RowMoves DEF SessionTypeOK, CreatorSteps, CreatorState, MarkCleanupUnknown, MarkCreation
    <3>19. CASE FailKnownAbsent(c)
      BY <3>19, ThenMoves, CreatorMoves DEF SessionTypeOK, CreatorSteps, CreatorState, FailKnownAbsent
    <3>20. CASE Launch(c)
      BY <3>20, ThenMoves DEF SessionTypeOK, CreatorSteps, CreatorState, Launch, GenOf, Rows
    <3>21. CASE LaunchFails(c)
      BY <3>21, ThenMoves, RowMoves DEF SessionTypeOK, CreatorSteps, CreatorState, LaunchFails
    <3> QED BY <2>5, <3>1, <3>2, <3>3, <3>4, <3>5, <3>6, <3>7, <3>8, <3>9, <3>10, <3>11, <3>12, <3>13,
               <3>14, <3>15, <3>16, <3>17, <3>18, <3>19, <3>20, <3>21 DEF CreateSession
  <2> QED BY <1>b, <2>1, <2>2, <2>3, <2>4, <2>5
<1>c. ASSUME NEW g \in Generations, Guard(g) \/ ServerExits(g) \/ KillGuardian(g)
      PROVE SessionTypeOK'
  <2> USE DEF SessionTypeOK, Guards, Becomes, OnlyGuardian, rows, GuardianExits
  <2>1. CASE SpawnBarrier(g) BY <2>1 DEF SpawnBarrier
  <2>2. CASE GuardianRefuses(g) BY <2>2 DEF GuardianRefuses
  <2>3. CASE ReleaseBarrier(g) BY <2>3 DEF ReleaseBarrier
  <2>4. CASE PublishReady(g) BY <2>4 DEF PublishReady
  <2>5. CASE LeaseEnds(g) BY <2>5 DEF LeaseEnds
  <2>6. CASE ServeFails(g) BY <2>6 DEF ServeFails
  <2>7. CASE CleanUp(g) BY <2>7 DEF CleanUp
  <2>8. CASE CleanUpFails(g) BY <2>8 DEF CleanUpFails
  <2>9. CASE BarrierEnds(g) BY <2>9 DEF BarrierEnds
  <2>10. CASE ServerExits(g) BY <2>10 DEF ServerExits
  <2>11. CASE KillGuardian(g) BY <2>11 DEF KillGuardian
  <2> QED BY <1>c, <2>1, <2>2, <2>3, <2>4, <2>5, <2>6, <2>7, <2>8, <2>9, <2>10, <2>11 DEF Guard
<1>d. CASE ProviderLost \/ ProviderParked
  <2>1. CASE ProviderLost
    BY <2>1, LastGenerationAssumption DEF ProviderLost, SessionTypeOK, rows, serving
  <2>2. CASE ProviderParked
    BY <2>2, RowMoves, LastGenerationAssumption DEF ProviderParked, SessionTypeOK, serving
  <2> QED BY <1>d, <2>1, <2>2
<1> QED BY <1>a, <1>b, <1>c, <1>d DEF SessionNext

-----------------------------------------------------------------------------
(* What keeps the invariant.                                               *)

SameCell(h) == /\ creation'[h] = creation[h] /\ posted'[h] = posted[h]
               /\ guardian'[h] = guardian[h] /\ helper'[h] = helper[h]

\* A row of one generation moves: into recovery, or on while nothing is unresolved.
RowAdvances ==
  /\ runtimeRow'.gen = runtimeRow.gen
  /\ runtimeRow'.status = "starting" => runtimeRow.status = "starting"
  /\ \/ lifecycle' = "recovery_required" /\ runtimeRow'.status = "unknown"
     \/ /\ lifecycle' = lifecycle
        /\ runtimeRow'.status = runtimeRow.status \/ creation[runtimeRow.gen] \notin Unresolved

\* What a process may do to a generation it owns.
OwnCell(c, g) ==
  /\ CreatorOwns(c, g) /\ Cell(g)' /\ CreationFence(g)'
  /\ creation[g] = "none" =>
       creation'[g] = "none" \/ \A h \in Generations : h < g => ~ Dirty(h)
  /\ creation[g] = "committed" => SameCell(g)

\* The steps of a process that reserve no generation and launch nothing.
LEMMA ProcessMoves ==
  ASSUME SessionTypeOK, SessionTypeOK', CInv, NEW c \in Creators, NEW g,
         \A d \in Creators \ {c} : creator'[d] = creator[d],
         creator'[c].at \in Owning => /\ creator[c].at \in Owning
                                      /\ creator'[c].row = creator[c].row /\ CreationClaim(c)',
         creator'[c].at # "prepare",
         RowAdvances, pane' = pane,
         \A h \in Generations \ {g} : SameCell(h),
         g \in Generations => OwnCell(c, g),
         binding # Unbound => binding' # Unbound,
         binding' = binding \/ Bound'
  PROVE  CInv'
<1>t. /\ runtimeRow \in Rows /\ runtimeRow' \in Rows /\ LastGeneration \in Nat
      /\ lifecycle \in {"open", "recovery_required"} /\ pane \in 0..LastGeneration
      /\ \A h \in Generations : h \in Nat /\ h > 0
  BY LastGenerationAssumption DEF SessionTypeOK, Generations
<1>1. \A d \in Creators : CreationClaim(d)'
  <2> SUFFICES ASSUME NEW d \in Creators, creator'[d].at \in Owning, d # c PROVE CreationClaim(d)'
    BY DEF CreationClaim
  <2>1. creator'[d] = creator[d] /\ CreationClaim(d)
    BY DEF CInv
  <2>2. GenOf(d) \in Generations
    BY <2>1, <1>t DEF CreationClaim, Generations, Rows
  <2>3. GenOf(d) # g
    BY <2>1, <2>2 DEF OwnCell, CreatorOwns, OneOwner, CInv
  <2>4. SameCell(GenOf(d))
    BY <2>2, <2>3
  <2> QED BY <2>1, <2>4 DEF CreationClaim, SameCell, RowAdvances, GenOf, Doing, StillStarting
<1>2. OneOwner'
  BY DEF OneOwner, CInv, GenOf
<1>3. \A h \in Generations : Cell(h)'
  <2> SUFFICES ASSUME NEW h \in Generations, h # g PROVE Cell(h)'
    BY DEF OwnCell
  <2> QED BY DEF Cell, SameCell, RowAdvances, CInv
<1>4. \A h \in Generations : CreationFence(h)'
  <2> SUFFICES ASSUME NEW h \in Generations, h # g, Dirty(h)' PROVE CreationFence(h)'
    BY DEF OwnCell, CreationFence
  <2>1. Dirty(h) /\ CreationFence(h)
    BY DEF Dirty, SameCell, CInv
  <2>2. \/ lifecycle' = "recovery_required"
        \/ runtimeRow'.gen = h /\ runtimeRow'.status = "starting" /\ creation'[h] \in Unresolved
    BY <2>1 DEF CreationFence, RowAdvances, SameCell
  <2>3. binding' = Unbound => runtimeRow'.gen = h
    BY <2>1 DEF CreationFence, RowAdvances
  <2>4. ASSUME NEW k \in Generations, h < k PROVE creation'[k] = "none"
    BY <2>1, <2>4 DEF CreationFence, SameCell, OwnCell
  <2> QED BY <2>2, <2>3, <2>4 DEF CreationFence
<1>5. PaneApart'
  <2> SUFFICES ASSUME pane # 0 PROVE PaneApart'
    BY DEF PaneApart
  <2>1. pane \in Generations /\ \A d \in Creators : ~ CreatorOwns(d, pane)
    BY <1>t DEF PaneApart, CInv, Generations
  <2>2. SameCell(pane)
    BY <2>1 DEF OwnCell
  <2>3. \A d \in Creators : ~ CreatorOwns(d, pane)'
    BY <2>1 DEF CreatorOwns, GenOf
  <2> QED BY <2>2, <2>3 DEF PaneApart, SameCell, RowAdvances, CInv
<1>6. RecoveryResumes'
  BY DEF RecoveryResumes, CInv, RowAdvances, Doing, GenOf
<1>7. Bound'
  <2> SUFFICES ASSUME binding' = binding PROVE Bound'
    OBVIOUS
  <2>1. CASE binding = Unbound
    BY <2>1 DEF Bound, BoundIsPosted
  <2>2. CASE binding # Unbound
    <3>1. binding.session \in Generations
      BY <2>2, <1>t DEF Bound, CInv, SessionTypeOK, Generations
    <3>2. SameCell(binding.session)
      BY <2>2, <3>1 DEF Bound, BoundIsPosted, OwnCell, CInv
    <3> QED BY <2>2, <3>2 DEF Bound, BoundIsPosted, SameCell, CInv
  <2> QED BY <2>1, <2>2
<1> QED BY <1>1, <1>2, <1>3, <1>4, <1>5, <1>6, <1>7 DEF CInv

\* The steps of a guardian and of what happens to it.
LEMMA GuardianMoves ==
  ASSUME SessionTypeOK, CInv, NEW g \in Generations, NEW w, NEW s,
         OnlyGuardian,
         guardian' \in {guardian, [guardian EXCEPT ![g] = w]},
         helper' \in {helper, [helper EXCEPT ![g] = s]},
         guardian[g] \in ServerGone => guardian'[g] = guardian[g],
         guardian'[g] # "none" \/ guardian'[g] = guardian[g],
         helper'[g] = "serving" => guardian'[g] \notin ServerGone \union {"spawned"}
  PROVE  CInv'
<1> USE DEF OnlyGuardian, rows
<1>1. \A h \in Generations \ {g} : guardian'[h] = guardian[h] /\ helper'[h] = helper[h]
  BY DEF SessionTypeOK
<1>2. \A h \in Generations : /\ guardian[h] \in ServerGone => guardian'[h] = guardian[h]
                             /\ guardian'[h] = "none" => guardian[h] = "none"
  BY <1>1
<1>3. \A c \in Creators : CreationClaim(c)'
  <2> SUFFICES ASSUME NEW c \in Creators, creator[c].at \in Owning PROVE CreationClaim(c)'
    BY DEF CreationClaim
  <2>1. CreationClaim(c) /\ GenOf(c) \in Generations
    BY LastGenerationAssumption DEF CInv, CreationClaim, Generations, SessionTypeOK, Rows
  <2> QED BY <2>1, <1>2 DEF CreationClaim, ClaimOK, GenOf, Doing, StillStarting
<1>4. \A h \in Generations : Cell(h)'
  BY <1>1, <1>2 DEF CInv, Cell, ServerGone
<1>5. \A h \in Generations : CreationFence(h)'
  BY <1>2 DEF CInv, CreationFence, Dirty
<1>6. PaneApart' /\ OneOwner' /\ RecoveryResumes' /\ Bound'
  BY DEF CInv, PaneApart, OneOwner, RecoveryResumes, Bound, BoundIsPosted, CreatorOwns, GenOf, Doing
<1> QED BY <1>3, <1>4, <1>5, <1>6 DEF CInv

\* Initially nothing exists.
LEMMA CreationInit == SessionInit => CInv
BY LastGenerationAssumption DEF SessionInit, CInv, CreationClaim, OneOwner, Cell, CreationFence, Dirty, PaneApart,
   RecoveryResumes, Bound, BoundIsPosted, Owning, NoRow, Unbound, Unresolved, Generations, Doing, ServerGone

-----------------------------------------------------------------------------
(* Every step keeps the invariant.                                         *)

\* A step that only changes the record of one process.
LEMMA ReadMoves ==
  ASSUME SessionTypeOK, SessionTypeOK', CInv, NEW c \in Creators,
         UNCHANGED <<rows, guardian, helper, posted, pane>>,
         \A d \in Creators \ {c} : creator'[d] = creator[d],
         creator'[c].at \in Owning => /\ creator[c].at \in Owning
                                      /\ creator'[c].row = creator[c].row /\ CreationClaim(c)',
         creator'[c].at # "prepare"
  PROVE  CInv'
<1>1. 0 \notin Generations
  BY LastGenerationAssumption DEF Generations
<1>2. \A h \in Generations : SameCell(h)
  BY DEF SameCell, rows
<1>3. RowAdvances /\ binding' = binding
  BY DEF RowAdvances, rows
<1> QED BY <1>1, <1>2, <1>3, ProcessMoves

\* A process that leaves its generation, or owns none, and may move the row.
LEMMA LeaveMoves ==
  ASSUME SessionTypeOK, SessionTypeOK', CInv, NEW c \in Creators,
         UNCHANGED <<binding, creation, guardian, helper, posted, pane>>, RowAdvances,
         \A d \in Creators \ {c} : creator'[d] = creator[d],
         creator'[c].at \notin Owning
  PROVE  CInv'
<1>1. 0 \notin Generations
  BY LastGenerationAssumption DEF Generations
<1>2. \A h \in Generations : SameCell(h)
  BY DEF SameCell
<1>3. creator'[c].at # "prepare"
  BY DEF Owning
<1> QED BY <1>1, <1>2, <1>3, ProcessMoves

\* The record of an owner that takes a step and changes nothing.
LEMMA OwnRead ==
  ASSUME SessionTypeOK, SessionTypeOK', CInv, NEW c \in Creators,
         Nothing, creator[c].at \in Owning,
         \A d \in Creators \ {c} : creator'[d] = creator[d],
         creator'[c].row = creator[c].row,
         creator'[c].at \notin {"prepare", "unlaunched"},
         ClaimOK(creator'[c], creation[GenOf(c)], posted[GenOf(c)], guardian[GenOf(c)])
  PROVE  CInv'
<1>1. CreationClaim(c)'
  BY DEF CreationClaim, CInv, Nothing, rows, serving, GenOf, Doing
<1>2. UNCHANGED <<rows, guardian, helper, posted, pane>>
  BY DEF Nothing, rows, serving
<1> QED BY <1>1, <1>2, ReadMoves

\* An owner's generation.
LEMMA OwnedByCreator ==
  ASSUME SessionTypeOK, CInv, NEW c \in Creators, creator[c].at \in Owning
  PROVE  /\ GenOf(c) \in Generations /\ GenOf(c) <= runtimeRow.gen
         /\ creator[c].row.status = "starting"
         /\ CreatorOwns(c, GenOf(c)) /\ Cell(GenOf(c)) /\ CreationFence(GenOf(c))
         /\ ClaimOK(creator[c], creation[GenOf(c)], posted[GenOf(c)], guardian[GenOf(c)])
         /\ Doing(c, "unlaunched") /\ creation[GenOf(c)] = "prepared" => ~ StillStarting(c)
BY LastGenerationAssumption DEF CInv, CreationClaim, CreatorOwns, Generations, SessionTypeOK, Rows, GenOf

\* A creator reads, or is refused; it owns nothing yet.
LEMMA InspectKeeps ==
  ASSUME SessionTypeOK, SessionTypeOK', CInv, NEW c \in Creators,
         ReadOverview(c) \/ InspectRuntime(c) \/ ReserveRefused(c)
  PROVE  CInv'
<1> USE DEF Nothing, rows, serving
<1>1. CASE ReadOverview(c)
  <2>1. creator'[c].at = "inspect" /\ \A d \in Creators \ {c} : creator'[d] = creator[d]
    BY <1>1, ThenMoves DEF ReadOverview, CreatorSteps
  <2> QED BY <1>1, <2>1, ReadMoves DEF ReadOverview, Owning
<1>2. CASE InspectPrior(c)
  <2>1. creator'[c].at \in {"reserve", "probe"} /\ \A d \in Creators \ {c} : creator'[d] = creator[d]
    BY <1>2 DEF InspectPrior, SessionTypeOK, CreatorState
  <2> QED BY <1>2, <2>1, ReadMoves DEF InspectPrior, Owning
<1>3. CASE ProbeLive(c) \/ ProbeMissing(c) \/ MissingIsClean(c) \/ ReserveRefused(c)
  <2>1. Then(c, "idle") \/ Then(c, "missing") \/ Then(c, "read_binding")
    BY <1>3 DEF ProbeLive, ProbeMissing, MissingIsClean, ReserveRefused
  <2>2. creator'[c].at \in {"idle", "missing", "read_binding"}
        /\ \A d \in Creators \ {c} : creator'[d] = creator[d]
    BY <2>1, ThenMoves DEF CreatorSteps, CreatorState, SessionTypeOK
  <2>3. Nothing
    BY <1>3 DEF ProbeLive, ProbeMissing, MissingIsClean, ReserveRefused
  <2> QED BY <2>2, <2>3, ReadMoves DEF Owning
<1>4. CASE MissingIsLost(c)
  <2>1. creator'[c].at = "idle" /\ \A d \in Creators \ {c} : creator'[d] = creator[d]
    BY <1>4, ThenMoves DEF CreatorSteps, CreatorState, SessionTypeOK, MissingIsLost
  <2>2. RowAdvances
    BY <1>4, RowMoves DEF MissingIsLost, RowAdvances
  <2> QED BY <1>4, <2>1, <2>2, LeaveMoves DEF MissingIsLost, Owning
<1>5. CASE MissingIsStopped(c)
  <2>1. creator'[c].at \in {"idle", "read_binding"} /\ \A d \in Creators \ {c} : creator'[d] = creator[d]
    BY <1>5, ThenMoves DEF CreatorSteps, CreatorState, SessionTypeOK, MissingIsStopped
  <2>2. RowAdvances
    <3>1. CASE Unchanged(c)
      BY <1>5, <3>1, RowMoves DEF MissingIsStopped, RowAdvances, Lost, Unchanged, GenOf
    <3>2. CASE ~ Unchanged(c)
      BY <1>5, <3>2 DEF MissingIsStopped, RowAdvances
    <3> QED BY <3>1, <3>2
  <2> QED BY <1>5, <2>1, <2>2, LeaveMoves DEF MissingIsStopped, Owning
<1>6. CASE ReadBinding(c)
  <2>1. creator'[c].at = "reserve" /\ \A d \in Creators \ {c} : creator'[d] = creator[d]
    BY <1>6 DEF ReadBinding, SessionTypeOK, CreatorState
  <2> QED BY <1>6, <2>1, ReadMoves DEF ReadBinding, Owning
<1> QED BY <1>1, <1>2, <1>3, <1>4, <1>5, <1>6 DEF InspectRuntime

\* Owners that wait, verify and learn what became of the guardian.
LEMMA SessionWaitKeeps ==
  ASSUME SessionTypeOK, SessionTypeOK', CInv, NEW c \in Creators,
         \/ SpawnFails(c) \/ ServerReady(c) \/ Verify(c) \/ CreationFails(c)
         \/ GuardianExited(c) \/ GuardianFailed(c)
  PROVE  CInv'
<1> DEFINE s == creation[GenOf(c)]
           n == posted[GenOf(c)]
           w == guardian[GenOf(c)]
<1>1. creator[c].at \in Owning /\ Nothing
  BY DEF SpawnFails, ServerReady, Verify, CreationFails, GuardianExited, GuardianFailed, Doing, Owning
<1>2. ClaimOK(creator[c], s, n, w) /\ creator[c] \in CreatorState /\ Cell(GenOf(c))
  BY <1>1, OwnedByCreator DEF SessionTypeOK, CreatorState
<1> DEFINE Moved(at, ok) == /\ \A d \in Creators \ {c} : creator'[d] = creator[d]
                            /\ creator'[c].row = creator[c].row
                            /\ creator'[c].at = at /\ creator'[c].ok = ok
<1>3. ASSUME NEW at \in CreatorSteps, NEW ok, Moved(at, ok), at \notin {"prepare", "unlaunched", "rebind"},
             ClaimOK([at |-> at, ok |-> ok], s, n, w)
      PROVE  CInv'
  <2>1. ClaimOK(creator'[c], s, n, w)
    BY <1>3 DEF ClaimOK
  <2> QED BY <1>1, <1>3, <2>1, OwnRead
<1>4. ASSUME NEW at \in CreatorSteps, Then(c, at) PROVE Moved(at, creator[c].ok)
  BY <1>4, ThenMoves
<1>5. ASSUME NEW at \in CreatorSteps, NEW ok \in BOOLEAN, Boundary(c, at, ok) PROVE Moved(at, ok)
  BY <1>5, BoundaryMoves
<1>6. {"known_absent", "begin", "close", "commit", "unknown", "cleanup_unknown"} \subseteq CreatorSteps
  BY DEF CreatorSteps
<1> HIDE DEF Moved
<1>7. CASE SpawnFails(c)
  <2>1. s = "prepared" /\ w \in ServerGone /\ Moved("known_absent", creator[c].ok)
    BY <1>2, <1>4, <1>6, <1>7 DEF SpawnFails, Doing, ClaimOK
  <2> QED BY <2>1, <1>3, <1>6 DEF ClaimOK
<1>8. CASE ServerReady(c)
  <2>1. s = "prepared" /\ Moved("begin", creator[c].ok)
    BY <1>2, <1>4, <1>6, <1>8 DEF ServerReady, Doing, ClaimOK
  <2> QED BY <2>1, <1>3, <1>6 DEF ClaimOK
<1>9. CASE Verify(c)
  <2>1. s = "external_effect_started" /\ n = 1 /\ Moved("close", TRUE)
    BY <1>2, <1>5, <1>6, <1>9 DEF Verify, Doing, ClaimOK
  <2> QED BY <2>1, <1>3, <1>6 DEF ClaimOK, Unresolved
<1>10. CASE CreationFails(c)
  <2>1. s \in Unresolved /\ Moved("close", FALSE)
    BY <1>2, <1>5, <1>6, <1>10 DEF CreationFails, Doing, ClaimOK, Unresolved
  <2> QED BY <2>1, <1>3, <1>6 DEF ClaimOK
<1>11. CASE GuardianExited(c)
  <2>1. /\ s \in Unresolved /\ w \in ServerGone /\ (creator[c].ok => n = 1 /\ s = "external_effect_started")
    BY <1>2, <1>11 DEF GuardianExited, Doing, ClaimOK, ServerGone
  <2>2. CASE Then(c, "commit") /\ creator[c].ok
    BY <2>1, <2>2, <1>3, <1>4, <1>6 DEF ClaimOK
  <2>3. CASE Then(c, "unknown") /\ s # "prepared"
    BY <2>1, <2>3, <1>3, <1>4, <1>6 DEF ClaimOK, Unresolved
  <2>4. CASE Then(c, "known_absent") /\ s = "prepared"
    BY <2>1, <2>4, <1>3, <1>4, <1>6 DEF ClaimOK
  <2> QED BY <1>11, <2>2, <2>3, <2>4 DEF GuardianExited, Outcome, Crossed
<1>12. CASE GuardianFailed(c)
  <2>1. s \in Unresolved
    BY <1>2, <1>12 DEF GuardianFailed, Doing, ClaimOK
  <2>2. CASE Then(c, "unknown") /\ s # "prepared"
    BY <2>1, <2>2, <1>3, <1>4, <1>6 DEF ClaimOK, Unresolved
  <2>3. CASE Then(c, "cleanup_unknown") /\ s = "prepared"
    BY <2>1, <2>3, <1>3, <1>4, <1>6 DEF ClaimOK
  <2> QED BY <1>12, <2>2, <2>3 DEF GuardianFailed, Outcome, Crossed
<1> QED BY <1>7, <1>8, <1>9, <1>10, <1>11, <1>12

\* Owners that leave their generation: the row may move with them.
LEMMA LeaveKeeps ==
  ASSUME SessionTypeOK, SessionTypeOK', CInv, NEW c \in Creators,
         FailUnlaunched(c) \/ LaunchFails(c) \/ KillCreator(c)
  PROVE  CInv'
<1>1. Then(c, "idle")
  BY DEF FailUnlaunched, LaunchFails, KillCreator
<1>2. creator'[c].at = "idle" /\ \A d \in Creators \ {c} : creator'[d] = creator[d]
  BY <1>1, ThenMoves DEF CreatorSteps
<1>3. creator'[c].at \notin Owning
  BY <1>2 DEF Owning
<1>4. UNCHANGED <<binding, creation, guardian, helper, posted, pane>>
  BY DEF FailUnlaunched, LaunchFails, KillCreator, rows, serving
<1>5. CASE FailUnlaunched(c)
  <2>1. creation[GenOf(c)] \notin Unresolved \/ ~ StillStarting(c)
    BY <1>5, OwnedByCreator DEF FailUnlaunched, Doing, Owning, ClaimOK, Unresolved
  <2>2. creator[c].row.status = "starting"
    BY <1>5, OwnedByCreator DEF FailUnlaunched, Doing, Owning
  <2>3. RowAdvances
    BY <1>5, <2>1, <2>2, RowMoves DEF FailUnlaunched, RowAdvances, Unchanged, StillStarting, GenOf
  <2> QED BY <1>2, <1>3, <1>4, <2>3, LeaveMoves
<1>6. CASE LaunchFails(c)
  <2>1. RowAdvances
    BY <1>6, RowMoves DEF LaunchFails, RowAdvances
  <2> QED BY <1>2, <1>3, <1>4, <2>1, LeaveMoves
<1>7. CASE KillCreator(c)
  <2>1. RowAdvances
    BY <1>7 DEF KillCreator, RowAdvances, rows
  <2> QED BY <1>2, <1>3, <1>4, <2>1, LeaveMoves
<1> QED BY <1>5, <1>6, <1>7

\* The record of an owner and its generation move together.
LEMMA OwnMoves ==
  ASSUME SessionTypeOK, SessionTypeOK', CInv, NEW c \in Creators, NEW g \in Generations,
         creator[c].at \in Owning, GenOf(c) = g,
         \A d \in Creators \ {c} : creator'[d] = creator[d],
         creator'[c].row = creator[c].row,
         creator'[c].at # "prepare",
         Doing(c, "unlaunched")' => creation'[g] # "prepared" \/ ~ StillStarting(c)',
         ClaimOK(creator'[c], creation'[g], posted'[g], guardian'[g]),
         RowAdvances, pane' = pane,
         \A h \in Generations \ {g} : SameCell(h),
         Cell(g)', CreationFence(g)',
         creation[g] = "none" => creation'[g] = "none" \/ \A h \in Generations : h < g => ~ Dirty(h),
         creation[g] = "committed" => SameCell(g),
         binding # Unbound => binding' # Unbound,
         binding' = binding \/ Bound'
  PROVE  CInv'
<1>1. CreatorOwns(c, g) /\ creator[c].row.status = "starting" /\ g <= runtimeRow.gen
  BY OwnedByCreator
<1>2. GenOf(c)' = g
  BY DEF GenOf
<1>3. CreationClaim(c)'
  BY <1>1, <1>2 DEF CreationClaim, RowAdvances, Generations, Doing
<1>4. OwnCell(c, g)
  BY <1>1 DEF OwnCell
<1> QED BY <1>3, <1>4, ProcessMoves

\* The lease of the guardian is closed.
LEMMA CloseKeeps ==
  ASSUME SessionTypeOK, SessionTypeOK', CInv, NEW c \in Creators, CloseLease(c)
  PROVE  CInv'
<1>1. creator[c].at \in Owning
  BY DEF CloseLease, Doing, Owning
<1>2. /\ \A d \in Creators \ {c} : creator'[d] = creator[d]
      /\ creator'[c].row = creator[c].row /\ creator'[c].at = "await_exit" /\ creator'[c].ok = creator[c].ok
  BY ThenMoves DEF CloseLease, CreatorSteps
<1>3. ClaimOK(creator'[c], creation[GenOf(c)], posted[GenOf(c)], guardian[GenOf(c)])
  BY <1>1, <1>2, OwnedByCreator DEF CloseLease, Doing, ClaimOK
<1>4. CreationClaim(c)'
  BY <1>1, <1>2, <1>3 DEF CreationClaim, CInv, CloseLease, rows, GenOf, Doing
<1>5. creator'[c].at # "prepare" /\ UNCHANGED <<rows, guardian, helper, posted, pane>>
  BY <1>2 DEF CloseLease
<1> QED BY <1>1, <1>2, <1>4, <1>5, ReadMoves

\* The session of an earlier generation is bound for this one.
LEMMA RebindKeeps ==
  ASSUME SessionTypeOK, SessionTypeOK', CInv, NEW c \in Creators, Rebind(c)
  PROVE  CInv'
<1>1. creator[c].at \in Owning
  BY DEF Rebind, Doing, Owning
<1> PICK g \in Generations : GenOf(c) = g
  BY <1>1, OwnedByCreator
<1>2. /\ ClaimOK(creator[c], creation[g], posted[g], guardian[g]) /\ Cell(g) /\ CreationFence(g)
      /\ creator[c].session # 0 /\ creation[g] = "none" /\ posted[g] = 0 /\ guardian[g] = "none"
  BY <1>1, OwnedByCreator DEF Rebind, Doing, ClaimOK, Cell
<1>3. \E at \in {"launch", "unlaunched"} : Then(c, at)
  BY DEF Rebind
<1>4. /\ \A d \in Creators \ {c} : creator'[d] = creator[d]
      /\ creator'[c].row = creator[c].row /\ creator'[c].at \in {"launch", "unlaunched"}
  BY <1>3, ThenMoves DEF CreatorSteps
<1>5. ClaimOK(creator'[c], creation[g], posted[g], guardian[g])
  BY <1>2, <1>4 DEF ClaimOK, ServerGone
<1>6. UNCHANGED <<runtimeRow, lifecycle, creation, guardian, helper, posted, pane>>
  BY DEF Rebind, serving
<1>7. binding' = binding \/ (binding.session = creator[c].session /\ binding' = [binding EXCEPT !.gen = g])
  BY DEF Rebind
<1>8. /\ binding # Unbound => binding' # Unbound
      /\ binding' = binding \/ Bound'
  BY <1>2, <1>6, <1>7 DEF Unbound, Bound, BoundIsPosted, SessionTypeOK, CInv
<1>9. Cell(g)' /\ CreationFence(g)'
  BY <1>2, <1>6, <1>8 DEF Cell, CreationFence, Dirty, Unresolved
<1>10. RowAdvances /\ \A h \in Generations : SameCell(h)
  BY <1>6 DEF RowAdvances, SameCell
<1>11. CreationClaim(c)'
  BY <1>1, <1>2, <1>4, <1>5, <1>6 DEF CreationClaim, CInv, GenOf, Doing
<1>12. OwnCell(c, g)
  BY <1>1, <1>2, <1>6, <1>9, OwnedByCreator DEF OwnCell, SameCell
<1>13. creator'[c].at # "prepare" /\ pane' = pane
  BY <1>4, <1>6
<1> QED BY <1>1, <1>4, <1>8, <1>10, <1>11, <1>12, <1>13, ProcessMoves

\* A creation is journalled where nothing was left behind before.
LEMMA PrepareKeeps ==
  ASSUME SessionTypeOK, SessionTypeOK', CInv, NEW c \in Creators, Prepare(c)
  PROVE  CInv'
<1>1. creator[c].at \in Owning
  BY DEF Prepare, Doing, Owning
<1> PICK g \in Generations : GenOf(c) = g
  BY <1>1, OwnedByCreator
<1>2. /\ ClaimOK(creator[c], creation[g], posted[g], guardian[g]) /\ Cell(g) /\ CreationFence(g)
      /\ creation[g] = "none" /\ posted[g] = 0 /\ guardian[g] = "none" /\ helper[g] # "serving"
  BY <1>1, OwnedByCreator DEF Prepare, Doing, ClaimOK, Cell, ServerGone
<1>3. UNCHANGED <<runtimeRow, lifecycle, binding, guardian, helper, posted, pane>> /\ RowAdvances
  BY DEF Prepare, serving, RowAdvances
<1>4. CASE StillStarting(c)
  <2>1. Then(c, "spawn") /\ creation' = [creation EXCEPT ![g] = "prepared"]
    BY <1>4 DEF Prepare
  <2>2. /\ \A d \in Creators \ {c} : creator'[d] = creator[d]
        /\ creator'[c].row = creator[c].row /\ creator'[c].at = "spawn"
    BY <2>1, ThenMoves DEF CreatorSteps
  <2>3. creation'[g] = "prepared" /\ \A h \in Generations \ {g} : creation'[h] = creation[h]
    BY <1>2, <2>1, CreatorMoves DEF Unresolved
  <2>4. lifecycle # "recovery_required"
    BY <1>4 DEF StillStarting, RecoveryResumes, CInv, Prepare
  <2>5. \A h \in Generations : h < g => ~ Dirty(h)
    BY <1>4, <2>4 DEF CInv, CreationFence, StillStarting, Generations
  <2>6. Cell(g)'
    BY <1>2, <1>3, <1>4, <2>3 DEF Cell, StillStarting, SessionTypeOK, Rows, Generations
  <2>7. \A h \in Generations : g < h => creation'[h] = "none"
    BY <1>4, <2>3, LastGenerationAssumption DEF CInv, Cell, StillStarting, Generations
  <2>8. CreationFence(g)'
    BY <1>3, <1>4, <2>3, <2>7 DEF CreationFence, StillStarting, Unresolved
  <2>9. ClaimOK(creator'[c], creation'[g], posted'[g], guardian'[g])
    BY <1>2, <1>3, <2>2, <2>3 DEF ClaimOK, ServerGone
  <2>10. \A h \in Generations \ {g} : SameCell(h)
    BY <1>3, <2>3 DEF SameCell
  <2>11. creator'[c].at # "prepare" /\ ~ Doing(c, "unlaunched")'
    BY <2>2 DEF Doing
  <2> QED BY <1>1, <1>2, <1>3, <2>2, <2>5, <2>6, <2>8, <2>9, <2>10, <2>11, OwnMoves
<1>5. CASE ~ StillStarting(c)
  <2>1. Then(c, "unlaunched") /\ creation' = creation
    BY <1>5 DEF Prepare
  <2>2. /\ \A d \in Creators \ {c} : creator'[d] = creator[d]
        /\ creator'[c].row = creator[c].row /\ creator'[c].at = "unlaunched"
    BY <2>1, ThenMoves DEF CreatorSteps
  <2>3. ClaimOK(creator'[c], creation[g], posted[g], guardian[g])
    BY <1>2, <2>2 DEF ClaimOK, ServerGone
  <2>4. CreationClaim(c)'
    BY <1>1, <1>2, <1>3, <2>1, <2>2, <2>3 DEF CreationClaim, CInv, GenOf, Doing
  <2> QED BY <1>1, <1>3, <2>1, <2>2, <2>4, ReadMoves DEF rows
<1> QED BY <1>4, <1>5

\* A guardian is started for a prepared creation.
LEMMA SpawnKeeps ==
  ASSUME SessionTypeOK, SessionTypeOK', CInv, NEW c \in Creators, SpawnGuardian(c)
  PROVE  CInv'
<1>1. creator[c].at \in Owning
  BY DEF SpawnGuardian, Doing, Owning
<1> PICK g \in Generations : GenOf(c) = g
  BY <1>1, OwnedByCreator
<1>2. /\ ClaimOK(creator[c], creation[g], posted[g], guardian[g]) /\ Cell(g) /\ CreationFence(g)
      /\ creator[c].row.status = "starting" /\ g <= runtimeRow.gen
  BY <1>1, OwnedByCreator
<1>3. creation[g] = "prepared" /\ posted[g] = 0 /\ guardian[g] \in ServerGone
  BY <1>2 DEF SpawnGuardian, Doing, ClaimOK, Cell
<1>4. UNCHANGED <<runtimeRow, lifecycle, binding, creation, helper, posted, pane>> /\ RowAdvances
  BY DEF SpawnGuardian, rows, RowAdvances
<1>5. guardian'[g] = "spawned" /\ \A h \in Generations \ {g} : guardian'[h] = guardian[h]
  BY DEF SpawnGuardian, SessionTypeOK
<1>6. /\ \A d \in Creators \ {c} : creator'[d] = creator[d]
      /\ creator'[c].row = creator[c].row /\ creator'[c].at = "await_ready"
  BY ThenMoves DEF SpawnGuardian, CreatorSteps
<1>7. helper[g] # "serving"
  BY <1>2, <1>3 DEF Cell
<1>8. Cell(g)'
  BY <1>2, <1>3, <1>4, <1>5, <1>7 DEF Cell
<1>9. CreationFence(g)'
  BY <1>2, <1>3, <1>4 DEF CreationFence, Dirty, Unresolved
<1>10. ClaimOK(creator'[c], creation'[g], posted'[g], guardian'[g])
  BY <1>3, <1>4, <1>6 DEF ClaimOK
<1>11. \A h \in Generations \ {g} : SameCell(h)
  BY <1>4, <1>5 DEF SameCell
<1>12. creator'[c].at # "prepare" /\ ~ Doing(c, "unlaunched")'
  BY <1>6 DEF Doing
<1> QED BY <1>1, <1>3, <1>4, <1>6, <1>8, <1>9, <1>10, <1>11, <1>12, OwnMoves

\* The POST is announced while the Runtime still starts.
LEMMA PostBeginKeeps ==
  ASSUME SessionTypeOK, SessionTypeOK', CInv, NEW c \in Creators, Begin(c)
  PROVE  CInv'
<1>1. creator[c].at \in Owning
  BY DEF Begin, Doing, Owning
<1> PICK g \in Generations : GenOf(c) = g
  BY <1>1, OwnedByCreator
<1>2. /\ ClaimOK(creator[c], creation[g], posted[g], guardian[g]) /\ Cell(g) /\ CreationFence(g)
      /\ creator[c].row.status = "starting" /\ g <= runtimeRow.gen
  BY <1>1, OwnedByCreator
<1>3. creation[g] = "prepared" /\ posted[g] = 0
  BY <1>2 DEF Begin, Doing, ClaimOK, Cell
<1>4. UNCHANGED <<runtimeRow, lifecycle, binding, guardian, helper, posted, pane>> /\ RowAdvances
  BY DEF Begin, serving, RowAdvances
<1>5. CASE StillStarting(c)
  <2>1. creation' = [creation EXCEPT ![g] = "external_effect_started"] /\ Then(c, "post")
    BY <1>3, <1>5 DEF Begin
  <2>2. creation'[g] = "external_effect_started" /\ \A h \in Generations \ {g} : creation'[h] = creation[h]
    BY <2>1, CreatorMoves DEF Unresolved
  <2>3. /\ \A d \in Creators \ {c} : creator'[d] = creator[d]
        /\ creator'[c].row = creator[c].row /\ creator'[c].at = "post"
    BY <2>1, ThenMoves DEF CreatorSteps
  <2>4. Cell(g)'
    BY <1>2, <1>3, <1>4, <2>2 DEF Cell
  <2>5. \A h \in Generations : g < h => creation'[h] = "none"
    BY <1>2, <1>3, <2>2, LastGenerationAssumption DEF CreationFence, Dirty, Unresolved, Generations
  <2>6. CreationFence(g)'
    BY <1>2, <1>3, <1>4, <2>2, <2>5 DEF CreationFence, Dirty, Unresolved
  <2>7. ClaimOK(creator'[c], creation'[g], posted'[g], guardian'[g])
    BY <1>3, <1>4, <2>2, <2>3 DEF ClaimOK
  <2>8. \A h \in Generations \ {g} : SameCell(h)
    BY <1>4, <2>2 DEF SameCell
  <2>9. creator'[c].at # "prepare" /\ ~ Doing(c, "unlaunched")'
    BY <2>3 DEF Doing
  <2> QED BY <1>1, <1>3, <1>4, <2>3, <2>4, <2>6, <2>7, <2>8, <2>9, OwnMoves
<1>6. CASE ~ StillStarting(c)
  <2>1. Boundary(c, "close", FALSE) /\ Nothing
    BY <1>6 DEF Begin, Nothing, rows
  <2>2. /\ \A d \in Creators \ {c} : creator'[d] = creator[d] /\ creator'[c].row = creator[c].row
        /\ creator'[c].at = "close" /\ creator'[c].ok = FALSE
    BY <2>1, BoundaryMoves DEF CreatorSteps
  <2>3. ClaimOK(creator'[c], creation[GenOf(c)], posted[GenOf(c)], guardian[GenOf(c)])
    BY <1>3, <2>2 DEF ClaimOK, Unresolved
  <2>4. creator'[c].row = creator[c].row
    BY <2>1, BoundaryMoves DEF CreatorSteps
  <2> QED BY <1>1, <2>1, <2>2, <2>3, <2>4, OwnRead
<1> QED BY <1>5, <1>6

\* The POST is made where none was made.
LEMMA PostKeeps ==
  ASSUME SessionTypeOK, SessionTypeOK', CInv, NEW c \in Creators, Post(c)
  PROVE  CInv'
<1>1. creator[c].at \in Owning
  BY DEF Post, Doing, Owning
<1> PICK g \in Generations : GenOf(c) = g
  BY <1>1, OwnedByCreator
<1>2. /\ ClaimOK(creator[c], creation[g], posted[g], guardian[g]) /\ Cell(g) /\ CreationFence(g)
      /\ creator[c].row.status = "starting" /\ g <= runtimeRow.gen
  BY <1>1, OwnedByCreator
<1>3. creation[g] = "external_effect_started" /\ posted[g] = 0
  BY <1>2 DEF Post, Doing, ClaimOK
<1>4. UNCHANGED <<runtimeRow, lifecycle, binding, creation, guardian, helper, pane>> /\ RowAdvances
  BY DEF Post, rows, serving, RowAdvances
<1>5. posted'[g] = 1 /\ \A h \in Generations \ {g} : posted'[h] = posted[h]
  BY <1>3 DEF Post, SessionTypeOK
<1>6. /\ \A d \in Creators \ {c} : creator'[d] = creator[d]
      /\ creator'[c].row = creator[c].row /\ creator'[c].at = "verify"
  BY ThenMoves DEF Post, CreatorSteps
<1>7. Cell(g)'
  BY <1>2, <1>3, <1>4, <1>5 DEF Cell
<1>8. CreationFence(g)'
  BY <1>2, <1>3, <1>4 DEF CreationFence, Dirty, Unresolved
<1>9. ClaimOK(creator'[c], creation'[g], posted'[g], guardian'[g])
  BY <1>3, <1>4, <1>5, <1>6 DEF ClaimOK
<1>10. \A h \in Generations \ {g} : SameCell(h)
  BY <1>4, <1>5 DEF SameCell
<1>11. creator'[c].at # "prepare" /\ ~ Doing(c, "unlaunched")'
  BY <1>6 DEF Doing
<1> QED BY <1>1, <1>3, <1>4, <1>6, <1>7, <1>8, <1>9, <1>10, <1>11, OwnMoves

\* The session is bound as it was posted.
LEMMA CommitKeeps ==
  ASSUME SessionTypeOK, SessionTypeOK', CInv, NEW c \in Creators, Commit(c)
  PROVE  CInv'
<1>1. creator[c].at \in Owning
  BY DEF Commit, Doing, Owning
<1> PICK g \in Generations : GenOf(c) = g
  BY <1>1, OwnedByCreator
<1>2. /\ ClaimOK(creator[c], creation[g], posted[g], guardian[g]) /\ Cell(g) /\ CreationFence(g)
      /\ creator[c].row.status = "starting" /\ g <= runtimeRow.gen
  BY <1>1, OwnedByCreator
<1>3. creation[g] = "external_effect_started" /\ posted[g] = 1
  BY <1>2 DEF Commit, Doing, ClaimOK
<1>4. UNCHANGED <<runtimeRow, lifecycle, guardian, helper, posted, pane>> /\ RowAdvances
  BY DEF Commit, serving, RowAdvances
<1>5. CASE Commits(c)
  <2>1. /\ creation' = [creation EXCEPT ![g] = "committed"] /\ Then(c, "launch")
        /\ binding' = [session |-> g, gen |-> g]
    BY <1>5 DEF Commit
  <2>2. creation'[g] = "committed" /\ \A h \in Generations \ {g} : creation'[h] = creation[h]
    BY <2>1, CreatorMoves
  <2>3. /\ \A d \in Creators \ {c} : creator'[d] = creator[d]
        /\ creator'[c].row = creator[c].row /\ creator'[c].at = "launch"
    BY <2>1, ThenMoves DEF CreatorSteps
  <2>4. binding' # Unbound /\ Bound'
    BY <1>3, <1>4, <2>1, <2>2, LastGenerationAssumption DEF Bound, BoundIsPosted, Unbound, Generations
  <2>5. Cell(g)'
    BY <1>2, <1>3, <1>4, <2>2, <2>4 DEF Cell
  <2>6. CreationFence(g)'
    BY <2>2 DEF CreationFence, Dirty, Unresolved
  <2>7. ClaimOK(creator'[c], creation'[g], posted'[g], guardian'[g])
    BY <2>2, <2>3 DEF ClaimOK
  <2>8. \A h \in Generations \ {g} : SameCell(h)
    BY <1>4, <2>2 DEF SameCell
  <2>9. creator'[c].at # "prepare" /\ ~ Doing(c, "unlaunched")'
    BY <2>3 DEF Doing
  <2> QED BY <1>1, <1>3, <1>4, <2>3, <2>4, <2>5, <2>6, <2>7, <2>8, <2>9, OwnMoves
<1>6. CASE ~ Commits(c)
  <2>1. Then(c, "unknown") /\ Nothing
    BY <1>6 DEF Commit, Nothing, rows
  <2>2. /\ \A d \in Creators \ {c} : creator'[d] = creator[d]
        /\ creator'[c].row = creator[c].row /\ creator'[c].at = "unknown"
    BY <2>1, ThenMoves DEF CreatorSteps
  <2>3. ClaimOK(creator'[c], creation[GenOf(c)], posted[GenOf(c)], guardian[GenOf(c)])
    BY <1>3, <2>2 DEF ClaimOK
  <2>4. creator'[c].at \notin {"prepare", "unlaunched"}
    BY <2>2
  <2> QED BY <1>1, <2>1, <2>2, <2>3, <2>4, OwnRead
<1> QED BY <1>5, <1>6

\* A creation of unknown outcome is given up and the Workstream is in recovery.
LEMMA MarkKeeps ==
  ASSUME SessionTypeOK, SessionTypeOK', CInv, NEW c \in Creators, MarkUnknown(c) \/ MarkCleanupUnknown(c)
  PROVE  CInv'
<1>1. creator[c].at \in Owning
  BY DEF MarkUnknown, MarkCleanupUnknown, MarkCreation, Doing, Owning
<1> PICK g \in Generations : GenOf(c) = g
  BY <1>1, OwnedByCreator
<1>2. /\ ClaimOK(creator[c], creation[g], posted[g], guardian[g]) /\ Cell(g) /\ CreationFence(g)
      /\ g <= runtimeRow.gen
  BY <1>1, OwnedByCreator
<1>3. creation[g] \in Unresolved
  BY <1>2 DEF MarkUnknown, MarkCleanupUnknown, MarkCreation, Doing, ClaimOK, Unresolved
<1>4. UNCHANGED <<binding, guardian, helper, posted, pane>> /\ Then(c, "idle")
  BY DEF MarkUnknown, MarkCleanupUnknown, MarkCreation, serving
<1>5. /\ \A d \in Creators \ {c} : creator'[d] = creator[d]
      /\ creator'[c].row = creator[c].row /\ creator'[c].at = "idle"
  BY <1>4, ThenMoves DEF CreatorSteps
<1>6. CASE RequireRecovery /\ creation' = [creation EXCEPT ![g] = "failed"]
  <2>1. creation'[g] = "failed" /\ \A h \in Generations \ {g} : creation'[h] = creation[h]
    BY <1>6, CreatorMoves
  <2>2. RowAdvances /\ lifecycle' = "recovery_required" /\ runtimeRow'.gen = runtimeRow.gen
    BY <1>6, RowMoves DEF RowAdvances
  <2>3. Cell(g)'
    BY <1>2, <1>4, <2>1, <2>2, LastGenerationAssumption DEF Cell, SessionTypeOK, Rows, Generations
  <2>4. binding' = Unbound => runtimeRow'.gen = g
    BY <1>2, <1>3, <1>4, <2>2 DEF CreationFence, Dirty
  <2>5. \A h \in Generations : g < h => creation'[h] = "none"
    BY <1>2, <1>3, <2>1, LastGenerationAssumption DEF CreationFence, Dirty, Generations
  <2>6. CreationFence(g)'
    BY <2>2, <2>4, <2>5 DEF CreationFence
  <2>7. ClaimOK(creator'[c], creation'[g], posted'[g], guardian'[g])
    BY <1>5 DEF ClaimOK
  <2>8. \A h \in Generations \ {g} : SameCell(h)
    BY <1>4, <2>1 DEF SameCell
  <2>9. creator'[c].at # "prepare" /\ ~ Doing(c, "unlaunched")'
    BY <1>5 DEF Doing
  <2> QED BY <1>1, <1>3, <1>4, <1>5, <2>2, <2>3, <2>6, <2>7, <2>8, <2>9, OwnMoves DEF Unresolved
<1>7. CASE UNCHANGED <<runtimeRow, lifecycle, creation>>
  <2>1. RowAdvances /\ creator'[c].at \notin Owning
    BY <1>5, <1>7 DEF RowAdvances, Owning
  <2> QED BY <1>4, <1>5, <1>7, <2>1, LeaveMoves
<1> QED BY <1>6, <1>7 DEF MarkUnknown, MarkCleanupUnknown, MarkCreation

\* A creation known to have left nothing is given up.
LEMMA AbsentKeeps ==
  ASSUME SessionTypeOK, SessionTypeOK', CInv, NEW c \in Creators, FailKnownAbsent(c)
  PROVE  CInv'
<1>1. creator[c].at \in Owning
  BY DEF FailKnownAbsent, Doing, Owning
<1> PICK g \in Generations : GenOf(c) = g
  BY <1>1, OwnedByCreator
<1>2. /\ ClaimOK(creator[c], creation[g], posted[g], guardian[g]) /\ Cell(g) /\ CreationFence(g)
      /\ creator[c].row.status = "starting" /\ g <= runtimeRow.gen
  BY <1>1, OwnedByCreator
<1>3. creation[g] = "prepared" /\ posted[g] = 0 /\ guardian[g] \in ServerGone
  BY <1>2 DEF FailKnownAbsent, Doing, ClaimOK, Cell
<1>4. UNCHANGED <<runtimeRow, lifecycle, binding, guardian, helper, posted, pane>> /\ RowAdvances
  BY DEF FailKnownAbsent, serving, RowAdvances
<1>5. /\ \A d \in Creators \ {c} : creator'[d] = creator[d]
      /\ creator'[c].row = creator[c].row /\ creator'[c].at = "unlaunched"
  BY ThenMoves DEF FailKnownAbsent, CreatorSteps
<1>6. /\ creation'[g] = IF StillStarting(c) THEN "failed" ELSE "prepared"
      /\ \A h \in Generations \ {g} : creation'[h] = creation[h]
  BY <1>3, CreatorMoves DEF FailKnownAbsent, Crossed
<1>7. Cell(g)'
  BY <1>2, <1>3, <1>4, <1>6 DEF Cell
<1>8. CreationFence(g)'
  <2>1. CASE StillStarting(c)
    BY <1>3, <1>4, <1>6, <2>1 DEF CreationFence, Dirty, Unresolved
  <2>2. CASE ~ StillStarting(c)
    BY <1>2, <1>3, <1>4, <1>6, <2>2, LastGenerationAssumption DEF CreationFence, Dirty, Unresolved, Generations
  <2> QED BY <2>1, <2>2
<1>9. ClaimOK(creator'[c], creation'[g], posted'[g], guardian'[g])
  BY <1>3, <1>4, <1>5, <1>6 DEF ClaimOK
<1>10. creation'[g] # "prepared" \/ ~ StillStarting(c)'
  BY <1>4, <1>5, <1>6 DEF StillStarting, GenOf
<1>11. \A h \in Generations \ {g} : SameCell(h)
  BY <1>4, <1>6 DEF SameCell
<1>12. creator'[c].at # "prepare"
  BY <1>5
<1> QED BY <1>1, <1>3, <1>4, <1>5, <1>7, <1>8, <1>9, <1>10, <1>11, <1>12, OwnMoves

\* A launched generation has no owner any more.
LEMMA CreationLaunchKeeps ==
  ASSUME SessionTypeOK, SessionTypeOK', CInv, NEW c \in Creators, Launch(c)
  PROVE  CInv'
<1>1. creator[c].at \in Owning
  BY DEF Launch, Doing, Owning
<1> PICK g \in Generations : GenOf(c) = g
  BY <1>1, OwnedByCreator
<1>2. /\ ClaimOK(creator[c], creation[g], posted[g], guardian[g]) /\ Cell(g) /\ CreationFence(g)
      /\ creator[c].row.status = "starting" /\ g <= runtimeRow.gen
  BY <1>1, OwnedByCreator
<1>3. creation[g] \in {"none", "committed"}
  BY <1>2 DEF Launch, Doing, ClaimOK
<1>4. /\ UNCHANGED <<lifecycle, binding, creation, guardian, helper, posted>> /\ pane' = g
      /\ runtimeRow'.gen = runtimeRow.gen /\ runtimeRow'.status = runtimeRow.status
  BY DEF Launch, serving, SessionTypeOK, Rows
<1>5. /\ \A d \in Creators \ {c} : creator'[d] = creator[d]
      /\ creator'[c].row = creator[c].row /\ creator'[c].at = "idle"
  BY ThenMoves DEF Launch, CreatorSteps
<1>6. \A d \in Creators : creator'[d].at \in Owning => d # c /\ creator'[d] = creator[d]
  BY <1>5 DEF Owning
<1>7. \A d \in Creators : CreationClaim(d)'
  BY <1>4, <1>6 DEF CInv, CreationClaim, GenOf, Doing, StillStarting
<1>8. OneOwner' /\ \A d \in Creators : ~ CreatorOwns(d, g)'
  BY <1>1, <1>6 DEF CInv, OneOwner, CreatorOwns, GenOf
<1>9. PaneApart'
  BY <1>2, <1>3, <1>4, <1>8 DEF PaneApart
<1>10. \A h \in Generations : Cell(h)' /\ CreationFence(h)'
  BY <1>4 DEF CInv, Cell, CreationFence, Dirty
<1>11. RecoveryResumes'
  BY <1>4, <1>5 DEF CInv, RecoveryResumes, Doing, GenOf
<1>12. Bound'
  BY <1>4 DEF CInv, Bound, BoundIsPosted
<1> QED BY <1>7, <1>8, <1>9, <1>10, <1>11, <1>12 DEF CInv

\* A fresh generation is reserved: by a start when nothing was left behind, or
\* by a recovery that has a session to resume.
LEMMA ReserveMoves ==
  ASSUME SessionTypeOK, SessionTypeOK', CInv, NEW c \in Creators,
         runtimeRow.gen < LastGeneration, runtimeRow' = NextGeneration,
         UNCHANGED <<lifecycle, creation, guardian, helper, posted, pane>>,
         \A d \in Creators \ {c} : creator'[d] = creator[d],
         creator'[c].row = NextGeneration,
         creator'[c].at \in {"prepare", "rebind", "launch"},
         creator'[c].at = "rebind" => creator'[c].session # 0,
         \/ lifecycle = "open" /\ runtimeRow.status # "starting" /\ binding' = binding
         \/ /\ lifecycle = "recovery_required" /\ creator'[c].at = "launch"
            /\ binding # Unbound /\ binding'.session = binding.session /\ binding' # Unbound
  PROVE  CInv'
<1> PICK g \in Generations : g = runtimeRow.gen + 1
  BY NextGenerationTyped
<1>1. runtimeRow'.gen = g /\ runtimeRow'.status = "starting" /\ runtimeRow.gen \in Nat /\ runtimeRow.gen < g
  BY NextGenerationTyped, LastGenerationAssumption DEF SessionTypeOK, Rows
<1>2. creation[g] = "none" /\ posted[g] = 0 /\ guardian[g] = "none"
  BY <1>1 DEF CInv, Cell
<1>3. \A d \in Creators : creator[d].at \in Owning => GenOf(d) # g /\ GenOf(d) \in Generations /\ GenOf(d) <= runtimeRow.gen
  BY <1>1, OwnedByCreator DEF SessionTypeOK, Generations
<1>4. \A d \in Creators \ {c} : CreationClaim(d)'
  <2> SUFFICES ASSUME NEW d \in Creators \ {c}, creator[d].at \in Owning PROVE CreationClaim(d)'
    BY DEF CreationClaim
  <2>1. GenOf(d)' = GenOf(d) /\ GenOf(d) # g /\ CreationClaim(d) /\ GenOf(d) \in 1..runtimeRow.gen
    BY <1>3 DEF GenOf, CInv, CreationClaim
  <2> QED BY <1>1, <2>1 DEF CreationClaim, Doing, StillStarting
<1>5. CreationClaim(c)'
  BY <1>1, <1>2 DEF CreationClaim, ClaimOK, GenOf, Doing, Generations, ServerGone
<1>6. OneOwner'
  BY <1>1, <1>3 DEF CInv, OneOwner, GenOf
<1>7. \A h \in Generations : Cell(h)'
  BY <1>1 DEF CInv, Cell, Generations
<1>8. \A h \in Generations : CreationFence(h)'
  BY DEF CInv, CreationFence, Dirty
<1>9. PaneApart'
  <2> SUFFICES ASSUME pane # 0 PROVE PaneApart'
    BY DEF PaneApart
  <2>1. pane # g /\ pane <= g
    BY <1>1 DEF CInv, PaneApart, SessionTypeOK
  <2> QED BY <1>1, <2>1 DEF CInv, PaneApart, CreatorOwns, GenOf
<1>10. RecoveryResumes'
  BY <1>1, <1>3 DEF RecoveryResumes, Doing, GenOf, Owning
<1>11. Bound'
  BY DEF CInv, Bound, BoundIsPosted, Unbound
<1> QED BY <1>4, <1>5, <1>6, <1>7, <1>8, <1>9, <1>10, <1>11 DEF CInv

\* A new generation is reserved, and nobody owned it before.
LEMMA CreationReserveKeeps ==
  ASSUME SessionTypeOK, SessionTypeOK', CInv, NEW c \in Creators, Reserve(c) \/ Recover(c)
  PROVE  CInv'
<1>1. NextGeneration \in Rows /\ NextGeneration.gen \in Generations /\ creator[c] \in CreatorState
  BY NextGenerationTyped DEF Reserve, Recover, SessionTypeOK, CreatorState
<1>2. CASE Reserve(c)
  <2>1. /\ \A d \in Creators \ {c} : creator'[d] = creator[d]
        /\ creator'[c].row = NextGeneration
        /\ creator'[c].at = (IF creator[c].session = 0 THEN "prepare" ELSE "rebind")
        /\ creator'[c].session = creator[c].session
    BY <1>1, <1>2 DEF Reserve, SessionTypeOK, CreatorState
  <2>2. /\ runtimeRow.gen < LastGeneration /\ runtimeRow' = NextGeneration
        /\ lifecycle = "open" /\ runtimeRow.status # "starting"
        /\ UNCHANGED <<lifecycle, binding, creation, guardian, helper, posted, pane>>
    BY <1>2 DEF Reserve, serving
  <2>3. creator'[c].at \in {"prepare", "rebind"} /\ (creator'[c].at = "rebind" => creator'[c].session # 0)
    BY <2>1
  <2> QED BY <2>1, <2>2, <2>3, ReserveMoves
<1>3. CASE Recover(c)
  <2>1. /\ \A d \in Creators \ {c} : creator'[d] = creator[d]
        /\ creator'[c].row = NextGeneration /\ creator'[c].at = "launch"
    BY <1>1, <1>3 DEF Recover, SessionTypeOK, CreatorState
  <2>2. binding'.session = binding.session /\ binding' # Unbound
    BY <1>1, <1>3, LastGenerationAssumption DEF Recover, SessionTypeOK, Unbound, Generations
  <2> QED BY <1>3, <2>1, <2>2, ReserveMoves DEF Recover, serving
<1> QED BY <1>2, <1>3

\* What the guardian, its server and the provider do.
LEMMA GuardKeeps ==
  ASSUME SessionTypeOK, CInv, NEW g \in Generations, Guard(g) \/ ServerExits(g) \/ KillGuardian(g)
  PROVE  CInv'
<1>1. Cell(g) /\ guardian \in [Generations -> GuardianExits \union
          {"none", "spawned", "barrier", "released", "ready", "clean", "clean_failed"}]
      /\ helper \in [Generations -> {"none", "barrier", "serving", "gone"}]
  BY DEF CInv, SessionTypeOK
<1> USE DEF Guards, Becomes, GuardianExits, ServerGone
<1>2. CASE SpawnBarrier(g)
  BY <1>1, <1>2, GuardianMoves DEF SpawnBarrier, Cell
<1>3. CASE GuardianRefuses(g)
  BY <1>1, <1>3, GuardianMoves DEF GuardianRefuses, Cell
<1>4. CASE ReleaseBarrier(g)
  BY <1>1, <1>4, GuardianMoves DEF ReleaseBarrier, Cell
<1>5. CASE PublishReady(g)
  BY <1>1, <1>5, GuardianMoves DEF PublishReady, Cell
<1>6. CASE LeaseEnds(g)
  BY <1>1, <1>6, GuardianMoves DEF LeaseEnds, Cell
<1>7. CASE ServeFails(g)
  BY <1>1, <1>7, GuardianMoves DEF ServeFails, Cell
<1>8. CASE CleanUp(g)
  BY <1>1, <1>8, GuardianMoves DEF CleanUp, Cell
<1>9. CASE CleanUpFails(g)
  BY <1>1, <1>9, GuardianMoves DEF CleanUpFails, Cell
<1>10. CASE BarrierEnds(g)
  BY <1>1, <1>10, GuardianMoves DEF BarrierEnds, Cell
<1>11. CASE ServerExits(g)
  BY <1>1, <1>11, GuardianMoves DEF ServerExits, Cell
<1>12. CASE KillGuardian(g)
  BY <1>1, <1>12, GuardianMoves DEF KillGuardian, Cell
<1> QED BY <1>2, <1>3, <1>4, <1>5, <1>6, <1>7, <1>8, <1>9, <1>10, <1>11, <1>12 DEF Guard

\* The provider of the launched generation is lost or parked.
LEMMA PaneKeeps ==
  ASSUME SessionTypeOK, CInv, ProviderLost \/ ProviderParked
  PROVE  CInv'
<1>1. CASE ProviderLost
  BY <1>1 DEF ProviderLost, rows, serving, CInv, CreationClaim, OneOwner, Cell, CreationFence, Dirty, PaneApart,
     RecoveryResumes, Bound, BoundIsPosted, GenOf, Doing, StillStarting
<1>2. CASE ProviderParked
  <2>1. /\ runtimeRow'.gen = runtimeRow.gen /\ runtimeRow'.status = "stopped" /\ pane' = 0
        /\ UNCHANGED <<lifecycle, binding, creation, guardian, helper, posted, creator>>
    BY <1>2, RowMoves DEF ProviderParked, serving
  <2>2. creation[runtimeRow.gen] \notin Unresolved
    BY <1>2 DEF ProviderParked, CInv, PaneApart, Unresolved
  <2>3. \A h \in Generations : Cell(h)' /\ CreationFence(h)'
    BY <2>1, <2>2 DEF CInv, Cell, CreationFence, Dirty
  <2>4. (\A c \in Creators : CreationClaim(c)') /\ OneOwner'
    BY <2>1 DEF CInv, CreationClaim, OneOwner, GenOf, Doing, StillStarting
  <2> QED BY <2>1, <2>3, <2>4 DEF CInv, PaneApart, RecoveryResumes, Bound, BoundIsPosted
<1> QED BY <1>1, <1>2

\* Every step keeps the invariant.
LEMMA CreationStep == SessionTypeOK /\ CInv /\ [SessionNext]_sessionVars => CInv'
<1> SUFFICES ASSUME SessionTypeOK, CInv, [SessionNext]_sessionVars PROVE CInv'
  OBVIOUS
<1>1. SessionTypeOK'
  BY SessionTypeStep
<1>2. CASE UNCHANGED sessionVars
  BY <1>2 DEF sessionVars, CInv, CreationClaim, OneOwner, Cell, CreationFence, Dirty, PaneApart,
     RecoveryResumes, Bound, BoundIsPosted, CreatorOwns, GenOf, Doing, StillStarting
<1>3. ASSUME NEW c \in Creators,
             ReadOverview(c) \/ Recover(c) \/ InspectRuntime(c) \/ CreateSession(c) \/ KillCreator(c)
      PROVE  CInv'
  BY <1>1, <1>3, InspectKeeps, SessionWaitKeeps, LeaveKeeps, CloseKeeps, RebindKeeps, PrepareKeeps, SpawnKeeps,
     PostBeginKeeps, PostKeeps, CommitKeeps, MarkKeeps, AbsentKeeps, CreationLaunchKeeps, CreationReserveKeeps
     DEF CreateSession
<1>4. ASSUME NEW g \in Generations, Guard(g) \/ ServerExits(g) \/ KillGuardian(g) PROVE CInv'
  BY <1>4, GuardKeeps
<1> QED BY <1>2, <1>3, <1>4, PaneKeeps DEF SessionNext

-----------------------------------------------------------------------------
(* The theorems.                                                           *)

\* SessionInvariant: whoever is killed or races, one process owns each
\* generation that is being created, and behind a creation that may have left
\* a session or a server the Workstream is fenced in recovery.
THEOREM SessionInvariant == SessionSpec => [](SessionTypeOK /\ CInv)
<1>1. SessionInit => SessionTypeOK /\ CInv
  BY SessionTypeInit, CreationInit
<1>2. SessionTypeOK /\ CInv /\ [SessionNext]_sessionVars => (SessionTypeOK /\ CInv)'
  BY SessionTypeStep, CreationStep
<1> QED BY <1>1, <1>2, PTL DEF SessionSpec

\* SessionTypeCorrect: every variable of a session's creation keeps its type.
THEOREM SessionTypeCorrect == SessionSpec => []SessionTypeOK
BY SessionInvariant, PTL

\* The invariant of a creation says how often sessions are posted.
LEMMA PostsMeans == SessionTypeOK /\ CInv => PostsOnce
<1> SUFFICES ASSUME SessionTypeOK, CInv PROVE PostsOnce
  OBVIOUS
<1>1. \A g \in Generations : posted[g] <= 1
  BY DEF CInv, Cell
<1>2. ASSUME NEW g \in Generations, NEW h \in Generations, g < h, posted[g] = 1, creation[g] # "committed"
      PROVE  posted[h] = 0
  <2>1. Dirty(g)
    BY <1>2 DEF Dirty, CInv, Cell, SessionTypeOK
  <2>2. creation[h] = "none"
    BY <1>2, <2>1 DEF CreationFence, CInv
  <2> QED BY <2>2 DEF CInv, Cell
<1> QED BY <1>1, <1>2 DEF PostsOnce, NeverPostsAgain, CInv, Bound

\* PostsOnceHolds: the sessions of a Workstream are posted once, and what is
\* bound was posted and committed (begin_opencode_session_creation).
THEOREM PostsOnceHolds == SessionSpec => []PostsOnce
BY PostsMeans, SessionInvariant, PTL

\* The invariant of a creation says what fences an abandoned server.
LEMMA AbandonedMeans == SessionTypeOK /\ CInv => AbandonedIsFenced
<1> SUFFICES ASSUME SessionTypeOK, CInv, NEW g \in Generations, Abandoned(g), binding = Unbound
             PROVE  runtimeRow.gen = g
  BY DEF AbandonedIsFenced
<1>1. Dirty(g)
  BY DEF Abandoned, CInv, Cell, Dirty, SessionTypeOK, ServerGone
<1> QED BY <1>1 DEF CInv, CreationFence

\* AbandonedIsFencedHolds: a server that its guardian left behind is followed by
\* no other generation while no session is bound.
THEOREM AbandonedIsFencedHolds == SessionSpec => []AbandonedIsFenced
BY AbandonedMeans, SessionInvariant, PTL

-----------------------------------------------------------------------------
(* The safety half of ServerEndsWithLease.                                 *)

\* What the guardian of a server whose lease ended has still to do.
StepsLeft == [released |-> 3, ready |-> 2, clean |-> 1, clean_failed |-> 1]

\* A step brings the server closer to its end, or its guardian is stopped or fails.
ComesCloser(g) ==
  \/ helper'[g] = "gone"
  \/ guardian'[g] \in {"failed", "killed"}
  \/ /\ helper'[g] = "serving" /\ g \notin lease' /\ guardian'[g] \in DOMAIN StepsLeft
     /\ guardian'[g] = guardian[g] \/ StepsLeft[guardian'[g]] < StepsLeft[guardian[g]]

\* A barrier does not serve, and who is about to commit saw the guardian exit.
GuardianInv ==
  /\ \A g \in Generations : guardian[g] = "barrier" => helper[g] # "serving"
  /\ \A c \in Creators : Doing(c, "commit") => guardian[GenOf(c)] = "exited"

\* A process goes to a commit only when it sees that its guardian exited.
LEMMA CommitMoves ==
  ASSUME SessionTypeOK, NEW c \in Creators,
         ReadOverview(c) \/ Recover(c) \/ InspectRuntime(c) \/ CreateSession(c) \/ KillCreator(c)
  PROVE  /\ \A d \in Creators \ {c} : creator'[d] = creator[d]
         /\ creator'[c].at = "commit" =>
              /\ creator'[c].row = creator[c].row /\ guardian' = guardian
              /\ guardian[GenOf(c)] = "exited"
<1> USE DEF SessionTypeOK, Doing, Then, Boundary, serving
<1>1. CASE ReadOverview(c) \/ Recover(c) \/ KillCreator(c)
  BY <1>1 DEF ReadOverview, Recover, KillCreator
<1>2. CASE InspectRuntime(c)
  BY <1>2 DEF InspectRuntime, InspectPrior, ProbeLive, ProbeMissing, MissingIsLost, MissingIsClean, MissingIsStopped,
     ReadBinding
<1>3. CASE Reserve(c) \/ ReserveRefused(c) \/ Rebind(c) \/ FailUnlaunched(c) \/ Prepare(c) \/ SpawnGuardian(c)
           \/ SpawnFails(c) \/ ServerReady(c) \/ Begin(c) \/ Post(c) \/ Verify(c) \/ CreationFails(c) \/ CloseLease(c)
  BY <1>3 DEF Reserve, ReserveRefused, Rebind, FailUnlaunched, Prepare, SpawnGuardian, SpawnFails, ServerReady, Begin,
     Post, Verify, CreationFails, CloseLease
<1>4. CASE GuardianExited(c)
  BY <1>4 DEF GuardianExited, Outcome, Nothing
<1>5. CASE GuardianFailed(c)
  BY <1>5 DEF GuardianFailed, Outcome, Nothing
<1>6. CASE Commit(c) \/ MarkUnknown(c) \/ MarkCleanupUnknown(c) \/ FailKnownAbsent(c) \/ Launch(c) \/ LaunchFails(c)
  BY <1>6 DEF Commit, MarkUnknown, MarkCleanupUnknown, MarkCreation, FailKnownAbsent, Launch, LaunchFails
<1> QED BY <1>1, <1>2, <1>3, <1>4, <1>5, <1>6 DEF CreateSession

\* A process changes guardian and helper only when it spawns a guardian, for a
\* generation that has none, and it gives nobody else a lease.
LEMMA CreatorSpawns ==
  ASSUME SessionTypeOK, CInv, NEW c \in Creators,
         ReadOverview(c) \/ Recover(c) \/ InspectRuntime(c) \/ CreateSession(c) \/ KillCreator(c)
  PROVE  /\ helper' = helper
         /\ \/ guardian' = guardian /\ lease' \subseteq lease
            \/ /\ SpawnGuardian(c) /\ GenOf(c) \in Generations /\ guardian[GenOf(c)] \in ServerGone
               /\ guardian' = [guardian EXCEPT ![GenOf(c)] = "spawned"] /\ lease' = lease \union {GenOf(c)}
<1>1. CASE SpawnGuardian(c)
  <2>1. CreationClaim(c) /\ creator[c].at = "spawn"
    BY <1>1 DEF CInv, SpawnGuardian, Doing
  <2>2. GenOf(c) \in Generations /\ guardian[GenOf(c)] \in ServerGone
    BY <2>1, LastGenerationAssumption DEF CreationClaim, ClaimOK, Owning, Generations, SessionTypeOK, Rows
  <2> QED BY <1>1, <2>2 DEF SpawnGuardian
<1>2. CASE KillCreator(c) \/ CloseLease(c)
  BY <1>2 DEF KillCreator, CloseLease
<1>3. ASSUME UNCHANGED serving PROVE helper' = helper /\ guardian' = guardian /\ lease' \subseteq lease
  BY <1>3 DEF serving
<1>4. CASE ReadOverview(c) \/ Recover(c) \/ InspectRuntime(c)
  BY <1>3, <1>4 DEF ReadOverview, Recover, InspectRuntime, InspectPrior, ProbeLive, ProbeMissing, MissingIsLost,
     MissingIsClean, MissingIsStopped, ReadBinding, Nothing
<1>5. CASE CreateSession(c) /\ ~SpawnGuardian(c) /\ ~CloseLease(c)
  BY <1>3, <1>5 DEF CreateSession, Reserve, ReserveRefused, Rebind, FailUnlaunched, Prepare, SpawnFails, ServerReady,
     Begin, Post, Verify, CreationFails, GuardianExited, GuardianFailed, Commit, MarkUnknown, MarkCleanupUnknown,
     MarkCreation, FailKnownAbsent, Launch, LaunchFails, Nothing
<1> QED BY <1>1, <1>2, <1>4, <1>5

\* What a guardian, its helper and who kills them do.
LEMMA GuardianSteps ==
  ASSUME SessionTypeOK, CInv, GuardianInv, NEW g \in Generations, Guard(g) \/ ServerExits(g) \/ KillGuardian(g)
  PROVE  /\ creator' = creator /\ lease' = lease
         /\ \A h \in Generations \ {g} : guardian'[h] = guardian[h] /\ helper'[h] = helper[h]
         /\ guardian[g] = "exited" => guardian'[g] = "exited"
         /\ guardian'[g] = "barrier" => helper'[g] # "serving"
         /\ g \in Owed => ComesCloser(g)
<1>1. /\ guardian \in [Generations -> GuardianExits \union
            {"none", "spawned", "barrier", "released", "ready", "clean", "clean_failed"}]
      /\ helper \in [Generations -> {"none", "barrier", "serving", "gone"}]
      /\ guardian[g] = "barrier" => helper[g] # "serving"
      /\ helper[g] = "serving" => guardian[g] \notin {"none", "exited", "spawned"}
  BY DEF SessionTypeOK, GuardianInv, CInv, Cell, ServerGone
<1>2. creator' = creator /\ lease' = lease
  BY DEF Guard, SpawnBarrier, GuardianRefuses, ReleaseBarrier, PublishReady, LeaseEnds, ServeFails, CleanUp, CleanUpFails,
     BarrierEnds, ServerExits, KillGuardian, OnlyGuardian
<1> USE DEF Guards, Becomes, GuardianExits
<1>3. \A h \in Generations \ {g} : guardian'[h] = guardian[h] /\ helper'[h] = helper[h]
  BY <1>1 DEF Guard, SpawnBarrier, GuardianRefuses, ReleaseBarrier, PublishReady, LeaseEnds, ServeFails, CleanUp,
     CleanUpFails, BarrierEnds, ServerExits, KillGuardian
<1>4. /\ guardian[g] = "exited" => guardian'[g] = "exited"
      /\ guardian'[g] = "barrier" => helper'[g] # "serving"
  BY <1>1 DEF Guard, SpawnBarrier, GuardianRefuses, ReleaseBarrier, PublishReady, LeaseEnds, ServeFails, CleanUp,
     CleanUpFails, BarrierEnds, ServerExits, KillGuardian
<1>5. ASSUME g \in Owed PROVE ComesCloser(g)
  <2>1. helper[g] = "serving" /\ g \notin lease' /\ guardian[g] \in {"released", "ready", "clean", "clean_failed"}
    BY <1>1, <1>2, <1>5 DEF Owed
  <2>2. CASE LeaseEnds(g)
    BY <1>1, <2>1, <2>2 DEF LeaseEnds, ComesCloser, StepsLeft
  <2>3. CASE ServeFails(g)
    BY <1>1, <2>1, <2>3 DEF ServeFails, ComesCloser, StepsLeft
  <2>4. CASE CleanUp(g) \/ ServerExits(g)
    BY <1>1, <2>4 DEF CleanUp, ServerExits, ComesCloser
  <2>5. CASE CleanUpFails(g) \/ KillGuardian(g)
    BY <1>1, <2>5 DEF CleanUpFails, KillGuardian, ComesCloser
  <2>6. ~(SpawnBarrier(g) \/ GuardianRefuses(g) \/ ReleaseBarrier(g) \/ PublishReady(g) \/ BarrierEnds(g))
    BY <1>2, <2>1 DEF SpawnBarrier, GuardianRefuses, ReleaseBarrier, PublishReady, BarrierEnds
  <2> QED BY <2>2, <2>3, <2>4, <2>5, <2>6 DEF Guard
<1> QED BY <1>2, <1>3, <1>4, <1>5

\* Every step keeps GuardianInv and brings every owed server closer to its end.
LEMMA OwedStep ==
  ASSUME SessionTypeOK, CInv, GuardianInv, [SessionNext]_sessionVars
  PROVE  GuardianInv' /\ \A g \in Owed : ComesCloser(g) \/ UNCHANGED sessionVars
<1>1. CASE UNCHANGED sessionVars
  BY <1>1 DEF sessionVars, GuardianInv, Doing, GenOf
<1>2. ASSUME NEW g \in Owed, helper'[g] = helper[g], guardian'[g] = guardian[g], g \notin lease'
      PROVE  ComesCloser(g)
  <2>1. g \in Generations /\ helper[g] = "serving" /\ guardian[g] \in {"released", "ready", "clean", "clean_failed"}
    BY DEF Owed, CInv, Cell, ServerGone, GuardianInv, SessionTypeOK, GuardianExits
  <2> QED BY <1>2, <2>1 DEF ComesCloser, StepsLeft
<1>3. ASSUME NEW c \in Creators,
             ReadOverview(c) \/ Recover(c) \/ InspectRuntime(c) \/ CreateSession(c) \/ KillCreator(c)
      PROVE  GuardianInv' /\ \A g \in Owed : ComesCloser(g)
  <2>1. /\ helper' = helper
        /\ \A g \in Generations : guardian[g] \notin ServerGone => guardian'[g] = guardian[g] /\ (g \in lease' => g \in lease)
        /\ \A g \in Generations : guardian'[g] \in {guardian[g], "spawned"}
    <3>1. CASE guardian' = guardian /\ lease' \subseteq lease
      BY <1>3, <3>1, CreatorSpawns
    <3>2. CASE ~(guardian' = guardian /\ lease' \subseteq lease)
      <4>1. /\ helper' = helper /\ GenOf(c) \in Generations /\ guardian[GenOf(c)] \in ServerGone
            /\ guardian' = [guardian EXCEPT ![GenOf(c)] = "spawned"] /\ lease' = lease \union {GenOf(c)}
        BY <1>3, <3>2, CreatorSpawns
      <4>2. guardian \in [Generations -> GuardianExits \union
              {"none", "spawned", "barrier", "released", "ready", "clean", "clean_failed"}]
        BY DEF SessionTypeOK
      <4> QED BY <4>1, <4>2
    <3> QED BY <3>1, <3>2
  <2>2. ASSUME NEW g \in Owed PROVE ComesCloser(g)
    <3>1. g \in Generations /\ guardian[g] \notin ServerGone /\ g \notin lease
      BY DEF Owed, CInv, Cell
    <3> QED BY <1>2, <2>1, <3>1
  <2>3. ASSUME NEW d \in Creators, creator'[d].at = "commit" PROVE guardian'[creator'[d].row.gen] = "exited"
    <3>1. CASE d = c
      BY <1>3, <2>3, <3>1, CommitMoves DEF GenOf
    <3>2. CASE d # c
      <4>1. creator'[d] = creator[d] /\ Doing(d, "commit") /\ guardian[GenOf(d)] = "exited"
        BY <1>3, <2>3, <3>2, CommitMoves DEF GuardianInv, Doing
      <4>2. GenOf(d) \in Generations /\ creation[GenOf(d)] = "external_effect_started"
        BY <4>1, LastGenerationAssumption DEF CInv, CreationClaim, ClaimOK, Owning, Generations, SessionTypeOK, Rows, Doing
      <4>3. SpawnGuardian(c) => GenOf(c) # GenOf(d)
        BY <3>2, <4>1 DEF SpawnGuardian, Doing, CInv, OneOwner, Owning
      <4> QED BY <1>3, <4>1, <4>2, <4>3, CreatorSpawns DEF GenOf, SessionTypeOK
    <3> QED BY <3>1, <3>2
  <2>4. ASSUME NEW g \in Generations, guardian'[g] = "barrier" PROVE helper'[g] # "serving"
    BY <2>1, <2>4 DEF GuardianInv
  <2> QED BY <2>2, <2>3, <2>4 DEF GuardianInv, Doing, GenOf
<1>4. ASSUME NEW g \in Generations, Guard(g) \/ ServerExits(g) \/ KillGuardian(g)
      PROVE  GuardianInv' /\ \A h \in Owed : ComesCloser(h)
  <2>1. ASSUME NEW h \in Owed PROVE ComesCloser(h)
    <3>1. h \in Generations /\ h \notin lease
      BY DEF Owed
    <3> QED BY <1>2, <1>4, <3>1, GuardianSteps
  <2>2. ASSUME NEW c \in Creators, Doing(c, "commit") PROVE guardian'[GenOf(c)] = "exited"
    <3>1. GenOf(c) \in Generations /\ guardian[GenOf(c)] = "exited"
      BY <2>2, LastGenerationAssumption
         DEF GuardianInv, CInv, CreationClaim, Owning, Generations, SessionTypeOK, Rows, Doing
    <3> QED BY <1>4, <3>1, GuardianSteps
  <2>3. \A h \in Generations : guardian'[h] = "barrier" => helper'[h] # "serving"
    BY <1>4, GuardianSteps DEF GuardianInv
  <2>4. creator' = creator
    BY <1>4, GuardianSteps
  <2> QED BY <2>1, <2>2, <2>3, <2>4 DEF GuardianInv, Doing, GenOf
<1>5. CASE ProviderLost \/ ProviderParked
  <2>1. helper' = helper /\ guardian' = guardian /\ lease' = lease /\ creator' = creator
    BY <1>5 DEF ProviderLost, ProviderParked, serving
  <2> QED BY <1>2, <2>1 DEF GuardianInv, Doing, GenOf, Owed
<1> QED BY <1>1, <1>3, <1>4, <1>5 DEF SessionNext

\* OwedServersComeCloser: a server whose lease ended is in the hands of a guardian
\* that is on its way to stop it (run_inner), and every step that touches it brings
\* that closer: the lease does not come back and the guardian does not go back.
THEOREM OwedServersComeCloser ==
  SessionSpec => /\ [](\A g \in Owed : guardian[g] \in DOMAIN StepsLeft)
                 /\ [][\A g \in Owed : ComesCloser(g)]_sessionVars
<1>1. SessionInit => GuardianInv
  BY DEF SessionInit, GuardianInv, Doing
<1>2. SessionTypeOK /\ CInv /\ GuardianInv /\ [SessionNext]_sessionVars
      => GuardianInv' /\ [\A g \in Owed : ComesCloser(g)]_sessionVars
  BY OwedStep
<1>3. SessionTypeOK /\ CInv /\ GuardianInv => \A g \in Owed : guardian[g] \in DOMAIN StepsLeft
  BY DEF Owed, CInv, Cell, ServerGone, GuardianInv, SessionTypeOK, GuardianExits, StepsLeft
<1> QED BY <1>1, <1>2, <1>3, SessionInvariant, PTL DEF SessionSpec

\* ServerIsGoneFirst: a session is committed, and a failed creation recorded as
\* known absent, only when its server no longer runs (close_and_wait): its own
\* guardian exited after the clean-up, or none was ever spawned.
THEOREM ServerIsGoneFirst ==
  SessionSpec => [](\A c \in Creators : Doing(c, "commit") \/ Doing(c, "known_absent") =>
                      helper[GenOf(c)] # "serving" /\ guardian[GenOf(c)] \in ServerGone)
<1>1. SessionInit => GuardianInv
  BY DEF SessionInit, GuardianInv, Doing
<1>2. SessionTypeOK /\ CInv /\ GuardianInv /\ [SessionNext]_sessionVars => GuardianInv'
  BY OwedStep
<1>3. SessionTypeOK /\ CInv /\ GuardianInv
      => \A c \in Creators : Doing(c, "commit") \/ Doing(c, "known_absent")
                             => helper[GenOf(c)] # "serving" /\ guardian[GenOf(c)] \in ServerGone
  <2> SUFFICES ASSUME SessionTypeOK, CInv, GuardianInv, NEW c \in Creators,
                      Doing(c, "commit") \/ Doing(c, "known_absent")
               PROVE  helper[GenOf(c)] # "serving" /\ guardian[GenOf(c)] \in ServerGone
    OBVIOUS
  <2>1. CreationClaim(c) /\ creator[c].at \in Owning
    BY DEF CInv, Doing, Owning
  <2>2. GenOf(c) \in Generations
    BY <2>1, LastGenerationAssumption DEF CreationClaim, Generations, SessionTypeOK, Rows
  <2>3. guardian[GenOf(c)] \in ServerGone
    BY <2>1 DEF CreationClaim, ClaimOK, GuardianInv, Doing, ServerGone
  <2>4. Cell(GenOf(c))
    BY <2>2 DEF CInv
  <2> QED BY <2>3, <2>4 DEF Cell
<1> QED BY <1>1, <1>2, <1>3, SessionInvariant, PTL DEF SessionSpec

-----------------------------------------------------------------------------
(* Observers.                                                              *)

Statuses == Observed \union {"none", "starting", "stopped", "unknown"}
Hints == [kind : {"none", "working", "settled", "started", "ended"}, message : 0..Turns, of : Statuses]
ObserverState == [at : ObserverSteps, candidate : 0..Turns, seen : Handles, hint : Hints]
ActorState == [at : ActorSteps, row : LiveRows, last : 0..Turns, handle : Handles]

\* Observers are processes, and one that settles has a message.
ObserversTyped == /\ observer \in [Gens -> ObserverState]
                  /\ \A g \in Gens : observer[g].hint.kind = "settled" => observer[g].hint.message # 0

\* The steps of a launch until the pid of its observer is recorded.
Spawning == {"spawn", "record_observer"}
Unrecorded == {"launch", "record_identity", "await_provider", "record_handle"} \union Spawning
Launching == Unrecorded \union {"await_observer"}

\* What a launch knows: its generation, that the handle names no observer of
\* that generation yet, and the handle it recorded.
Claim(o) ==
  /\ o.at \in Launching => o.row.gen \in 1..liveRow.gen
  /\ o.at \in Unrecorded /\ handle.gen = o.row.gen => handle.pid = 0
  /\ o.at \in Spawning => o.handle = [gen |-> o.row.gen, status |-> "starting", pid |-> 0]

\* Two launches are of different generations.
LaunchesDiffer == \A a, b \in Actors :
  a # b /\ actor[a].at \in Unrecorded /\ actor[b].at \in Unrecorded => Mine(a) # Mine(b)

\* The handle is not ahead of the row and names the observer of its generation.
HandleOK == /\ handle.gen <= liveRow.gen /\ handle.pid \in {0, handle.gen}
            /\ handle.status = "ready" => handle.pid # 0

\* What asked for attention is what was recorded as settled.
Counted == \A g \in Gens, m \in Messages : marked[g][m] = IF <<g, m>> \in settled THEN 1 ELSE 0

\* The inductive invariant.
ObserverInv == /\ ObserverTypeOK /\ ObserversTyped
               /\ \A a \in Actors : Claim(actor[a])
               /\ LaunchesDiffer /\ HandleOK /\ Counted /\ ReadyIsSupervised

-----------------------------------------------------------------------------
(* Types.                                                                  *)

Typed == ObserverTypeOK /\ ObserversTyped

\* Generations are positive numbers and 0 is none of them.
LEMMA GenerationsAre == Gens \subseteq Nat \ {0} /\ 0..Launches = Gens \union {0} /\ Launches \in Nat
BY LaunchesAssumption DEF Gens

\* The values of processes at rest.
LEMMA RestTyped ==
  /\ NoHandle \in Handles /\ NotStarted \in LiveRows /\ Fresh \in ActorState
  /\ Process \in ObserverState /\ Gone \in ObserverState /\ NoHint \in Hints
  /\ Gone.at = "gone" /\ Gone.hint.kind = "none" /\ Fresh.at = "idle"
<1>1. NoHandle \in Handles /\ NotStarted \in LiveRows /\ NoHint \in Hints
  BY LaunchesAssumption, TurnsAssumption DEF NoHandle, Handles, NotStarted, LiveRows, NoHint, Hints, Statuses
<1>2. Fresh \in ActorState /\ Fresh.at = "idle"
  BY <1>1, TurnsAssumption DEF Fresh, ActorState, ActorSteps
<1>3. Process \in ObserverState
  BY <1>1, TurnsAssumption DEF Process, ObserverState, ObserverSteps
<1>4. Gone \in ObserverState /\ Gone.at = "gone" /\ Gone.hint.kind = "none"
  BY <1>1, TurnsAssumption DEF Gone, Process, ObserverState, ObserverSteps, NoHint
<1> QED BY <1>1, <1>2, <1>3, <1>4

\* Initially every variable has its type.
LEMMA ObserverStarts == ObserverInit => ObserverInv
<1> SUFFICES ASSUME ObserverInit PROVE ObserverInv
  OBVIOUS
<1>1. ObserverTypeOK
  BY RestTyped, GenerationsAre, TurnsAssumption DEF ObserverInit, ObserverTypeOK, ObserverState, ActorState, Messages
<1>2. ObserversTyped
  BY RestTyped DEF ObserverInit, ObserversTyped, Process, NoHint
<1>3. (\A a \in Actors : Claim(actor[a])) /\ LaunchesDiffer
  BY RestTyped DEF ObserverInit, Claim, LaunchesDiffer, Launching, Unrecorded, Spawning
<1>4. HandleOK /\ Counted /\ ReadyIsSupervised
  BY DEF ObserverInit, HandleOK, Counted, ReadyIsSupervised, NoHandle, NotStarted
<1> QED BY <1>1, <1>2, <1>3, <1>4 DEF ObserverInv

\* A process goes to a step of its program.
LEMMA StepMoves ==
  ASSUME Typed, NEW a \in Actors, NEW step \in ActorSteps, Step(a, step)
  PROVE  /\ actor' \in [Actors -> ActorState]
         /\ actor'[a].at = step
         /\ step # "idle" => actor'[a].row = actor[a].row /\ actor'[a].handle = actor[a].handle
         /\ \A b \in Actors \ {a} : actor'[b] = actor[b]
<1>1. actor \in [Actors -> ActorState]
  BY DEF Typed, ObserverTypeOK, ActorState
<1>2. CASE step = "idle"
  BY <1>1, <1>2, RestTyped DEF Step
<1>3. CASE step # "idle"
  BY <1>1, <1>3 DEF Step, ActorState
<1> QED BY <1>2, <1>3

\* What one observer becomes and what the others stay.
ActorBecomes(g, at) == /\ observer' \in [Gens -> ObserverState] /\ ObserversTyped'
                  /\ observer'[g].at = at
                  /\ \A h \in Gens \ {g} : observer'[h] = observer[h]

\* One observer changes as an EXCEPT says.
LEMMA BecomesSo ==
  ASSUME Typed, NEW g \in Gens, NEW o \in ObserverState, observer' = [observer EXCEPT ![g] = o],
         o.hint.kind = "settled" => o.hint.message # 0
  PROVE  ActorBecomes(g, o.at)
BY DEF Typed, ObserversTyped, ActorBecomes

\* The ways in which the actions change an observer.
LEMMA ObserverMoves ==
  ASSUME Typed, NEW g \in Gens
  PROVE  /\ \A step \in ObserverSteps : Becoming(g, step) => ActorBecomes(g, step)
         /\ \A step \in ObserverSteps : Applied(g, step) => ActorBecomes(g, step)
         /\ \A m \in 0..Turns : Candidate(g, m) => ActorBecomes(g, observer[g].at)
         /\ \A kind \in {"working", "settled", "started", "ended"}, m, c \in 0..Turns :
              Hint(g, kind, m, c) /\ (kind = "settled" => m # 0) => ActorBecomes(g, "apply")
<1>1. observer[g] \in ObserverState /\ (observer[g].hint.kind = "settled" => observer[g].hint.message # 0)
  BY DEF Typed, ObserversTyped
<1>2. observer \in [Gens -> ObserverState]
  BY DEF Typed, ObserversTyped
<1>3. ASSUME NEW step \in ObserverSteps, Becoming(g, step) PROVE ActorBecomes(g, step)
  <2> DEFINE o == IF step = "gone" THEN Gone ELSE [observer[g] EXCEPT !.at = step]
  <2>1. o \in ObserverState /\ o.at = step /\ (o.hint.kind = "settled" => o.hint.message # 0)
    BY <1>1, RestTyped DEF ObserverState
  <2>2. observer' = [observer EXCEPT ![g] = o]
    BY <1>2, <1>3 DEF Becoming
  <2> QED BY <2>1, <2>2, BecomesSo
<1>4. ASSUME NEW step \in ObserverSteps, Applied(g, step) PROVE ActorBecomes(g, step)
  <2> DEFINE o == IF step = "gone" THEN Gone ELSE [observer[g] EXCEPT !.at = step, !.hint = NoHint]
  <2>1. o \in ObserverState /\ o.at = step /\ (o.hint.kind = "settled" => o.hint.message # 0)
    BY <1>1, RestTyped DEF ObserverState, NoHint
  <2>2. observer' = [observer EXCEPT ![g] = o]
    BY <1>2, <1>4 DEF Applied
  <2> QED BY <2>1, <2>2, BecomesSo
<1>5. ASSUME NEW m \in 0..Turns, Candidate(g, m) PROVE ActorBecomes(g, observer[g].at)
  <2> DEFINE o == [observer[g] EXCEPT !.candidate = m]
  <2>1. o \in ObserverState /\ o.at = observer[g].at /\ (o.hint.kind = "settled" => o.hint.message # 0)
    BY <1>1 DEF ObserverState
  <2>2. observer' = [observer EXCEPT ![g] = o]
    BY <1>2, <1>5 DEF Candidate
  <2> QED BY <2>1, <2>2, BecomesSo
<1>6. ASSUME NEW kind \in {"working", "settled", "started", "ended"}, NEW m \in 0..Turns, NEW c \in 0..Turns,
             Hint(g, kind, m, c), kind = "settled" => m # 0
      PROVE  ActorBecomes(g, "apply")
  <2> DEFINE n == [kind |-> kind, message |-> m, of |-> liveRow.status]
             o == [observer[g] EXCEPT !.at = "apply", !.candidate = c, !.hint = n]
  <2>1. n \in Hints
    BY DEF Hints, Typed, ObserverTypeOK, LiveRows, Statuses
  <2>2. o \in ObserverState /\ o.at = "apply" /\ o.hint = n
    BY <1>1, <2>1 DEF ObserverState, ObserverSteps
  <2>3. observer' = [observer EXCEPT ![g] = o]
    BY <1>2, <1>6 DEF Hint
  <2>4. n.kind = kind /\ n.message = m
    OBVIOUS
  <2> HIDE DEF o, n
  <2> QED BY <1>6, <2>2, <2>3, <2>4, BecomesSo
<1> QED BY <1>3, <1>4, <1>5, <1>6

\* An observer that somebody stopped.
LEMMA ObserverStopMoves ==
  ASSUME Typed, NEW pid \in 0..Launches, StopObserver(pid)
  PROVE  /\ observer' \in [Gens -> ObserverState] /\ ObserversTyped'
         /\ stopped \subseteq stopped' /\ stopped' \subseteq Gens
         /\ \A g \in Gens : observer'[g] = observer[g] \/ g \in stopped'
<1>1. CASE pid = 0
  BY <1>1 DEF StopObserver, Typed, ObserverTypeOK, ObserversTyped
<1>2. CASE pid # 0
  <2>1. pid \in Gens
    BY <1>2, GenerationsAre
  <2>2. observer' = [observer EXCEPT ![pid] = Gone] /\ stopped' = stopped \union {pid}
    BY <1>2 DEF StopObserver
  <2>3. ActorBecomes(pid, "gone")
    BY <2>1, <2>2, RestTyped, BecomesSo
  <2> QED BY <2>1, <2>2, <2>3 DEF ActorBecomes, Typed, ObserverTypeOK
<1> QED BY <1>1, <1>2

\* The type of the whole from the types of what an action changes.
LEMMA TypedSo ==
  ASSUME liveRow' \in LiveRows, workstream' \in {"open", "parked", "recovery_required"},
         bound' \in [gen : 0..Launches, source : {"none", "new", "resume"}, last : 0..Turns],
         settled' \subseteq Gens \X Messages, handle' \in Handles,
         ObserversTyped', provider' \in 0..Launches, session' \in [busy : BOOLEAN, done : 0..Turns],
         actor' \in [Actors -> ActorState], marked' \in [Gens -> [Messages -> Nat]], stopped' \subseteq Gens
  PROVE  Typed'
BY DEF Typed, ObserverTypeOK, ObserversTyped, ObserverState, ActorState

\* What the types say of each variable.
LEMMA TypedParts ==
  ASSUME Typed
  PROVE  /\ liveRow \in LiveRows /\ workstream \in {"open", "parked", "recovery_required"}
         /\ bound \in [gen : 0..Launches, source : {"none", "new", "resume"}, last : 0..Turns]
         /\ settled \subseteq Gens \X Messages /\ handle \in Handles /\ ObserversTyped
         /\ provider \in 0..Launches /\ session \in [busy : BOOLEAN, done : 0..Turns]
         /\ actor \in [Actors -> ActorState] /\ marked \in [Gens -> [Messages -> Nat]]
         /\ stopped \subseteq Gens
BY DEF Typed, ObserverTypeOK, ActorState

-----------------------------------------------------------------------------
(* What keeps the invariant.                                               *)

Supervising == {"watching", "apply"}
Ended == {"stopped", "unknown"}

\* A process that launches went on with its own launch.
LaunchFollows(b) == actor'[b].at \in Launching =>
  /\ actor[b].at \in Launching /\ actor'[b].row = actor[b].row
  /\ actor'[b].at \in Unrecorded => actor[b].at \in Unrecorded
  /\ actor'[b].at \in Spawning => actor[b].at \in Spawning /\ actor'[b].handle = actor[b].handle

\* An observer with a Ready handle goes on or somebody knows.
Watched(g) == handle.status = "ready" /\ handle.pid = g /\ observer[g].at \in Supervising =>
  \/ observer'[g].at \in Supervising \/ g \in stopped' \/ handle' # handle
  \/ liveRow'.status \in Ended \/ handle.gen # liveRow.gen

\* A step that reserves, records and spawns nothing.
LEMMA ObserverStepKeeps ==
  ASSUME ObserverInv, Typed', liveRow'.gen = liveRow.gen,
         liveRow.status \in Ended => liveRow'.status \in Ended,
         handle' \in {handle, [handle EXCEPT !.status = "unknown"], NoHandle},
         \A b \in Actors : LaunchFollows(b), \A g \in Gens : Watched(g),
         stopped \subseteq stopped', Counted'
  PROVE  ObserverInv'
<1>1. handle \in Handles /\ liveRow \in LiveRows
  BY TypedParts DEF ObserverInv, Typed
<1>2. \/ handle'.gen = handle.gen /\ handle'.pid = handle.pid
      \/ handle'.gen = 0 /\ handle'.pid = 0
  <2>1. NoHandle.gen = 0 /\ NoHandle.pid = 0
    BY DEF NoHandle
  <2>2. [handle EXCEPT !.status = "unknown"].gen = handle.gen /\ [handle EXCEPT !.status = "unknown"].pid = handle.pid
    BY <1>1 DEF Handles
  <2>3. CASE handle' = [handle EXCEPT !.status = "unknown"]
    BY <2>2, <2>3
  <2>4. CASE handle' \in {handle, NoHandle}
    BY <2>1, <2>4
  <2> QED BY <2>3, <2>4
<1>3. handle'.status = "ready" => handle' = handle
  BY <1>1 DEF Handles, NoHandle
<1>4. HandleOK'
  <2>1. handle.gen \in 0..Launches /\ liveRow.gen \in 0..Launches /\ HandleOK
    BY <1>1 DEF ObserverInv, LiveRows, Handles
  <2>2. handle'.gen <= liveRow'.gen
    BY <1>2, <2>1, GenerationsAre DEF HandleOK
  <2>3. handle'.pid \in {0, handle'.gen} /\ (handle'.status = "ready" => handle'.pid # 0)
    BY <1>2, <1>3, <2>1 DEF HandleOK
  <2> QED BY <2>2, <2>3 DEF HandleOK
<1>5. ASSUME NEW b \in Actors PROVE Claim(actor[b])'
  <2>1. Claim(actor[b]) /\ LaunchFollows(b)
    BY DEF ObserverInv
  <2>2. actor'[b].at \in Unrecorded => actor[b].at \in Unrecorded /\ actor'[b].row.gen \in 1..liveRow.gen
    BY <2>1 DEF Claim, LaunchFollows, Launching
  <2>3. actor'[b].at \in Unrecorded /\ handle'.gen = actor'[b].row.gen => handle'.pid = 0
    BY <1>2, <2>1, <2>2 DEF Claim, LaunchFollows, Launching
  <2>4. actor'[b].at \in Spawning => actor'[b].at \in Launching
    BY DEF Launching, Unrecorded
  <2> QED BY <2>1, <2>3, <2>4 DEF Claim, LaunchFollows
<1>6. LaunchesDiffer'
  BY DEF ObserverInv, LaunchesDiffer, LaunchFollows, Mine, Launching
<1>7. ReadyIsSupervised'
  <2> SUFFICES ASSUME handle'.status = "ready"
               PROVE  \/ observer'[handle.pid].at \in Supervising
                      \/ handle.pid \in stopped'
                      \/ liveRow'.status \in Ended \/ liveRow'.gen # handle.gen
    BY <1>3 DEF ReadyIsSupervised, Supervising, Ended
  <2>1. handle' = handle /\ handle.pid \in Gens
    BY <1>1, <1>3, GenerationsAre DEF ObserverInv, HandleOK, Handles
  <2>2. Watched(handle.pid)
    BY <2>1
  <2> QED BY <2>1, <2>2 DEF ObserverInv, ReadyIsSupervised, Watched, Supervising, Ended
<1> QED BY <1>4, <1>5, <1>6, <1>7 DEF ObserverInv, Typed

\* A process takes a step of its program that is not into a launch.
LEMMA LaunchStepFollows ==
  ASSUME Typed, NEW a \in Actors, NEW step \in ActorSteps, Step(a, step),
         step \in Launching => actor[a].at \in Launching,
         step \in Unrecorded => actor[a].at \in Unrecorded,
         step \in Spawning => actor[a].at \in Spawning
  PROVE  actor' \in [Actors -> ActorState] /\ \A b \in Actors : LaunchFollows(b)
BY StepMoves DEF LaunchFollows, Launching, Unrecorded, Spawning

\* No actor moves.
LEMMA NobodyMoves ==
  ASSUME UNCHANGED actor
  PROVE  \A b \in Actors : LaunchFollows(b)
BY DEF LaunchFollows

\* Observers that stay or were stopped.
LEMMA StoppedWatched ==
  ASSUME \A g \in Gens : observer'[g] = observer[g] \/ g \in stopped'
  PROVE  \A g \in Gens : Watched(g)
BY DEF Watched

\* One observer that moves on or ends with its handle.
LEMMA OneWatched ==
  ASSUME NEW g \in Gens, NEW at, ActorBecomes(g, at),
         \/ at \in Supervising \/ observer[g].at \notin Supervising
         \/ handle.status = "ready" /\ handle.pid = g => handle' # handle \/ liveRow'.status \in Ended
                                                       \/ handle.gen # liveRow.gen
  PROVE  \A h \in Gens : Watched(h)
BY DEF Watched, ActorBecomes

\* A handle that is marked unknown, or is of another generation.
LEMMA MarkedUnknown ==
  ASSUME ObserverInv, NEW g \in Gens, MarkUnknownIfOf(g)
  PROVE  /\ handle' \in {handle, [handle EXCEPT !.status = "unknown"], NoHandle} /\ handle' \in Handles
         /\ handle.status = "ready" /\ handle.pid = g => handle' # handle
<1>1. handle \in Handles
  BY TypedParts DEF ObserverInv, Typed
<1>2. handle.pid = g => handle.gen = g /\ handle.pid # 0
  BY GenerationsAre DEF ObserverInv, HandleOK
<1>3. [handle EXCEPT !.status = "unknown"] \in Handles /\ [handle EXCEPT !.status = "unknown"].status = "unknown"
  BY <1>1 DEF Handles
<1>4. CASE handle.gen = g /\ handle.pid # 0
  BY <1>3, <1>4 DEF MarkUnknownIfOf
<1>5. CASE ~(handle.gen = g /\ handle.pid # 0)
  BY <1>1, <1>2, <1>5 DEF MarkUnknownIfOf
<1> QED BY <1>4, <1>5

\* Nothing is settled.
LEMMA NothingSettled ==
  ASSUME ObserverInv, UNCHANGED <<settled, marked>>
  PROVE  Counted'
BY DEF ObserverInv, Counted

\* The status of the row moves.
LEMMA StatusMoves ==
  ASSUME Typed, NEW status \in Statuses, SetStatus(status)
  PROVE  liveRow' \in LiveRows /\ liveRow'.gen = liveRow.gen /\ liveRow'.status = status
BY DEF Typed, ObserverTypeOK, LiveRows, Statuses, SetStatus

\* The session ends with its provider.
LEMMA ProviderStops ==
  ASSUME Typed, StopProvider
  PROVE  provider' \in 0..Launches /\ session' \in [busy : BOOLEAN, done : 0..Turns]
<1>1. provider' = 0 /\ session' = [session EXCEPT !.busy = FALSE]
  BY DEF StopProvider
<1>2. session \in [busy : BOOLEAN, done : 0..Turns]
  BY TypedParts
<1> QED BY <1>1, <1>2, GenerationsAre

\* A step in parts: the rows, the handle, the observers, the world, the actors.
RowOK == /\ liveRow' \in LiveRows /\ liveRow'.gen = liveRow.gen
         /\ liveRow.status \in Ended => liveRow'.status \in Ended
         /\ workstream' \in {"open", "parked", "recovery_required"}
HandleMoves == handle' \in {handle, [handle EXCEPT !.status = "unknown"], NoHandle}
ObserversOK == /\ ObserversTyped' /\ stopped \subseteq stopped' /\ stopped' \subseteq Gens
               /\ \A g \in Gens : Watched(g)
WorldOK == provider' \in 0..Launches /\ session' \in [busy : BOOLEAN, done : 0..Turns]
ActorsOK == actor' \in [Actors -> ActorState] /\ \A b \in Actors : LaunchFollows(b)

\* An action none of whose parts disturbs what the invariant relates.
LEMMA ObserverQuietKeeps ==
  ASSUME ObserverInv, RowOK, HandleMoves, ObserversOK, WorldOK, ActorsOK, UNCHANGED <<bound, settled, marked>>
  PROVE  ObserverInv'
<1>1. Typed
  BY DEF ObserverInv, Typed
<1>2. handle' \in Handles
  <2>1. handle \in Handles
    BY <1>1, TypedParts
  <2>2. [handle EXCEPT !.status = "unknown"] \in Handles
    BY <2>1 DEF Handles
  <2> QED BY <2>1, <2>2, RestTyped DEF HandleMoves
<1>3. Typed'
  BY <1>1, <1>2, TypedParts, TypedSo DEF RowOK, ObserversOK, WorldOK, ActorsOK
<1> QED BY <1>3, NothingSettled, ObserverStepKeeps DEF RowOK, HandleMoves, ObserversOK, ActorsOK

\* What stays is in order.
LEMMA StayingOK ==
  ASSUME ObserverInv
  PROVE  /\ UNCHANGED <<liveRow, workstream>> => RowOK
         /\ UNCHANGED handle => HandleMoves
         /\ UNCHANGED <<observer, stopped>> => ObserversOK
         /\ UNCHANGED world => WorldOK
         /\ UNCHANGED actor => ActorsOK
<1>1. Typed
  BY DEF ObserverInv, Typed
<1>2. UNCHANGED <<observer, stopped>> => ObserversOK
  BY <1>1, TypedParts, StoppedWatched DEF ObserversOK, ObserversTyped
<1> QED BY <1>1, <1>2, TypedParts DEF RowOK, HandleMoves, WorldOK, ActorsOK, LaunchFollows, world

\* The effects that actions share are in order.
LEMMA EffectsOK ==
  ASSUME ObserverInv
  PROVE  /\ FenceRuntime => RowOK
         /\ \A g \in Gens : MarkUnknownIfOf(g) => HandleMoves
         /\ \A pid \in 0..Launches : StopObserver(pid) => ObserversOK
         /\ StopProvider => WorldOK
         /\ \A p \in 0..Launches : provider' = p /\ UNCHANGED session => WorldOK
         /\ \A a \in Actors, step \in ActorSteps \ Launching : Step(a, step) => ActorsOK
<1>1. Typed
  BY DEF ObserverInv, Typed
<1>2. FenceRuntime => RowOK
  BY <1>1, StatusMoves DEF FenceRuntime, RowOK, Ended, Statuses
<1>3. \A pid \in 0..Launches : StopObserver(pid) => ObserversOK
  BY <1>1, ObserverStopMoves, StoppedWatched DEF ObserversOK
<1>4. ASSUME NEW a \in Actors, NEW step \in ActorSteps \ Launching, Step(a, step) PROVE ActorsOK
  <2>1. step \notin Launching /\ step \notin Unrecorded /\ step \notin Spawning /\ step \in ActorSteps
    BY DEF Launching, Unrecorded
  <2>2. actor' \in [Actors -> ActorState]
    BY <1>1, <1>4, <2>1, StepMoves
  <2>3. \A b \in Actors : LaunchFollows(b)
    BY <1>1, <1>4, <2>1, LaunchStepFollows
  <2> QED BY <2>2, <2>3 DEF ActorsOK
<1> QED BY <1>1, <1>2, <1>3, <1>4, MarkedUnknown, ProviderStops, TypedParts DEF HandleMoves, WorldOK

\* The steps of a launch up to its handle, and its failures.
LEMMA LaunchKeeps ==
  ASSUME ObserverInv, NEW a \in Actors,
         \/ LaunchPane(a) \/ LaunchUnidentified(a) \/ RecordIdentity(a) \/ ProviderReady(a) \/ LaunchFailed(a)
         \/ ObserverReady(a) \/ ObserverFailed(a) \/ CleanObserver(a) \/ CleanRuntime(a) \/ Fence(a)
  PROVE  ObserverInv'
<1>1. Typed /\ actor[a] \in ActorState /\ handle \in Handles /\ Claim(actor[a])
  BY TypedParts DEF ObserverInv, Typed
<1>2. Mine(a) \in 0..Launches /\ (actor[a].at \in Launching => Mine(a) \in Gens) /\ handle.pid \in 0..Launches
  BY <1>1, GenerationsAre DEF ActorState, LiveRows, Mine, Claim, ObserverInv, ObserverTypeOK, Typed, Handles, Gens
<1>3. CASE LaunchPane(a)
  <2>1. ActorsOK
    BY <1>1, <1>3, LaunchStepFollows DEF LaunchPane, On, ActorsOK, ActorSteps, Launching, Unrecorded, Spawning
  <2> QED BY <1>2, <1>3, <2>1, StayingOK, EffectsOK, ObserverQuietKeeps DEF LaunchPane, liveRows
<1>4. CASE RecordIdentity(a)
  <2>1. ActorsOK
    BY <1>1, <1>4, LaunchStepFollows DEF RecordIdentity, On, ActorsOK, ActorSteps, Launching, Unrecorded, Spawning
  <2>2. RowOK
    BY <1>1, <1>4, TypedParts DEF RecordIdentity, RowOK, LiveRows
  <2> QED BY <1>4, <2>1, <2>2, StayingOK, ObserverQuietKeeps DEF RecordIdentity
<1>5. CASE ProviderReady(a)
  <2>1. ActorsOK
    BY <1>1, <1>5, LaunchStepFollows DEF ProviderReady, On, ActorsOK, ActorSteps, Launching, Unrecorded, Spawning
  <2> QED BY <1>5, <2>1, StayingOK, ObserverQuietKeeps DEF ProviderReady, liveRows
<1>6. {"failed", "clean_runtime", "fence", "idle"} \subseteq ActorSteps \ Launching
  BY DEF ActorSteps, Launching, Unrecorded, Spawning
<1>7. CASE LaunchUnidentified(a)
  BY <1>6, <1>7, StayingOK, EffectsOK, ObserverQuietKeeps DEF LaunchUnidentified
<1>8. CASE LaunchFailed(a)
  BY <1>6, <1>8, StayingOK, EffectsOK, ObserverQuietKeeps DEF LaunchFailed, liveRows
<1>9. CASE ObserverReady(a)
  BY <1>6, <1>9, StayingOK, EffectsOK, ObserverQuietKeeps DEF ObserverReady, liveRows
<1>10. CASE ObserverFailed(a)
  <2>1. Mine(a) \in Gens
    BY <1>2, <1>10 DEF ObserverFailed, On, Launching
  <2> QED BY <1>2, <1>6, <1>10, <2>1, StayingOK, EffectsOK, ObserverQuietKeeps DEF ObserverFailed, liveRows, Keep, world
<1>11. CASE CleanObserver(a)
  BY <1>2, <1>6, <1>11, StayingOK, EffectsOK, ObserverQuietKeeps DEF CleanObserver, liveRows, Keep, world
<1>12. CASE CleanRuntime(a)
  BY <1>6, <1>12, StayingOK, EffectsOK, ObserverQuietKeeps DEF CleanRuntime, liveRows
<1>13. CASE Fence(a)
  BY <1>6, <1>13, StayingOK, EffectsOK, ObserverQuietKeeps DEF Fence
<1> QED BY <1>3, <1>4, <1>5, <1>7, <1>8, <1>9, <1>10, <1>11, <1>12, <1>13

\* A park, a recovery up to its reservation, and the death of a process.
LEMMA ParkKeeps ==
  ASSUME ObserverInv, NEW a \in Actors,
         ParkRuntime(a) \/ BeginRecovery(a) \/ StopLost(a) \/ ActorDies(a)
  PROVE  ObserverInv'
<1>1. Typed /\ actor[a] \in ActorState /\ handle \in Handles /\ actor[a].handle.pid \in 0..Launches
  BY TypedParts DEF ObserverInv, Typed, ActorState, Handles
<1>2. {"park_provider", "park_row", "park_handle", "park_failed", "recover_reserve", "idle"} \subseteq ActorSteps \ Launching
  BY DEF ActorSteps, Launching, Unrecorded, Spawning
<1>3. CASE BeginPark(a) \/ BeginRecovery(a)
  <2>1. PICK at \in {"park_observer", "recover_stop"} :
          actor' = [actor EXCEPT ![a] = [at |-> at, row |-> liveRow, last |-> bound.last, handle |-> handle]]
    BY <1>3 DEF BeginPark, BeginRecovery
  <2>2. [at |-> at, row |-> liveRow, last |-> bound.last, handle |-> handle] \in ActorState /\ at \notin Launching
    BY <1>1, <2>1, TypedParts DEF ActorState, ActorSteps, Launching, Unrecorded, Spawning
  <2>3. ActorsOK
    BY <1>1, <2>1, <2>2, TypedParts DEF ActorsOK, LaunchFollows
  <2> QED BY <1>3, <2>3, StayingOK, ObserverQuietKeeps DEF BeginPark, BeginRecovery, liveRows
<1>4. CASE ParkObserver(a)
  BY <1>1, <1>2, <1>4, StayingOK, EffectsOK, ObserverQuietKeeps DEF ParkObserver, liveRows, Keep, world
<1>5. CASE ParkProvider(a)
  BY <1>2, <1>5, StayingOK, EffectsOK, ObserverQuietKeeps DEF ParkProvider, liveRows
<1>6. CASE DeleteHandle(a)
  BY <1>2, <1>6, StayingOK, EffectsOK, ObserverQuietKeeps DEF DeleteHandle, liveRows, HandleMoves
<1>7. CASE ParkRow(a)
  <2>1. SetStatus("stopped") /\ workstream' = "parked" => RowOK
    BY <1>1, StatusMoves DEF RowOK, Ended, Statuses
  <2> QED BY <1>2, <1>7, <2>1, StayingOK, EffectsOK, ObserverQuietKeeps DEF ParkRow
<1>8. CASE ParkFailed(a)
  BY <1>2, <1>8, StayingOK, EffectsOK, ObserverQuietKeeps DEF ParkFailed
<1>9. CASE StopLost(a)
  BY <1>1, <1>2, <1>9, StayingOK, EffectsOK, ObserverQuietKeeps DEF StopLost, liveRows
<1>10. CASE ActorDies(a)
  BY <1>2, <1>10, StayingOK, EffectsOK, ObserverQuietKeeps DEF ActorDies, liveRows
<1> QED BY <1>3, <1>4, <1>5, <1>6, <1>7, <1>8, <1>9, <1>10 DEF ParkRuntime

\* Lost providers, refuted handles, turns of the session, and deaths.
LEMMA SessionWorldKeeps ==
  ASSUME ObserverInv,
         \/ ReconcileLost \/ RefuteHandle \/ TurnStarts \/ TurnCompletes \/ ProviderDies
         \/ \E g \in Gens : ObserverDies(g)
  PROVE  ObserverInv'
<1>1. Typed
  BY DEF ObserverInv, Typed
<1>2. CASE ReconcileLost
  BY <1>2, StayingOK, EffectsOK, ObserverQuietKeeps DEF ReconcileLost
<1>3. CASE RefuteHandle
  BY <1>3, StayingOK, ObserverQuietKeeps DEF RefuteHandle, HandleMoves, liveRows
<1>4. CASE TurnStarts \/ TurnCompletes
  <2>1. provider' \in 0..Launches /\ session \in [busy : BOOLEAN, done : 0..Turns]
    BY <1>1, <1>4, TypedParts DEF TurnStarts, TurnCompletes
  <2>2. session' \in [busy : BOOLEAN, done : 0..Turns]
    <3>1. CASE TurnStarts
      BY <2>1, <3>1 DEF TurnStarts
    <3>2. CASE TurnCompletes
      <4>1. session.done + 1 \in 0..Turns /\ session' = [busy |-> FALSE, done |-> session.done + 1]
        BY <2>1, <3>2, TurnsAssumption DEF TurnCompletes
      <4> QED BY <4>1
    <3> QED BY <1>4, <3>1, <3>2
  <2>3. WorldOK
    BY <2>1, <2>2 DEF WorldOK
  <2> QED BY <1>4, <2>3, StayingOK, ObserverQuietKeeps DEF TurnStarts, TurnCompletes, liveRows
<1>5. CASE ProviderDies
  BY <1>5, StayingOK, EffectsOK, ObserverQuietKeeps DEF ProviderDies, liveRows
<1>6. ASSUME NEW g \in Gens, ObserverDies(g) PROVE ObserverInv'
  <2>1. g \in 0..Launches
    BY GenerationsAre
  <2> QED BY <1>6, <2>1, StayingOK, EffectsOK, ObserverQuietKeeps DEF ObserverDies, liveRows, Keep, world
<1> QED BY <1>2, <1>3, <1>4, <1>5, <1>6

\* A generation is reserved.
LEMMA ReserveKeeps ==
  ASSUME ObserverInv, NEW a \in Actors, liveRow.gen < Launches, liveRow' = NextLaunch,
         workstream' \in {"open", "parked", "recovery_required"},
         NEW source \in {"new", "resume"}, bound' = [bound EXCEPT !.gen = NextLaunch.gen, !.source = source],
         actor[a].at \notin Unrecorded,
         actor' = [actor EXCEPT ![a].at = "launch", ![a].row = NextLaunch, ![a].last = bound.last],
         UNCHANGED <<settled, handle, observer, world, marked, stopped>>
  PROVE  ObserverInv'
<1>1. Typed /\ actor \in [Actors -> ActorState] /\ liveRow \in LiveRows /\ handle \in Handles
  BY TypedParts DEF ObserverInv, Typed
<1>2. bound \in [gen : 0..Launches, source : {"none", "new", "resume"}, last : 0..Turns]
  BY <1>1, TypedParts
<1>3. liveRow.gen \in 0..Launches /\ NextLaunch.gen = liveRow.gen + 1 /\ NextLaunch.gen \in 1..Launches
  BY <1>1, GenerationsAre DEF NextLaunch, LiveRows
<1>4. NextLaunch \in LiveRows
  BY <1>3 DEF NextLaunch, LiveRows
<1>5. bound'.last = bound.last /\ bound' \in [gen : 0..Launches, source : {"none", "new", "resume"}, last : 0..Turns]
  <2> DEFINE n == NextLaunch.gen
  <2>1. n \in 0..Launches /\ source \in {"none", "new", "resume"}
    BY <1>3, GenerationsAre
  <2>2. bound' = [bound EXCEPT !.gen = n, !.source = source]
    OBVIOUS
  <2> HIDE DEF n
  <2> QED BY <1>2, <2>1, <2>2
<1>6. actor' \in [Actors -> ActorState]
  <2> DEFINE o == [actor[a] EXCEPT !.at = "launch", !.row = NextLaunch, !.last = bound.last]
  <2>1. bound.last \in 0..Turns /\ "launch" \in ActorSteps /\ actor[a] \in ActorState
    BY <1>1, <1>2 DEF ActorSteps
  <2>2. o \in ActorState
    BY <1>4, <2>1 DEF ActorState
  <2>3. actor' = [actor EXCEPT ![a] = o]
    BY <1>1
  <2> HIDE DEF o
  <2> QED BY <1>1, <2>2, <2>3
<1>7. Typed'
  <2>1. ObserversTyped'
    BY <1>1, TypedParts DEF ObserversTyped
  <2> QED BY <1>1, <1>4, <1>5, <1>6, <2>1, TypedParts, TypedSo DEF world
<1>8. handle.gen \in 0..Launches /\ handle.gen <= liveRow.gen /\ liveRow'.gen = liveRow.gen + 1
  BY <1>1, <1>3 DEF ObserverInv, HandleOK, Handles
<1>9. HandleOK'
  BY <1>3, <1>8, GenerationsAre DEF ObserverInv, HandleOK
<1>10. actor'[a].at = "launch" /\ actor'[a].row = NextLaunch /\ \A b \in Actors \ {a} : actor'[b] = actor[b]
  BY <1>1 DEF ActorState
<1>11. \A b \in Actors : actor[b].at \in Unrecorded \union {"await_observer"} => actor[b].row.gen \in 1..liveRow.gen
  BY DEF ObserverInv, Claim, Launching
<1>12. ASSUME NEW b \in Actors PROVE Claim(actor[b])'
  <2>1. CASE b = a
    <3>1. actor'[b].row.gen = liveRow.gen + 1 /\ actor'[b].at = "launch" /\ handle'.gen # liveRow.gen + 1
      BY <1>3, <1>8, <1>10, <2>1, GenerationsAre
    <3>2. actor'[b].row.gen \in 1..liveRow'.gen
      BY <1>3, <1>8, <3>1, GenerationsAre
    <3> QED BY <3>1, <3>2 DEF Claim, Spawning
  <2>2. CASE b # a
    <3>1. actor'[b] = actor[b] /\ Claim(actor[b])
      BY <1>10, <2>2 DEF ObserverInv
    <3>2. 1..liveRow.gen \subseteq 1..liveRow'.gen
      BY <1>3, <1>8, GenerationsAre
    <3> QED BY <3>1, <3>2 DEF Claim
  <2> QED BY <2>1, <2>2
<1>13. LaunchesDiffer'
  <2> SUFFICES ASSUME NEW b \in Actors, NEW c \in Actors, b # c,
                      actor'[b].at \in Unrecorded, actor'[c].at \in Unrecorded
               PROVE  actor'[b].row.gen # actor'[c].row.gen
    BY DEF LaunchesDiffer, Mine
  <2>1. CASE b # a /\ c # a
    BY <1>10, <2>1 DEF ObserverInv, LaunchesDiffer, Mine
  <2>2. ASSUME NEW d \in Actors \ {a}, actor'[d].at \in Unrecorded
        PROVE  actor'[d].row.gen # actor'[a].row.gen
    <3>1. actor'[d] = actor[d] /\ actor[d].row.gen \in 1..liveRow.gen
      BY <1>10, <1>11, <2>2
    <3>2. actor'[a].row.gen = liveRow.gen + 1
      BY <1>3, <1>10
    <3>3. \A i \in 0..Launches : i + 1 \notin 1..i
      BY GenerationsAre
    <3> QED BY <1>3, <3>1, <3>2, <3>3
  <2>3. CASE b = a
    BY <2>2, <2>3
  <2>4. CASE c = a
    BY <2>2, <2>4
  <2> QED BY <2>1, <2>3, <2>4
<1>14. ReadyIsSupervised'
  <2>1. liveRow'.gen # handle'.gen
    BY <1>3, <1>8, GenerationsAre
  <2> QED BY <2>1 DEF ReadyIsSupervised
<1> QED BY <1>7, <1>9, <1>12, <1>13, <1>14, NothingSettled DEF ObserverInv, Typed

\* Reservations of starts and recoveries.
LEMMA ReservationsKeep ==
  ASSUME ObserverInv, NEW a \in Actors, ReserveStart(a) \/ ReserveRecovery(a)
  PROVE  ObserverInv'
<1>1. CASE ReserveStart(a)
  <2>1. actor[a].at \notin Unrecorded
    BY <1>1 DEF ReserveStart, On, Unrecorded, Spawning
  <2> DEFINE source == IF bound.gen = 0 THEN "new" ELSE "resume"
  <2>2. source \in {"new", "resume"} /\ bound' = [bound EXCEPT !.gen = NextLaunch.gen, !.source = source]
    BY <1>1 DEF ReserveStart
  <2> HIDE DEF source
  <2> QED BY <1>1, <2>1, <2>2, ReserveKeeps DEF ReserveStart
<1>2. CASE ReserveRecovery(a)
  <2>1. actor[a].at \notin Unrecorded
    BY <1>2 DEF ReserveRecovery, On, Unrecorded, Spawning
  <2>2. CASE workstream = "recovery_required" /\ liveRow.status = "unknown"
    BY <1>2, <2>1, <2>2, ReserveKeeps DEF ReserveRecovery
  <2>3. CASE ~(workstream = "recovery_required" /\ liveRow.status = "unknown")
    <3>1. "idle" \in ActorSteps \ Launching
      BY DEF ActorSteps, Launching, Unrecorded, Spawning
    <3> QED BY <1>2, <2>3, <3>1, StayingOK, EffectsOK, ObserverQuietKeeps DEF ReserveRecovery
  <2> QED BY <2>2, <2>3
<1> QED BY <1>1, <1>2

\* The handle of a launch: recorded, then with the pid of its observer.
LEMMA HandleKeeps ==
  ASSUME ObserverInv, NEW a \in Actors, RecordHandle(a) \/ SpawnObserver(a) \/ RecordObserver(a)
  PROVE  ObserverInv'
<1>1. Typed /\ actor \in [Actors -> ActorState] /\ handle \in Handles /\ Claim(actor[a])
  BY TypedParts DEF ObserverInv, Typed
<1>2. Mine(a) \in Gens /\ Mine(a) \in 1..liveRow.gen /\ liveRow.gen \in 0..Launches
  <2>1. actor[a].at \in Launching /\ liveRow.gen \in 0..Launches
    BY <1>1, TypedParts DEF RecordHandle, SpawnObserver, RecordObserver, On, Launching, Unrecorded, Spawning, LiveRows
  <2> QED BY <1>1, <2>1, GenerationsAre DEF Claim, Mine, Gens
<1>3. CASE RecordHandle(a)
  <2> DEFINE h == [gen |-> Mine(a), status |-> "starting", pid |-> 0]
  <2>1. h \in Handles /\ h.gen = Mine(a) /\ h.pid = 0 /\ h.status = "starting" /\ handle' = h
    BY <1>2, <1>3, GenerationsAre DEF RecordHandle, Handles
  <2> HIDE DEF h
  <2>2. /\ actor' \in [Actors -> ActorState]
        /\ actor'[a].at = "spawn" /\ actor'[a].row = actor[a].row /\ actor'[a].handle = h
        /\ \A b \in Actors \ {a} : actor'[b] = actor[b]
    BY <1>1, <1>3, <2>1 DEF RecordHandle, ActorState, ActorSteps
  <2>3. Typed'
    <3>1. ObserversTyped'
      BY <1>1, <1>3, TypedParts DEF RecordHandle, ObserversTyped
    <3> QED BY <1>1, <1>3, <2>1, <2>2, <3>1, TypedParts, TypedSo DEF RecordHandle, liveRows, world
  <2>4. liveRow' = liveRow /\ actor[a].at = "record_handle"
    BY <1>3 DEF RecordHandle, liveRows, On
  <2>5. HandleOK'
    BY <1>2, <2>1, <2>4, GenerationsAre DEF HandleOK
  <2>6. ASSUME NEW b \in Actors PROVE Claim(actor[b])'
    <3>1. Claim(actor[b])
      BY DEF ObserverInv
    <3>2. CASE b = a
      BY <1>2, <2>1, <2>2, <2>4, <3>2 DEF Claim, Mine, h
    <3>3. CASE b # a
      BY <2>1, <2>2, <2>4, <3>1, <3>3 DEF Claim
    <3> QED BY <3>2, <3>3
  <2>7. LaunchesDiffer'
    BY <2>2, <2>4 DEF ObserverInv, LaunchesDiffer, Mine, Unrecorded
  <2>8. ReadyIsSupervised'
    BY <2>1 DEF ReadyIsSupervised
  <2>9. Counted'
    BY <1>3, NothingSettled DEF RecordHandle, liveRows
  <2> QED BY <2>3, <2>5, <2>6, <2>7, <2>8, <2>9 DEF ObserverInv, Typed
<1>4. CASE SpawnObserver(a)
  <2>1. ActorsOK
    BY <1>1, <1>4, LaunchStepFollows DEF SpawnObserver, On, ActorsOK, ActorSteps, Launching, Unrecorded, Spawning
  <2>2. observer[Mine(a)] \in ObserverState
    BY <1>1, <1>2, TypedParts DEF ObserversTyped
  <2>3. ActorBecomes(Mine(a), "starting")
    <3> DEFINE o == [observer[Mine(a)] EXCEPT !.at = "starting"]
    <3>1. /\ o \in ObserverState /\ o.at = "starting"
          /\ o.hint.kind = "settled" => o.hint.message # 0
      BY <1>1, <1>2, <2>2, TypedParts DEF ObserverState, ObserverSteps, ObserversTyped
    <3>2. observer' = [observer EXCEPT ![Mine(a)] = o]
      BY <1>4 DEF SpawnObserver
    <3> HIDE DEF o
    <3> QED BY <1>1, <1>2, <3>1, <3>2, BecomesSo
  <2>4. ~(handle.status = "ready" /\ handle.pid = Mine(a))
    <3>1. handle.pid \in {0, handle.gen}
      BY DEF ObserverInv, HandleOK
    <3>2. handle.gen = Mine(a) => handle.pid = 0
      BY <1>1, <1>4 DEF Claim, Mine, SpawnObserver, On, Unrecorded, Spawning
    <3> QED BY <1>2, <3>1, <3>2, GenerationsAre
  <2>5. ObserversOK
    BY <1>1, <1>2, <1>4, <2>3, <2>4, TypedParts, OneWatched DEF ObserversOK, SpawnObserver, ActorBecomes
  <2> QED BY <1>4, <2>1, <2>5, StayingOK, ObserverQuietKeeps DEF SpawnObserver, liveRows
<1>5. CASE RecordObserver(a) /\ handle = actor[a].handle
  <2>1. actor[a].at = "record_observer" /\ handle = [gen |-> Mine(a), status |-> "starting", pid |-> 0]
    BY <1>1, <1>5 DEF RecordObserver, On, Claim, Spawning, Mine
  <2>2. handle' = [gen |-> Mine(a), status |-> "starting", pid |-> Mine(a)]
    BY <1>5, <2>1 DEF RecordObserver
  <2>3. handle' \in Handles /\ handle'.gen = Mine(a) /\ handle'.pid = Mine(a) /\ handle'.status = "starting"
    BY <1>2, <2>2, GenerationsAre DEF Handles
  <2>4. /\ actor' \in [Actors -> ActorState]
        /\ actor'[a].at = "await_observer" /\ actor'[a].row = actor[a].row
        /\ \A b \in Actors \ {a} : actor'[b] = actor[b]
    BY <1>1, <1>5, StepMoves DEF RecordObserver, ActorSteps
  <2>5. Typed'
    <3>1. ObserversTyped'
      BY <1>1, <1>5, TypedParts DEF RecordObserver, ObserversTyped
    <3> QED BY <1>1, <1>5, <2>3, <2>4, <3>1, TypedParts, TypedSo DEF RecordObserver, liveRows, Keep
  <2>6. liveRow' = liveRow
    BY <1>5 DEF RecordObserver, liveRows
  <2>7. HandleOK'
    BY <1>2, <2>3, <2>6, GenerationsAre DEF HandleOK
  <2>8. ASSUME NEW b \in Actors PROVE Claim(actor[b])'
    <3>1. Claim(actor[b])
      BY DEF ObserverInv
    <3>2. CASE b = a
      BY <1>2, <2>4, <2>6, <3>2 DEF Claim, Mine, Unrecorded, Spawning
    <3>3. CASE b # a
      <4>1. actor[b].at \in Unrecorded => actor[b].row.gen # Mine(a)
        BY <2>1, <3>3 DEF ObserverInv, LaunchesDiffer, Mine, Unrecorded, Spawning
      <4> QED BY <2>3, <2>4, <2>6, <3>1, <3>3, <4>1 DEF Claim
    <3> QED BY <3>2, <3>3
  <2>9. LaunchesDiffer'
    BY <2>4 DEF ObserverInv, LaunchesDiffer, Mine, Unrecorded, Spawning
  <2>10. ReadyIsSupervised'
    BY <2>3 DEF ReadyIsSupervised
  <2>11. Counted'
    BY <1>5, NothingSettled DEF RecordObserver, liveRows, Keep
  <2> QED BY <2>5, <2>7, <2>8, <2>9, <2>10, <2>11 DEF ObserverInv, Typed
<1>6. CASE RecordObserver(a) /\ handle # actor[a].handle
  <2>1. "failed" \in ActorSteps \ Launching /\ Mine(a) \in 0..Launches
    BY <1>2, GenerationsAre DEF ActorSteps, Launching, Unrecorded, Spawning
  <2> QED BY <1>6, <2>1, StayingOK, EffectsOK, ObserverQuietKeeps DEF RecordObserver, liveRows, Keep, world
<1> QED BY <1>3, <1>4, <1>5, <1>6

\* An observer becomes Ready, or ends.
LEMMA BecomingKeeps ==
  ASSUME ObserverInv, NEW g \in Gens, BecomeReady(g)
  PROVE  ObserverInv'
<1>1. Typed /\ handle \in Handles /\ observer \in [Gens -> ObserverState]
  BY TypedParts DEF ObserverInv, Typed, ObserversTyped
<1>2. observer[g].at \notin Supervising /\ ObserverSteps = ObserverSteps \union {"prepare", "gone"}
  BY DEF BecomeReady, OpenStream, StartupEnds, ReadHandle, MarkReady, Runs, Supervising, ObserverSteps
<1>3. ASSUME NEW at, ActorBecomes(g, at), UNCHANGED stopped PROVE ObserversOK
  BY <1>1, <1>2, <1>3, TypedParts, OneWatched DEF ObserversOK, ActorBecomes
<1>4. CASE OpenStream(g)
  <2>1. ObserversOK
    BY <1>1, <1>2, <1>3, <1>4, ObserverMoves DEF OpenStream, Alone
  <2> QED BY <1>4, <2>1, StayingOK, ObserverQuietKeeps DEF OpenStream, Alone, liveRows
<1>5. CASE StartupEnds(g)
  <2>1. ObserversOK
    BY <1>1, <1>2, <1>3, <1>5, ObserverMoves DEF StartupEnds, Alone
  <2> QED BY <1>5, <2>1, StayingOK, EffectsOK, ObserverQuietKeeps DEF StartupEnds, Alone, liveRows
<1>6. CASE ReadHandle(g)
  <2> DEFINE at == IF handle = NoHandle THEN "gone" ELSE "mark_ready"
             o == [observer[g] EXCEPT !.at = at, !.seen = handle]
  <2>1. at \in ObserverSteps
    BY DEF ObserverSteps
  <2>2. /\ o \in ObserverState /\ o.at = at
        /\ o.hint.kind = "settled" => o.hint.message # 0
    <3> HIDE DEF at
    <3> QED BY <1>1, <2>1, TypedParts DEF ObserverState, ObserversTyped
  <2>3. observer' = [observer EXCEPT ![g] = o]
    BY <1>1, <1>6 DEF ReadHandle
  <2> HIDE DEF o, at
  <2>4. ObserversOK
    BY <1>1, <1>3, <1>6, <2>2, <2>3, BecomesSo DEF ReadHandle, Alone
  <2> QED BY <1>6, <2>4, StayingOK, ObserverQuietKeeps DEF ReadHandle, Alone, liveRows
<1>7. CASE MarkReady(g) /\ handle = [gen |-> g, status |-> "starting", pid |-> g]
                       /\ handle = observer[g].seen
  <2> DEFINE o == [observer[g] EXCEPT !.at = "watching", !.seen = NoHandle]
  <2>1. /\ o \in ObserverState /\ o.at = "watching"
        /\ o.hint.kind = "settled" => o.hint.message # 0
    BY <1>1, TypedParts, RestTyped DEF ObserverState, ObserverSteps, ObserversTyped
  <2>2. observer' = [observer EXCEPT ![g] = o]
    BY <1>1, <1>7 DEF MarkReady
  <2> HIDE DEF o
  <2>3. ActorBecomes(g, "watching")
    BY <1>1, <2>1, <2>2, BecomesSo
  <2>4. handle' = [gen |-> g, status |-> "ready", pid |-> g]
    BY <1>7 DEF MarkReady
  <2>5. handle' \in Handles /\ handle'.gen = handle.gen /\ handle'.pid = handle.pid /\ handle'.pid = g
    BY <1>7, <2>4, GenerationsAre DEF Handles
  <2>6. Typed'
    BY <1>1, <1>7, <2>3, <2>5, TypedParts, TypedSo DEF ActorBecomes, MarkReady, Alone, liveRows, world
  <2>7. liveRow' = liveRow /\ actor' = actor
    BY <1>7 DEF MarkReady, Alone, liveRows
  <2>8. HandleOK'
    BY <2>5, <2>7, GenerationsAre DEF ObserverInv, HandleOK
  <2>9. ASSUME NEW b \in Actors PROVE Claim(actor[b])'
    BY <2>5, <2>7 DEF ObserverInv, Claim
  <2>10. LaunchesDiffer'
    BY <2>7 DEF ObserverInv, LaunchesDiffer, Mine
  <2>11. ReadyIsSupervised'
    BY <2>3, <2>5 DEF ReadyIsSupervised, ActorBecomes
  <2>12. Counted'
    BY <1>7, NothingSettled DEF MarkReady, Alone, liveRows
  <2> QED BY <2>6, <2>8, <2>9, <2>10, <2>11, <2>12 DEF ObserverInv, Typed
<1>8. CASE MarkReady(g) /\ ~(/\ handle = [gen |-> g, status |-> "starting", pid |-> g]
                           /\ handle = observer[g].seen)
  <2>1. Becoming(g, "gone") /\ UNCHANGED handle /\ Alone
    BY <1>8 DEF MarkReady
  <2>2. ObserversOK
    BY <1>1, <1>2, <1>3, <2>1, ObserverMoves DEF Alone
  <2> QED BY <2>1, <2>2, StayingOK, ObserverQuietKeeps DEF Alone, liveRows
<1> QED BY <1>4, <1>5, <1>6, <1>7, <1>8 DEF BecomeReady

\* An observer supervises: it goes on, with an observation to apply or not,
\* or ends with its handle marked.
LEMMA SuperviseKeeps ==
  ASSUME ObserverInv, NEW g \in Gens, Supervise(g)
  PROVE  ObserverInv'
<1>1. /\ Typed /\ observer[g] \in ObserverState /\ session \in [busy : BOOLEAN, done : 0..Turns]
  BY TypedParts DEF ObserverInv, Typed, ObserversTyped
<1>2. /\ observer[g].at = "watching" /\ observer[g].candidate \in 0..Turns
      /\ 0 \in 0..Turns /\ "gone" \in ObserverSteps /\ 1..session.done \subseteq 0..Turns
  BY <1>1, TurnsAssumption DEF Supervise, SupervisionEnds, PollBusy, PollIdle, EventCompleted, EventUpdated, EventIdle,
     EventStarted, EventEnded, Reads, Watches, Runs, ObserverState, ObserverSteps
<1>3. ASSUME NEW at \in Supervising, ActorBecomes(g, at), UNCHANGED stopped PROVE ObserversOK
  BY <1>1, <1>3, TypedParts, OneWatched DEF ObserversOK, ActorBecomes
<1>4. CASE SupervisionEnds(g)
  <2>1. ActorBecomes(g, "gone") /\ UNCHANGED stopped
    BY <1>1, <1>2, <1>4, ObserverMoves DEF SupervisionEnds, Alone
  <2>2. \A h \in Gens : Watched(h)
    BY <1>4, <2>1, MarkedUnknown, OneWatched DEF SupervisionEnds
  <2>3. ObserversOK
    BY <1>1, <2>1, <2>2, TypedParts DEF ObserversOK, ActorBecomes
  <2> QED BY <1>4, <2>3, StayingOK, EffectsOK, ObserverQuietKeeps DEF SupervisionEnds, Alone, liveRows
<1>5. CASE ~ SupervisionEnds(g)
  <2>1. UNCHANGED handle /\ Alone
    BY <1>5 DEF Supervise, PollBusy, PollIdle, EventCompleted, EventUpdated, EventIdle, EventStarted, EventEnded
  <2>2. \/ \E m \in 0..Turns : Candidate(g, m)
        \/ \E kind \in {"working", "settled", "started", "ended"}, m \in 0..Turns, c \in 0..Turns :
             Hint(g, kind, m, c) /\ (kind = "settled" => m # 0)
    <3>1. CASE PollBusy(g) \/ EventStarted(g) \/ EventEnded(g)
      BY <1>2, <3>1 DEF PollBusy, EventStarted, EventEnded
    <3>2. CASE PollIdle(g)
      BY <1>2, <3>2 DEF PollIdle
    <3>3. CASE EventCompleted(g)
      BY <1>2, <3>3 DEF EventCompleted
    <3>4. CASE EventUpdated(g)
      BY <1>2, <3>4 DEF EventUpdated
    <3>5. CASE EventIdle(g)
      BY <1>2, <3>5 DEF EventIdle
    <3> QED BY <1>5, <3>1, <3>2, <3>3, <3>4, <3>5 DEF Supervise
  <2>3. \E at \in Supervising : ActorBecomes(g, at)
    <3>1. CASE \E m \in 0..Turns : Candidate(g, m)
      BY <1>1, <1>2, <3>1, ObserverMoves DEF Supervising
    <3>2. CASE \E kind \in {"working", "settled", "started", "ended"}, m \in 0..Turns, c \in 0..Turns :
             Hint(g, kind, m, c) /\ (kind = "settled" => m # 0)
      BY <1>1, <3>2, ObserverMoves DEF Supervising
    <3> QED BY <2>2, <3>1, <3>2
  <2>4. ObserversOK
    BY <1>3, <2>1, <2>3 DEF Alone
  <2> QED BY <2>1, <2>4, StayingOK, ObserverQuietKeeps DEF Alone, liveRows
<1> QED BY <1>4, <1>5

\* An observation that settles nothing.
LEMMA ApplyKeeps ==
  ASSUME ObserverInv, NEW g \in Gens,
         ApplyStarted(g) \/ ApplyWorking(g) \/ ApplyEnded(g) \/ ApplyRefused(g)
  PROVE  ObserverInv'
<1>1. Typed /\ {"watching", "gone"} \subseteq ObserverSteps /\ liveRow \in LiveRows
      /\ {"idle", "working", "stopped"} \subseteq Statuses
  BY TypedParts DEF ObserverInv, Typed, ObserverSteps, Statuses, Observed
<1>2. ASSUME NEW at, ActorBecomes(g, at), UNCHANGED stopped, \A h \in Gens : Watched(h) PROVE ObserversOK
  BY <1>1, <1>2, TypedParts DEF ObserversOK, ActorBecomes
<1>3. CASE ApplyStarted(g) \/ ApplyWorking(g)
  <2>1. ActorBecomes(g, "watching")
    BY <1>1, <1>3, ObserverMoves DEF ApplyStarted, ApplyWorking
  <2>2. ObserversOK
    BY <1>2, <1>3, <2>1, OneWatched DEF ApplyStarted, ApplyWorking, Supervising
  <2>3. Live /\ workstream' \in {"open", workstream}
        /\ (SetStatus("idle") \/ SetStatus("working") \/ UNCHANGED liveRow)
    BY <1>3 DEF ApplyStarted, ApplyWorking, Live
  <2>4. RowOK
    BY <1>1, <2>3, StatusMoves, TypedParts DEF RowOK, Live, Ended, Observed
  <2> QED BY <1>3, <2>2, <2>4, StayingOK, ObserverQuietKeeps DEF ApplyStarted, ApplyWorking
<1>4. CASE ApplyEnded(g)
  <2>1. ActorBecomes(g, "gone") /\ liveRow' \in LiveRows /\ liveRow'.status = "stopped" /\ liveRow'.gen = liveRow.gen
    BY <1>1, <1>4, ObserverMoves, StatusMoves DEF ApplyEnded
  <2>2. ObserversOK
    BY <1>2, <1>4, <2>1, OneWatched DEF ApplyEnded, Ended
  <2>3. RowOK
    BY <1>1, <1>4, <2>1, TypedParts DEF RowOK, Ended, ApplyEnded
  <2> QED BY <1>4, <2>2, <2>3, StayingOK, ObserverQuietKeeps DEF ApplyEnded
<1>5. CASE ApplyRefused(g)
  <2>1. ActorBecomes(g, "gone")
    BY <1>1, <1>5, ObserverMoves DEF ApplyRefused
  <2>2. ObserversOK
    BY <1>2, <1>5, <2>1, MarkedUnknown, OneWatched DEF ApplyRefused, Alone
  <2> QED BY <1>5, <2>2, StayingOK, EffectsOK, ObserverQuietKeeps DEF ApplyRefused, Alone, liveRows
<1> QED BY <1>3, <1>4, <1>5

\* A message is settled: once, because what is settled is recorded.
LEMMA SettledKeeps ==
  ASSUME ObserverInv, NEW g \in Gens, ApplySettled(g)
  PROVE  ObserverInv'
<1> DEFINE m == HintOf(g).message
<1>1. Typed /\ "watching" \in ObserverSteps /\ liveRow \in LiveRows /\ "attention" \in Statuses
  BY TypedParts DEF ObserverInv, Typed, ObserverSteps, Statuses, Observed
<1>2. m \in Messages /\ m \in 0..Turns
  <2>1. observer[g] \in ObserverState /\ HintOf(g).kind = "settled" /\ m # 0
    BY <1>1, TypedParts DEF ObserversTyped, ApplySettled, Applying, HintOf
  <2> QED BY <2>1, TurnsAssumption DEF ObserverState, Hints, HintOf, Messages
<1>3. ActorBecomes(g, "watching")
  BY <1>1, ObserverMoves DEF ApplySettled
<1>4. ObserversOK
  BY <1>1, <1>3, OneWatched, TypedParts DEF ObserversOK, ActorBecomes, ApplySettled, Supervising
<1>5. CASE ~ IsNew(g, m)
  <2>1. UNCHANGED <<liveRow, workstream, bound, settled, marked, handle, world, actor>>
    BY <1>5 DEF ApplySettled
  <2> QED BY <1>4, <2>1, StayingOK, ObserverQuietKeeps
<1>6. CASE IsNew(g, m)
  <2>1. /\ <<g, m>> \notin settled /\ settled' = settled \union {<<g, m>>} /\ bound' = [bound EXCEPT !.last = m]
        /\ SetStatus("attention") /\ marked' = [marked EXCEPT ![g][m] = @ + 1]
        /\ UNCHANGED <<workstream, handle, world, actor, stopped>> /\ Live
    BY <1>6 DEF ApplySettled, IsNew
  <2> HIDE DEF m
  <2>2. RowOK
    BY <1>1, <2>1, StatusMoves, TypedParts DEF RowOK, Live, Ended, Observed
  <2>3. settled' \subseteq Gens \X Messages
    BY <1>1, <1>2, <2>1, TypedParts
  <2>4. bound' \in [gen : 0..Launches, source : {"none", "new", "resume"}, last : 0..Turns]
    BY <1>1, <1>2, <2>1, TypedParts
  <2>5. marked \in [Gens -> [Messages -> Nat]]
    BY <1>1, TypedParts
  <2>6. marked' \in [Gens -> [Messages -> Nat]]
    BY <1>2, <2>1, <2>5
  <2>7. Counted'
    <3> SUFFICES ASSUME NEW h \in Gens, NEW n \in Messages
                 PROVE  marked'[h][n] = IF <<h, n>> \in settled' THEN 1 ELSE 0
      BY DEF Counted
    <3>1. marked[h][n] = IF <<h, n>> \in settled THEN 1 ELSE 0
      BY DEF ObserverInv, Counted
    <3>2. CASE h = g /\ n = m
      BY <1>2, <2>1, <2>5, <3>1, <3>2
    <3>3. CASE ~(h = g /\ n = m)
      <4>1. marked'[h][n] = marked[h][n]
        BY <1>2, <2>1, <2>5, <3>3
      <4>2. <<h, n>> \in settled' <=> <<h, n>> \in settled
        BY <2>1, <3>3
      <4> QED BY <3>1, <4>1, <4>2
    <3> QED BY <3>2, <3>3
  <2>8. HandleMoves /\ WorldOK /\ ActorsOK /\ handle' \in Handles
    BY <1>1, <2>1, StayingOK, TypedParts
  <2>9. Typed'
    BY <2>2, <2>3, <2>4, <2>6, <2>8, <1>4, TypedSo DEF RowOK, WorldOK, ActorsOK, ObserversOK
  <2> QED BY <1>4, <2>2, <2>7, <2>8, <2>9, ObserverStepKeeps DEF RowOK, HandleMoves, ActorsOK, ObserversOK
<1> QED BY <1>5, <1>6

\* Every step keeps the invariant.
LEMMA ObserverStep == ObserverInv /\ [ObserverNext]_observerVars => ObserverInv'
<1> SUFFICES ASSUME ObserverInv, [ObserverNext]_observerVars PROVE ObserverInv'
  OBVIOUS
<1>1. ASSUME NEW a \in Actors, ReserveStart(a) \/ LaunchRuntime(a) \/ ParkRuntime(a) \/ RecoverRuntime(a) \/ ActorDies(a)
      PROVE  ObserverInv'
  BY <1>1, ReservationsKeep, LaunchKeeps, HandleKeeps, ParkKeeps DEF LaunchRuntime, RecoverRuntime
<1>2. ASSUME NEW g \in Gens, BecomeReady(g) \/ Supervise(g) \/ ApplyObservation(g) \/ ObserverDies(g)
      PROVE  ObserverInv'
  BY <1>2, BecomingKeeps, SuperviseKeeps, ApplyKeeps, SettledKeeps, SessionWorldKeeps DEF ApplyObservation
<1>3. CASE ReconcileLost \/ RefuteHandle \/ TurnStarts \/ TurnCompletes \/ ProviderDies
  BY <1>3, SessionWorldKeeps
<1>4. CASE UNCHANGED observerVars
  BY <1>4, StayingOK, ObserverQuietKeeps DEF observerVars, world
<1> QED BY <1>1, <1>2, <1>3, <1>4 DEF ObserverNext

-----------------------------------------------------------------------------
(* Theorems.                                                               *)

(* Whoever dies and however launches, parks and recoveries overlap, a      *)
(* launch's generation, handle and observer stay its own, and what asked   *)
(* for attention is what was recorded as settled.                          *)
THEOREM ObserverInvariant == ObserverSpec => []ObserverInv
BY ObserverStarts, ObserverStep, PTL DEF ObserverSpec

(* Every variable keeps its type.                                          *)
THEOREM ObserverTypeCorrect == ObserverSpec => []ObserverTypeOK
<1>1. ObserverInv => ObserverTypeOK
  BY DEF ObserverInv
<1> QED BY <1>1, ObserverInvariant, PTL

\* The invariant of the observers says how often a message asks for attention.
LEMMA SettlesMeans == ObserverInv => SettlesOnce
<1> SUFFICES ASSUME ObserverInv PROVE SettlesOnce
  OBVIOUS
<1>1. ASSUME NEW g \in Gens, NEW m \in Messages PROVE marked[g][m] = 0 \/ marked[g][m] = 1
  BY DEF ObserverInv, Counted
<1> QED BY <1>1 DEF SettlesOnce

(* apply_opencode_lifecycle_observation: a completed message asks for      *)
(* attention once in a generation, however often its event is delivered.   *)
THEOREM SettlesOnceHolds == ObserverSpec => []SettlesOnce
BY SettlesMeans, ObserverInvariant, PTL

(* mark_opencode_observer_ready, supervise: a handle that is Ready has an  *)
(* observer that supervises, unless somebody stopped it or the row ended.  *)
THEOREM ReadyIsSupervisedHolds == ObserverSpec => []ReadyIsSupervised
<1>1. ObserverInv => ReadyIsSupervised
  BY DEF ObserverInv
<1> QED BY <1>1, ObserverInvariant, PTL
-----------------------------------------------------------------------------
(* The safety half of ObserversEnd.                                        *)

\* The steps of a launch before its observer exists.
Onward == {"launch", "record_identity", "await_provider", "record_handle", "spawn"}

\* The steps of a launch whose observer was spawned.
Spawned == {"record_observer", "await_observer"}

\* Some process was an observer of this generation.
Started(g) == observer[g].at # "none"

\* An observer is started once: no launch of its generation has still to spawn
\* one, and every handle with a pid names one that was started.
StartedInv ==
  /\ \A g \in Gens : Started(g) => g <= liveRow.gen /\ \A a \in Actors : actor[a].at \in Onward => Mine(a) # g
  /\ handle.pid # 0 => Started(handle.pid)
  /\ \A a \in Actors : /\ actor[a].handle.pid # 0 => Started(actor[a].handle.pid)
                       /\ actor[a].at \in Spawned => Started(Mine(a))

\* What most steps do: an observer that runs goes on or ends, ...
ObserversGoOn == \A g \in Gens :
  \/ observer'[g] = observer[g]
  \/ observer[g].at \notin {"none", "gone"} /\ observer'[g].at # "none"
  \/ Started(g) /\ observer'[g].at = "gone"

\* ... a process that launches goes on with its launch and reads no handle but the
\* current one, ...
ActorsGoOn == \A a \in Actors :
  /\ actor'[a].handle.pid \in {0, actor[a].handle.pid, handle.pid}
  /\ actor'[a].at \in Onward => actor[a].at \in Onward /\ actor'[a].row = actor[a].row
  /\ actor'[a].at \in Spawned => actor[a].at \in Spawned /\ actor'[a].row = actor[a].row

\* ... and a provider ends or is that of a launch.
ProviderGoesOn == provider' \in {0, provider} \/ \E a \in Actors : On(a, "launch") /\ provider' = Mine(a)

RestGoesOn == liveRow'.gen = liveRow.gen /\ handle'.pid \in {0, handle.pid} /\ ProviderGoesOn

\* An observer without its Runtime stays without it until it ends, and one that
\* ended is not started again.
StraysOnlyEnd == \A g \in Gens :
  /\ g \in Stray => g \in Stray' \/ observer'[g].at = "gone"
  /\ observer[g].at = "gone" => observer'[g].at = "gone"

\* The pids that handles name.
LEMMA PidsTyped ==
  ASSUME ObserverInv
  PROVE  /\ handle.pid \in 0..Launches /\ \A a \in Actors : actor[a].handle.pid \in 0..Launches
         /\ liveRow.gen \in 0..Launches /\ \A a \in Actors : Mine(a) \in 0..Launches
         /\ Typed /\ Gone.at = "gone"
<1>1. Typed /\ handle \in Handles /\ liveRow \in LiveRows /\ actor \in [Actors -> ActorState]
  BY TypedParts DEF ObserverInv, Typed
<1> QED BY <1>1, RestTyped DEF Handles, LiveRows, ActorState, Mine

\* Whoever spawned an observer launches a generation.
LEMMA SpawnedIsGen ==
  ASSUME ObserverInv, NEW a \in Actors, actor[a].at \in Spawned
  PROVE  Mine(a) \in Gens
<1>1. Claim(actor[a]) /\ actor[a].at \in Launching
  BY DEF ObserverInv, Spawned, Launching, Unrecorded, Spawning
<1>2. liveRow.gen \in 0..Launches
  BY PidsTyped
<1> QED BY <1>1, <1>2, LaunchesAssumption DEF Claim, Mine, Gens

\* The steps that go on keep StartedInv.
LEMMA GoingOnKeeps ==
  ASSUME ObserverInv, StartedInv, ObserversGoOn, ActorsGoOn, RestGoesOn
  PROVE  StartedInv' /\ StraysOnlyEnd
<1>1. /\ handle.pid \in 0..Launches /\ \A a \in Actors : actor[a].handle.pid \in 0..Launches
      /\ liveRow.gen \in 0..Launches /\ liveRow'.gen = liveRow.gen
      /\ \A a \in Actors : actor[a].at \in Spawned => Mine(a) \in Gens
  BY PidsTyped, SpawnedIsGen DEF RestGoesOn
<1>2. \A g \in Gens : /\ Started(g) => Started(g)'
                      /\ Started(g)' => Started(g)
                      /\ observer[g].at = "gone" => observer'[g].at = "gone"
  BY DEF ObserversGoOn, Started
<1>3. \A n \in 0..Launches : n # 0 => n \in Gens
  BY GenerationsAre
<1>4. ASSUME NEW g \in Gens, Started(g)'
      PROVE  g <= liveRow'.gen /\ \A a \in Actors : actor'[a].at \in Onward => actor'[a].row.gen # g
  BY <1>1, <1>2, <1>4 DEF StartedInv, ActorsGoOn, Mine
<1>5. handle'.pid # 0 => Started(handle.pid)' /\ handle'.pid = handle.pid
  BY <1>1, <1>2, <1>3 DEF StartedInv, RestGoesOn
<1>6. ASSUME NEW a \in Actors
      PROVE  /\ actor'[a].handle.pid # 0 => observer'[actor'[a].handle.pid].at # "none"
             /\ actor'[a].at \in Spawned => observer'[actor'[a].row.gen].at # "none"
  BY <1>1, <1>2, <1>3 DEF StartedInv, ActorsGoOn, Started, On, Mine
<1>7. ASSUME NEW g \in Stray, observer'[g].at # "gone" PROVE g \in Stray'
  <2>1. g \in Gens /\ observer[g].at \notin {"none", "gone"} /\ TargetLost(g) /\ g # 0
    BY GenerationsAre DEF Stray
  <2>2. Started(g) /\ Started(g)'
    BY <1>2, <2>1 DEF Started
  <2>3. provider # g => provider' # g
    BY <2>1, <2>2 DEF RestGoesOn, ProviderGoesOn, StartedInv, On, Onward
  <2>4. TargetLost(g)'
    BY <1>1, <2>1, <2>3 DEF TargetLost
  <2> QED BY <1>7, <2>1, <2>2, <2>4 DEF Stray, Started
<1> QED BY <1>2, <1>4, <1>5, <1>6, <1>7 DEF StartedInv, StraysOnlyEnd, Started, On, Mine

\* Somebody stops an observer that a handle names.
LEMMA StoppingGoesOn ==
  ASSUME ObserverInv, StartedInv, NEW pid \in 0..Launches, StopObserver(pid), pid = 0 \/ Started(pid)
  PROVE  ObserversGoOn
<1>1. CASE pid = 0
  BY <1>1 DEF StopObserver, ObserversGoOn
<1>2. CASE pid # 0
  <2>1. pid \in Gens /\ observer' = [observer EXCEPT ![pid] = Gone] /\ Gone.at = "gone"
    BY <1>2, GenerationsAre, RestTyped DEF StopObserver
  <2>2. observer \in [Gens -> ObserverState]
    BY PidsTyped DEF Typed, ObserversTyped
  <2> QED BY <1>2, <2>1, <2>2 DEF ObserversGoOn
<1> QED BY <1>1, <1>2

\* A process takes a step that is not into a launch.
LEMMA SteppingGoesOn ==
  ASSUME ObserverInv, NEW a \in Actors, NEW step \in ActorSteps, Step(a, step),
         step \in Onward => actor[a].at \in Onward, step \notin Spawned
  PROVE  ActorsGoOn
<1>1. /\ actor'[a].at = step
      /\ step # "idle" => actor'[a].row = actor[a].row /\ actor'[a].handle = actor[a].handle
      /\ \A b \in Actors \ {a} : actor'[b] = actor[b]
  BY PidsTyped, StepMoves
<1>2. CASE step = "idle"
  <2>1. actor \in [Actors -> ActorState] /\ actor' = [actor EXCEPT ![a] = Fresh]
    BY <1>2, PidsTyped, TypedParts DEF Step
  <2>2. actor'[a].handle.pid = 0
    BY <2>1 DEF Fresh, NoHandle
  <2> QED BY <1>1, <1>2, <2>2 DEF ActorsGoOn, Onward, Spawned
<1>3. CASE step # "idle"
  BY <1>1, <1>3 DEF ActorsGoOn
<1> QED BY <1>2, <1>3

\* The steps of an observer.
LEMMA ObserverGoesOn ==
  ASSUME ObserverInv, StartedInv, NEW g \in Gens, BecomeReady(g) \/ Supervise(g) \/ ApplyObservation(g)
  PROVE  StartedInv' /\ StraysOnlyEnd
<1>1. /\ Typed /\ observer \in [Gens -> ObserverState] /\ handle \in Handles /\ liveRow \in LiveRows
      /\ observer[g].candidate \in 0..Turns
  BY PidsTyped, TypedParts DEF Typed, ObserversTyped, ObserverState
<1>2. observer[g].at \notin {"none", "gone"}
  BY DEF BecomeReady, OpenStream, StartupEnds, ReadHandle, MarkReady, Supervise, SupervisionEnds, PollBusy, PollIdle,
     EventCompleted, EventUpdated, EventIdle, EventStarted, EventEnded, ApplyObservation, ApplyStarted, ApplyWorking,
     ApplySettled, ApplyEnded, ApplyRefused, Runs, Watches, Reads, Applying
<1>3. actor' = actor /\ provider' = provider
  BY DEF BecomeReady, OpenStream, StartupEnds, ReadHandle, MarkReady, Supervise, SupervisionEnds, PollBusy, PollIdle,
     EventCompleted, EventUpdated, EventIdle, EventStarted, EventEnded, ApplyObservation, ApplyStarted, ApplyWorking,
     ApplySettled, ApplyEnded, ApplyRefused, Alone, world
<1>4. handle'.pid = handle.pid
  <2>1. MarkUnknownIfOf(g) => handle'.pid = handle.pid
    BY <1>1 DEF MarkUnknownIfOf, Handles
  <2>2. MarkReady(g) => handle'.pid = handle.pid
    BY <1>1 DEF MarkReady, Handles
  <2> QED BY <2>1, <2>2 DEF BecomeReady, OpenStream, StartupEnds, ReadHandle, Supervise, SupervisionEnds, PollBusy,
     PollIdle, EventCompleted, EventUpdated, EventIdle, EventStarted, EventEnded, ApplyObservation, ApplyStarted,
     ApplyWorking, ApplySettled, ApplyEnded, ApplyRefused
<1>5. liveRow'.gen = liveRow.gen
  <2>1. \A status : SetStatus(status) => liveRow'.gen = liveRow.gen
    BY <1>1 DEF SetStatus, LiveRows
  <2> QED BY <2>1 DEF BecomeReady, OpenStream, StartupEnds, ReadHandle, MarkReady, Supervise, SupervisionEnds, PollBusy,
     PollIdle, EventCompleted, EventUpdated, EventIdle, EventStarted, EventEnded, ApplyObservation, ApplyStarted,
     ApplyWorking, ApplySettled, ApplyEnded, ApplyRefused, Alone, liveRows
<1>6. \A h \in Gens \ {g} : observer'[h] = observer[h]
  BY <1>1 DEF BecomeReady, OpenStream, StartupEnds, ReadHandle, MarkReady, Supervise, SupervisionEnds, PollBusy, PollIdle,
     EventCompleted, EventUpdated, EventIdle, EventStarted, EventEnded, ApplyObservation, ApplyStarted, ApplyWorking,
     ApplySettled, ApplyEnded, ApplyRefused, Becoming, Hint, Candidate, Applied
<1>7. observer'[g].at # "none"
  <2>1. /\ \A step \in {"prepare", "gone"} : Becoming(g, step) => observer'[g].at = step
        /\ \A step \in {"watching", "gone"} : Applied(g, step) => observer'[g].at = step
        /\ \A m \in 0..Turns : Candidate(g, m) => observer'[g].at = observer[g].at
    BY <1>1, ObserverMoves DEF ActorBecomes, ObserverSteps
  <2>2. \A kind, m, c : Hint(g, kind, m, c) => observer'[g].at = "apply"
    BY <1>1 DEF Hint, ObserverState
  <2>3. CASE OpenStream(g) \/ StartupEnds(g) \/ SupervisionEnds(g)
    BY <2>1, <2>3 DEF OpenStream, StartupEnds, SupervisionEnds
  <2>4. CASE ReadHandle(g)
    BY <1>1, <2>4 DEF ReadHandle, ObserverState
  <2>5. CASE MarkReady(g)
    BY <1>1, <2>1, <2>5 DEF MarkReady, ObserverState
  <2>6. CASE PollBusy(g) \/ PollIdle(g) \/ EventStarted(g) \/ EventEnded(g)
    BY <2>2, <2>6 DEF PollBusy, PollIdle, EventStarted, EventEnded
  <2>7. CASE EventCompleted(g) \/ EventUpdated(g) \/ EventIdle(g)
    <3>1. \A m \in 1..session.done : m \in 0..Turns
      BY <1>1, TypedParts, TurnsAssumption
    <3>2. 0 \in 0..Turns
      BY TurnsAssumption
    <3> QED BY <1>2, <2>1, <2>2, <2>7, <3>1, <3>2 DEF EventCompleted, EventUpdated, EventIdle
  <2>8. CASE ApplyObservation(g)
    BY <2>1, <2>8 DEF ApplyObservation, ApplyStarted, ApplyWorking, ApplySettled, ApplyEnded, ApplyRefused
  <2> QED BY <2>3, <2>4, <2>5, <2>6, <2>7, <2>8 DEF BecomeReady, Supervise
<1>8. ObserversGoOn
  BY <1>2, <1>6, <1>7 DEF ObserversGoOn
<1>9. ActorsGoOn
  BY <1>3 DEF ActorsGoOn
<1>10. RestGoesOn
  BY <1>3, <1>4, <1>5 DEF RestGoesOn, ProviderGoesOn
<1> QED BY <1>8, <1>9, <1>10, GoingOnKeeps
\* The steps of a process that neither reserve, spawn nor record a pid.
LEMMA ActorGoesOn ==
  ASSUME ObserverInv, StartedInv, NEW a \in Actors,
         \/ LaunchPane(a) \/ LaunchUnidentified(a) \/ RecordIdentity(a) \/ ProviderReady(a) \/ RecordHandle(a)
         \/ LaunchFailed(a) \/ ObserverReady(a) \/ ObserverFailed(a) \/ CleanObserver(a) \/ CleanRuntime(a) \/ Fence(a)
         \/ ParkRuntime(a) \/ BeginRecovery(a) \/ StopLost(a) \/ ActorDies(a)
  PROVE  StartedInv' /\ StraysOnlyEnd
<1>1. /\ Typed /\ actor \in [Actors -> ActorState] /\ handle \in Handles /\ liveRow \in LiveRows
      /\ handle.pid \in 0..Launches /\ actor[a].handle.pid \in 0..Launches /\ Mine(a) \in 0..Launches
  BY PidsTyped, TypedParts
<1>2. /\ handle.pid = 0 \/ Started(handle.pid)
      /\ actor[a].handle.pid = 0 \/ Started(actor[a].handle.pid)
  BY DEF StartedInv
<1>3. \A status : SetStatus(status) => liveRow'.gen = liveRow.gen
  BY <1>1 DEF SetStatus, LiveRows
<1>4. FenceRuntime => liveRow'.gen = liveRow.gen
  BY <1>3 DEF FenceRuntime
<1>5. StopProvider => provider' = 0
  BY DEF StopProvider
<1>6. CASE LaunchPane(a) \/ LaunchUnidentified(a) \/ RecordIdentity(a) \/ ProviderReady(a) \/ LaunchFailed(a)
           \/ CleanRuntime(a) \/ Fence(a)
  <2>1. observer' = observer /\ handle' = handle
    BY <1>6 DEF LaunchPane, LaunchUnidentified, RecordIdentity, ProviderReady, LaunchFailed, CleanRuntime, Fence
  <2>2. liveRow'.gen = liveRow.gen
    BY <1>1, <1>4, <1>6 DEF LaunchPane, LaunchUnidentified, RecordIdentity, ProviderReady, LaunchFailed, CleanRuntime, Fence,
       liveRows, LiveRows
  <2>3. ProviderGoesOn
    BY <1>5, <1>6 DEF LaunchPane, LaunchUnidentified, RecordIdentity, ProviderReady, LaunchFailed, CleanRuntime, Fence,
       ProviderGoesOn, world
  <2>4. PICK step \in {"record_identity", "failed", "await_provider", "record_handle", "fence", "idle"} :
          Step(a, step) /\ (step \in Onward => actor[a].at \in Onward)
    BY <1>6 DEF LaunchPane, LaunchUnidentified, RecordIdentity, ProviderReady, LaunchFailed, CleanRuntime, Fence, On, Onward
  <2>5. ActorsGoOn
    <3>1. step \in ActorSteps /\ step \notin Spawned
      BY DEF ActorSteps, Spawned
    <3> QED BY <2>4, <3>1, SteppingGoesOn
  <2> QED BY <2>1, <2>2, <2>3, <2>5, GoingOnKeeps DEF ObserversGoOn, RestGoesOn
<1>7. CASE RecordHandle(a)
  <2>1. /\ handle'.pid = 0 /\ actor'[a].at = "spawn" /\ actor'[a].row = actor[a].row /\ actor'[a].handle.pid = 0
        /\ \A b \in Actors \ {a} : actor'[b] = actor[b]
    BY <1>1, <1>7 DEF RecordHandle, ActorState
  <2>2. ActorsGoOn
    BY <1>7, <2>1 DEF ActorsGoOn, RecordHandle, On, Onward, Spawned
  <2>3. ObserversGoOn /\ RestGoesOn
    BY <1>7, <2>1 DEF RecordHandle, ObserversGoOn, RestGoesOn, ProviderGoesOn, liveRows, world
  <2> QED BY <2>2, <2>3, GoingOnKeeps
<1>8. CASE ObserverReady(a) \/ ObserverFailed(a) \/ CleanObserver(a)
  <2>1. provider' = provider /\ liveRow' = liveRow
    BY <1>8 DEF ObserverReady, ObserverFailed, CleanObserver, liveRows, world
  <2>2. handle'.pid = handle.pid
    BY <1>1, <1>8 DEF ObserverReady, ObserverFailed, CleanObserver, MarkUnknownIfOf, Handles
  <2>3. ActorsGoOn
    BY <1>8, SteppingGoesOn DEF ObserverReady, ObserverFailed, CleanObserver, ActorSteps, Onward, Spawned
  <2>4. ObserversGoOn
    <3>1. CASE ObserverReady(a)
      BY <3>1 DEF ObserverReady, ObserversGoOn
    <3>2. CASE CleanObserver(a)
      BY <1>1, <1>2, <3>2, StoppingGoesOn DEF CleanObserver
    <3>3. CASE ObserverFailed(a)
      <4>1. StopObserver(Mine(a)) /\ On(a, "await_observer")
        BY <3>3 DEF ObserverFailed
      <4>2. Started(Mine(a))
        BY <4>1 DEF StartedInv, On, Spawned
      <4> QED BY <1>1, <4>1, <4>2, StoppingGoesOn
    <3> QED BY <1>8, <3>1, <3>2, <3>3
  <2> QED BY <2>1, <2>2, <2>3, <2>4, GoingOnKeeps DEF RestGoesOn, ProviderGoesOn
<1>9. CASE ParkRuntime(a)
  <2>1. CASE BeginPark(a)
    <3>1. /\ actor'[a].at = "park_observer" /\ actor'[a].handle = handle
          /\ \A b \in Actors \ {a} : actor'[b] = actor[b]
      BY <1>1, <2>1 DEF BeginPark
    <3>2. ObserversGoOn /\ RestGoesOn
      BY <2>1 DEF BeginPark, ObserversGoOn, RestGoesOn, ProviderGoesOn, liveRows, world
    <3> QED BY <3>1, <3>2, GoingOnKeeps DEF ActorsGoOn, Onward, Spawned
  <2>2. CASE ParkObserver(a)
    <3>1. ObserversGoOn
      BY <1>1, <1>2, <2>2, StoppingGoesOn DEF ParkObserver
    <3>2. ActorsGoOn
      BY <2>2, SteppingGoesOn DEF ParkObserver, ActorSteps, Onward, Spawned
    <3> QED BY <2>2, <3>1, <3>2, GoingOnKeeps DEF ParkObserver, RestGoesOn, ProviderGoesOn, liveRows
  <2>3. CASE ParkProvider(a)
    <3>1. \E step \in {"park_row", "park_handle"} : Step(a, step)
      BY <2>3 DEF ParkProvider
    <3>2. ActorsGoOn
      BY <3>1, SteppingGoesOn DEF ActorSteps, Onward, Spawned
    <3> QED BY <1>5, <2>3, <3>2, GoingOnKeeps DEF ParkProvider, ObserversGoOn, RestGoesOn, ProviderGoesOn, liveRows
  <2>4. CASE DeleteHandle(a)
    <3>1. \E step \in {"park_row", "park_failed"} : Step(a, step)
      BY <2>4 DEF DeleteHandle
    <3>2. ActorsGoOn
      BY <3>1, SteppingGoesOn DEF ActorSteps, Onward, Spawned
    <3>3. handle'.pid \in {0, handle.pid}
      BY <2>4 DEF DeleteHandle, NoHandle
    <3> QED BY <2>4, <3>2, <3>3, GoingOnKeeps DEF DeleteHandle, ObserversGoOn, RestGoesOn, ProviderGoesOn, liveRows, world
  <2>5. CASE ParkRow(a) \/ ParkFailed(a)
    <3>1. \E step \in {"idle", "park_failed"} : Step(a, step)
      BY <2>5 DEF ParkRow, ParkFailed
    <3>2. ActorsGoOn
      BY <3>1, SteppingGoesOn DEF ActorSteps, Onward, Spawned
    <3>3. liveRow'.gen = liveRow.gen
      BY <1>3, <1>4, <2>5 DEF ParkRow, ParkFailed
    <3> QED BY <2>5, <3>2, <3>3, GoingOnKeeps DEF ParkRow, ParkFailed, ObserversGoOn, RestGoesOn, ProviderGoesOn, world
  <2> QED BY <1>9, <2>1, <2>2, <2>3, <2>4, <2>5 DEF ParkRuntime
<1>10. CASE BeginRecovery(a)
  <2>1. /\ actor'[a].at = "recover_stop" /\ actor'[a].handle = handle
        /\ \A b \in Actors \ {a} : actor'[b] = actor[b]
    BY <1>1, <1>10 DEF BeginRecovery
  <2>2. ObserversGoOn /\ RestGoesOn
    BY <1>10 DEF BeginRecovery, ObserversGoOn, RestGoesOn, ProviderGoesOn, liveRows, world
  <2> QED BY <2>1, <2>2, GoingOnKeeps DEF ActorsGoOn, Onward, Spawned
<1>11. CASE StopLost(a)
  <2>1. ObserversGoOn
    BY <1>1, <1>2, <1>11, StoppingGoesOn DEF StopLost
  <2>2. ActorsGoOn
    BY <1>11, SteppingGoesOn DEF StopLost, ActorSteps, Onward, Spawned
  <2> QED BY <1>5, <1>11, <2>1, <2>2, GoingOnKeeps DEF StopLost, RestGoesOn, ProviderGoesOn, liveRows
<1>12. CASE ActorDies(a)
  <2>1. ActorsGoOn
    BY <1>12, SteppingGoesOn DEF ActorDies, ActorSteps, Onward, Spawned
  <2> QED BY <1>12, <2>1, GoingOnKeeps DEF ActorDies, ObserversGoOn, RestGoesOn, ProviderGoesOn, liveRows, world
<1> QED BY <1>6, <1>7, <1>8, <1>9, <1>10, <1>11, <1>12

\* The observer of a launch is spawned and its pid recorded.
LEMMA SpawningKeeps ==
  ASSUME ObserverInv, StartedInv, NEW a \in Actors, SpawnObserver(a) \/ RecordObserver(a)
  PROVE  StartedInv' /\ StraysOnlyEnd
<1>1. /\ Typed /\ actor \in [Actors -> ActorState] /\ handle \in Handles /\ liveRow \in LiveRows
      /\ observer \in [Gens -> ObserverState]
      /\ liveRow.gen \in 0..Launches /\ Mine(a) \in 0..Launches
  BY PidsTyped, TypedParts DEF ObserversTyped
<1>2. Mine(a) \in Gens /\ Mine(a) <= liveRow.gen
  <2>1. actor[a].at \in Spawning /\ Claim(actor[a])
    BY DEF SpawnObserver, RecordObserver, On, Spawning, ObserverInv
  <2> QED BY <1>1, <2>1 DEF Claim, Launching, Unrecorded, Mine, Gens
<1>3. CASE SpawnObserver(a)
  <2>1. /\ actor'[a].at = "record_observer" /\ actor'[a].row = actor[a].row /\ actor'[a].handle = actor[a].handle
        /\ \A b \in Actors \ {a} : actor'[b] = actor[b]
        /\ actor[a].at = "spawn"
    BY <1>1, <1>3, StepMoves DEF SpawnObserver, ActorSteps, On
  <2>2. /\ observer'[Mine(a)].at = "starting"
        /\ \A g \in Gens \ {Mine(a)} : observer'[g] = observer[g]
    BY <1>1, <1>2, <1>3 DEF SpawnObserver, ObserverState
  <2>3. UNCHANGED <<liveRow, handle, provider>>
    BY <1>3 DEF SpawnObserver, liveRows, world
  <2>4. \A b \in Actors \ {a} : actor[b].at \in Onward => Mine(b) # Mine(a)
    BY <2>1 DEF ObserverInv, LaunchesDiffer, Onward, Unrecorded, Spawning
  <2>5. ~Started(Mine(a))
    BY <1>2, <2>1 DEF StartedInv, Onward
  <2>6. \A n : Started(n) /\ n \in Gens => Started(n)'
    BY <2>2 DEF Started
  <2>7. /\ handle.pid # 0 => handle.pid \in Gens
        /\ \A b \in Actors : /\ actor[b].handle.pid # 0 => actor[b].handle.pid \in Gens
                             /\ actor[b].at \in Spawned => Mine(b) \in Gens
    BY PidsTyped, GenerationsAre, SpawnedIsGen
  <2>8. ASSUME NEW g \in Gens, Started(g)'
        PROVE  g <= liveRow'.gen /\ \A b \in Actors : actor'[b].at \in Onward => actor'[b].row.gen # g
    <3>1. CASE g = Mine(a)
      BY <1>2, <2>1, <2>3, <2>4, <3>1 DEF Onward, Mine
    <3>2. CASE g # Mine(a)
      <4>1. Started(g)
        BY <2>2, <2>8, <3>2 DEF Started
      <4> QED BY <2>1, <2>3, <4>1 DEF StartedInv, Onward, Mine
    <3> QED BY <3>1, <3>2
  <2>9. ASSUME NEW b \in Actors
        PROVE  /\ actor'[b].handle.pid # 0 => observer'[actor'[b].handle.pid].at # "none"
               /\ actor'[b].at \in Spawned => observer'[actor'[b].row.gen].at # "none"
    BY <2>1, <2>2, <2>6, <2>7 DEF StartedInv, Started, Mine
  <2>10. StartedInv'
    BY <2>3, <2>6, <2>7, <2>8, <2>9 DEF StartedInv, Started, Mine
  <2>11. StraysOnlyEnd
    BY <2>2, <2>3, <2>5 DEF StraysOnlyEnd, Stray, Started, TargetLost
  <2> QED BY <2>10, <2>11
<1>4. CASE RecordObserver(a) /\ handle = actor[a].handle
  <2>1. /\ actor'[a].at = "await_observer" /\ actor'[a].row = actor[a].row /\ actor'[a].handle = actor[a].handle
        /\ \A b \in Actors \ {a} : actor'[b] = actor[b]
        /\ actor[a].at = "record_observer"
    BY <1>1, <1>4, StepMoves DEF RecordObserver, ActorSteps, On
  <2>2. UNCHANGED <<liveRow, provider, observer>> /\ handle'.pid = Mine(a)
    BY <1>1, <1>4 DEF RecordObserver, Handles, liveRows
  <2>3. StartedInv'
    BY <2>1, <2>2 DEF StartedInv, Started, Onward, Spawned, Mine
  <2> QED BY <2>2, <2>3 DEF StraysOnlyEnd, Stray, TargetLost
<1>5. CASE RecordObserver(a) /\ handle # actor[a].handle
  <2>1. ObserversGoOn
    BY <1>1, <1>5, StoppingGoesOn DEF RecordObserver, StartedInv, On, Spawned
  <2>2. ActorsGoOn
    BY <1>5, SteppingGoesOn DEF RecordObserver, ActorSteps, Onward, Spawned
  <2> QED BY <1>5, <2>1, <2>2, GoingOnKeeps DEF RecordObserver, RestGoesOn, ProviderGoesOn, liveRows
<1> QED BY <1>3, <1>4, <1>5

\* A launch or a recovery reserves a new generation, which no observer has.
LEMMA ReservingKeeps ==
  ASSUME ObserverInv, StartedInv, NEW a \in Actors, ReserveStart(a) \/ ReserveRecovery(a)
  PROVE  StartedInv' /\ StraysOnlyEnd
<1>1. /\ Typed /\ actor \in [Actors -> ActorState] /\ liveRow \in LiveRows /\ liveRow.gen \in 0..Launches
  BY PidsTyped, TypedParts
<1>2. UNCHANGED <<handle, observer, provider>>
  BY DEF ReserveStart, ReserveRecovery, world
<1>3. CASE liveRow' = NextLaunch /\ actor' = [actor EXCEPT ![a].at = "launch", ![a].row = NextLaunch, ![a].last = bound.last]
  <2>1. liveRow'.gen = liveRow.gen + 1
    BY <1>3 DEF NextLaunch
  <2>2. /\ actor'[a].at = "launch" /\ actor'[a].row.gen = liveRow.gen + 1 /\ actor'[a].handle = actor[a].handle
        /\ \A b \in Actors \ {a} : actor'[b] = actor[b]
    BY <1>1, <1>3 DEF NextLaunch, ActorState
  <2>3. ASSUME NEW g \in Gens, Started(g)
        PROVE  g <= liveRow'.gen /\ \A b \in Actors : actor'[b].at \in Onward => actor'[b].row.gen # g
    <3>1. g <= liveRow.gen /\ g \in Nat /\ liveRow.gen \in Nat
      BY <1>1, <2>3, GenerationsAre DEF StartedInv
    <3>2. \A b \in Actors \ {a} : actor'[b].at \in Onward => actor'[b].row.gen # g
      BY <2>2, <2>3 DEF StartedInv, Mine
    <3> QED BY <2>1, <2>2, <3>1, <3>2
  <2>4. StartedInv'
    BY <1>2, <2>2, <2>3 DEF StartedInv, Started, On, Spawned, Mine
  <2>5. ASSUME NEW g \in Stray PROVE g \in Stray'
    <3>1. g \in Gens /\ Started(g)
      BY DEF Stray, Started
    <3>2. liveRow'.gen # g
      BY <1>1, <2>1, <3>1, GenerationsAre DEF StartedInv
    <3> QED BY <1>2, <3>1, <3>2 DEF Stray, TargetLost
  <2> QED BY <1>2, <2>4, <2>5 DEF StraysOnlyEnd
<1>4. CASE UNCHANGED liveRow /\ Step(a, "idle")
  <2>1. ActorsGoOn
    BY <1>4, SteppingGoesOn DEF ActorSteps, Onward, Spawned
  <2> QED BY <1>2, <1>4, <2>1, GoingOnKeeps DEF ObserversGoOn, RestGoesOn, ProviderGoesOn
<1> QED BY <1>3, <1>4 DEF ReserveStart, ReserveRecovery

\* The steps of the world, and the death of an observer.
LEMMA WorldGoesOn ==
  ASSUME ObserverInv, StartedInv,
         \/ ReconcileLost \/ RefuteHandle \/ TurnStarts \/ TurnCompletes \/ ProviderDies
         \/ \E g \in Gens : ObserverDies(g)
  PROVE  StartedInv' /\ StraysOnlyEnd
<1>1. Typed /\ handle \in Handles /\ liveRow \in LiveRows
  BY PidsTyped, TypedParts
<1>2. actor' = actor
  BY DEF ReconcileLost, RefuteHandle, TurnStarts, TurnCompletes, ProviderDies, ObserverDies
<1>3. ActorsGoOn
  BY <1>2 DEF ActorsGoOn
<1>4. ObserversGoOn
  <2>1. CASE \E g \in Gens : ObserverDies(g)
    BY <2>1, GenerationsAre, StoppingGoesOn DEF ObserverDies, Started
  <2>2. CASE ReconcileLost \/ RefuteHandle \/ TurnStarts \/ TurnCompletes \/ ProviderDies
    BY <2>2 DEF ReconcileLost, RefuteHandle, TurnStarts, TurnCompletes, ProviderDies, ObserversGoOn
  <2> QED BY <2>1, <2>2
<1>5. RestGoesOn
  BY <1>1 DEF ReconcileLost, RefuteHandle, TurnStarts, TurnCompletes, ProviderDies, ObserverDies, RestGoesOn,
     ProviderGoesOn, FenceRuntime, SetStatus, StopProvider, Handles, LiveRows, liveRows, world
<1> QED BY <1>3, <1>4, <1>5, GoingOnKeeps

\* Every step keeps StartedInv and lets strays only end.
LEMMA StartedStep ==
  ASSUME ObserverInv, StartedInv, [ObserverNext]_observerVars
  PROVE  StartedInv' /\ StraysOnlyEnd
<1>1. CASE UNCHANGED observerVars
  BY <1>1 DEF observerVars, StartedInv, StraysOnlyEnd, Stray, Started, On, Mine, TargetLost
<1>2. ASSUME NEW a \in Actors, ReserveStart(a) \/ LaunchRuntime(a) \/ ParkRuntime(a) \/ RecoverRuntime(a) \/ ActorDies(a)
      PROVE  StartedInv' /\ StraysOnlyEnd
  BY <1>2, ReservingKeeps, SpawningKeeps, ActorGoesOn DEF LaunchRuntime, RecoverRuntime
<1> QED BY <1>1, <1>2, ObserverGoesOn, WorldGoesOn DEF ObserverNext

\* ObserversOnlyEnd: for any number of launches, recoveries and parks that overlap
\* and die, an observer whose Runtime is gone or replaced never gets it back, and
\* no observer is started again in a generation (spawn_opencode_observer_with_mode):
\* what is left for it is to end, which SupervisionEnds lets it do.
THEOREM ObserversOnlyEnd == ObserverSpec => [][StraysOnlyEnd]_observerVars
<1>1. ObserverInit => StartedInv
  BY DEF ObserverInit, StartedInv, Started, Process, NoHandle, Fresh, On, Spawned, Mine
<1>2. ObserverInv /\ StartedInv /\ [ObserverNext]_observerVars => StartedInv' /\ [StraysOnlyEnd]_observerVars
  BY StartedStep
<1> QED BY <1>1, <1>2, ObserverInvariant, PTL DEF ObserverSpec
=============================================================================
