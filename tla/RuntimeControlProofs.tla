------------------------ MODULE RuntimeControlProofs ------------------------
(***************************************************************************)
(* First the rows: the invariants and action properties of Registry for    *)
(* every set of sessions and for rows of any revision and generation.      *)
(*                                                                         *)
(* Then RuntimeControl for any number of processes, any failures and any   *)
(* bounds: it implements Registry, the rows an action holds are the        *)
(* current ones while their revision is, no hook evidence is ever          *)
(* attributed to a generation it was not collected for, and a park is      *)
(* final.  Last what needs processes that do not race: one alone leaves    *)
(* every closed Workstream quiet, every live one recorded and the promise  *)
(* of a Workstream kept, and two record their own process only.            *)
(***************************************************************************)
EXTENDS RuntimeControl, TLAPS, FiniteSetTheorems

\* The inductive invariant.  ActiveIsBound is not inductive alone (a cleared
\* session keeps the generation only because the binding is current), and a
\* row that is deleted must take its binding with it.
IInv == TypeOK /\ UnknownNeedsRecovery /\ ActiveIsBound /\ RowsBelong

\* A registry without rows satisfies the invariant.
LEMMA InitIInv == Init => IInv
BY NoSessionAssumption
   DEF Init, IInv, TypeOK, WorkstreamRow, RuntimeRow, BindingRow, WorkstreamLifecycle,
       RuntimeStatus, LiveStatus, NoRuntime, NoBinding, Null,
       UnknownNeedsRecovery, ActiveIsBound, RowsBelong

\* The three shared writes keep the rows well typed.
LEMMA RowWritesTyped ==
  ASSUME TypeOK
  PROVE  /\ \A life \in WorkstreamLifecycle : WorkstreamTo(life) => ws' \in WorkstreamRow
         /\ TouchWorkstream => ws' \in WorkstreamRow
         /\ \A status \in RuntimeStatus : RuntimeTo(status) => rt' \in RuntimeRow
         /\ FreshRuntime \in RuntimeRow
<1>1. ASSUME NEW life \in WorkstreamLifecycle, WorkstreamTo(life)
      PROVE  ws' \in WorkstreamRow
  <2>1. ws \in WorkstreamRow
    BY DEF TypeOK
  <2> QED BY <1>1, <2>1 DEF WorkstreamTo, WorkstreamRow
<1>2. ASSUME TouchWorkstream PROVE ws' \in WorkstreamRow
  <2>1. ws.life \in WorkstreamLifecycle
    BY DEF TypeOK, WorkstreamRow
  <2> QED BY <1>1, <1>2, <2>1 DEF TouchWorkstream
<1>3. ASSUME NEW status \in RuntimeStatus, RuntimeTo(status)
      PROVE  rt' \in RuntimeRow
  <2>1. rt \in RuntimeRow
    BY DEF TypeOK
  <2> QED BY <1>3, <2>1 DEF RuntimeTo, RuntimeRow
<1>4. FreshRuntime \in RuntimeRow
  BY DEF TypeOK, FreshRuntime, RuntimeRow, RuntimeStatus, LiveStatus, Null
<1> QED BY <1>1, <1>2, <1>3, <1>4

\* A reservation: the new generation has no process and no binding yet.
LEMMA ReserveIInv ==
  ASSUME IInv, ReserveRuntime \/ ReserveRecovery
  PROVE  IInv'
<1> USE DEF IInv, TypeOK, UnknownNeedsRecovery, ActiveIsBound, RowsBelong
<1>1. ws' \in WorkstreamRow /\ rt' = FreshRuntime /\ rt' \in RuntimeRow /\ UNCHANGED binding
  BY RowWritesTyped DEF ReserveRuntime, ReserveRecovery, WorkstreamLifecycle
<1>2. rt'.status = "starting" /\ rt'.gen = rt.gen + 1 /\ rt'.proc = 0
  BY <1>1 DEF FreshRuntime, Null
<1>3. ws'.life # "gone"
  BY DEF ReserveRuntime, ReserveRecovery, Reservable, RecoveryReservable, WorkstreamTo,
         TouchWorkstream, WorkstreamRow
<1>4. binding'.gen <= rt'.gen
  BY <1>1, <1>2 DEF RuntimeRow, BindingRow
<1> QED BY <1>1, <1>2, <1>3, <1>4 DEF RuntimeRow

\* The launcher's fingerprint: only rt.proc and the revision change.
LEMMA RecordIInv ==
  ASSUME IInv, NEW proc \in 1 .. rt.gen, NEW expected, RecordIdentity(expected, proc)
  PROVE  IInv'
<1>1. rt' = [status |-> "starting", gen |-> rt.gen, proc |-> proc, rev |-> rt.rev + 1]
      /\ UNCHANGED <<ws, binding>> /\ rt.status = "starting"
  BY DEF RecordIdentity
<1>2. rt' \in RuntimeRow
  BY <1>1 DEF IInv, TypeOK, RuntimeRow, RuntimeStatus, LiveStatus
<1> QED BY <1>1, <1>2
        DEF IInv, TypeOK, UnknownNeedsRecovery, ActiveIsBound, RowsBelong, RuntimeRow

\* The outcomes recorded by Runtime actions.
LEMMA OutcomeIInv ==
  ASSUME IInv, NEW expected,
         MarkStopped(expected) \/ MarkRecoveryRequired(expected) \/ ParkRuntime(expected)
  PROVE  IInv'
<1>1. ws.life # "gone" /\ UNCHANGED binding
  BY DEF MarkStopped, MarkRecoveryRequired, ParkRuntime, RuntimeAt, IInv, RowsBelong
<1>2. CASE MarkStopped(expected)
  <2>1. RuntimeTo("stopped") /\ UNCHANGED ws
    BY <1>2 DEF MarkStopped
  <2>2. rt' \in RuntimeRow
    BY <2>1, RowWritesTyped DEF IInv, RuntimeStatus
  <2> QED BY <1>1, <2>1, <2>2
          DEF RuntimeTo, IInv, TypeOK, UnknownNeedsRecovery, ActiveIsBound, RowsBelong
<1>3. CASE MarkRecoveryRequired(expected)
  <2>1. RuntimeTo("unknown")
    BY <1>3 DEF MarkRecoveryRequired
  <2>2. rt' \in RuntimeRow
    BY <2>1, RowWritesTyped DEF IInv, RuntimeStatus
  <2>3. ws' \in WorkstreamRow
    BY <1>3, RowWritesTyped DEF MarkRecoveryRequired, IInv, TypeOK, WorkstreamLifecycle
  <2>4. ws'.life = "recovery_required"
    <3>1. CASE ws.life \in {"open", "parked"}
      BY <1>3, <3>1 DEF MarkRecoveryRequired, WorkstreamTo
    <3>2. CASE ws.life \notin {"open", "parked"}
      BY <1>1, <1>3, <3>2
         DEF MarkRecoveryRequired, IInv, TypeOK, WorkstreamRow, WorkstreamLifecycle
    <3> QED BY <3>1, <3>2
  <2> QED BY <1>1, <2>1, <2>2, <2>3, <2>4
          DEF RuntimeTo, IInv, TypeOK, UnknownNeedsRecovery, ActiveIsBound, RowsBelong
<1>4. CASE ParkRuntime(expected)
  <2>1. RuntimeTo("stopped") /\ WorkstreamTo("parked")
    BY <1>4 DEF ParkRuntime
  <2>2. rt' \in RuntimeRow /\ ws' \in WorkstreamRow
    BY <2>1, RowWritesTyped DEF IInv, RuntimeStatus, WorkstreamLifecycle
  <2> QED BY <1>1, <2>1, <2>2
          DEF RuntimeTo, WorkstreamTo, IInv, TypeOK, UnknownNeedsRecovery, ActiveIsBound,
              RowsBelong
<1> QED BY <1>2, <1>3, <1>4

\* A confirmed recovery moves the binding and reopens the Workstream.
LEMMA ReconcileIInv ==
  ASSUME IInv, NEW expectedWs, NEW expectedRt, NEW retained,
         ReconcileRecovery(expectedWs, expectedRt, retained)
  PROVE  IInv'
<1>1. WorkstreamTo("open") /\ UNCHANGED rt /\ rt.status = "starting"
      /\ binding' = BindingTo(binding.sess)
  BY DEF ReconcileRecovery, RecoveryBindingAt
<1>2. ws' \in WorkstreamRow
  BY <1>1, RowWritesTyped DEF IInv, WorkstreamLifecycle
<1>3. binding' \in BindingRow
  BY <1>1 DEF BindingTo, IInv, TypeOK, BindingRow, RuntimeRow
<1> QED BY <1>1, <1>2, <1>3
        DEF BindingTo, WorkstreamTo, IInv, TypeOK, UnknownNeedsRecovery, ActiveIsBound,
            RowsBelong, RuntimeRow

\* Visibility: archive and restore move no Runtime; forget deletes all rows.
LEMMA CatalogIInv ==
  ASSUME IInv, NEW expected,
         ArchiveWorkstream(expected) \/ RestoreWorkstream(expected) \/ ForgetWorkstream(expected)
  PROVE  IInv'
<1>1. CASE ArchiveWorkstream(expected)
  BY <1>1 DEF ArchiveWorkstream, WorkstreamAt, IInv, TypeOK, UnknownNeedsRecovery,
              ActiveIsBound, RowsBelong, WorkstreamRow
<1>2. CASE RestoreWorkstream(expected)
  <2>1. ws' \in WorkstreamRow
    BY <1>2 DEF RestoreWorkstream, IInv, TypeOK, WorkstreamRow, WorkstreamLifecycle
  <2>2. ws'.life # "gone" /\ (ws.life = "recovery_required" => ws'.life = "recovery_required")
    BY <1>2 DEF RestoreWorkstream, WorkstreamAt
  <2> QED BY <1>2, <2>1, <2>2
          DEF RestoreWorkstream, WorkstreamAt, IInv, TypeOK, UnknownNeedsRecovery,
              ActiveIsBound, RowsBelong
<1>3. CASE ForgetWorkstream(expected)
  <2>1. WorkstreamTo("gone") /\ rt' = [rt EXCEPT !.status = "none"] /\ binding' = NoBinding
    BY <1>3 DEF ForgetWorkstream
  <2>2. ws' \in WorkstreamRow
    BY <2>1, RowWritesTyped DEF IInv, WorkstreamLifecycle
  <2>3. rt' \in RuntimeRow /\ rt'.status = "none" /\ rt'.gen = rt.gen /\ rt'.proc = rt.proc
    BY <2>1 DEF IInv, TypeOK, RuntimeRow, RuntimeStatus
  <2>4. binding' \in BindingRow /\ binding'.gen = 0
    BY <2>1 DEF NoBinding, BindingRow
  <2> QED BY <2>1, <2>2, <2>3, <2>4
          DEF IInv, TypeOK, UnknownNeedsRecovery, ActiveIsBound, RowsBelong, RuntimeRow
<1> QED BY <1>1, <1>2, <1>3

\* The session start that completes a launch: the binding it leaves names a
\* session and the current generation.
LEMMA CompleteIInv ==
  ASSUME IInv, NEW source, NEW completed \in BindingRow,
         completed.sess # NoSession, completed.gen = rt.gen,
         CompleteSessionStart(source, completed)
  PROVE  IInv'
<1>1. rt.status = "starting" /\ RuntimeTo("idle") /\ binding' = completed
  BY DEF CompleteSessionStart
<1>2. rt' \in RuntimeRow
  BY <1>1, RowWritesTyped DEF IInv, RuntimeStatus, LiveStatus
<1>3. ws.life # "gone"
  BY <1>1 DEF IInv, RowsBelong
<1>4. ws' \in WorkstreamRow /\ ws'.life # "gone"
  <2>1. CASE ws.life = "recovery_required"
    BY <2>1 DEF CompleteSessionStart, IInv, TypeOK, WorkstreamRow, WorkstreamLifecycle
  <2>2. CASE ws.life # "recovery_required"
    <3>1. TouchWorkstream
      BY <2>2 DEF CompleteSessionStart
    <3> QED BY <1>3, <3>1, RowWritesTyped DEF IInv, TouchWorkstream, WorkstreamTo
  <2> QED BY <2>1, <2>2
<1> QED BY <1>1, <1>2, <1>4
        DEF RuntimeTo, IInv, TypeOK, UnknownNeedsRecovery, ActiveIsBound, RowsBelong, RuntimeRow

\* A SessionStart keeps the invariant, whichever way it binds.
LEMMA SessionStartIInv ==
  ASSUME IInv, NEW gen, NEW sess \in Sessions, NEW source, HookSessionStart(gen, sess, source)
  PROVE  IInv'
<1>1. sess # NoSession
  BY NoSessionAssumption
<1>2. BindingTo(sess) \in BindingRow
  BY DEF BindingTo, IInv, TypeOK, BindingRow, RuntimeRow
<1>3. CASE InsertInitialBinding(sess, source)
  <2> DEFINE inserted == [sess |-> sess, gen |-> rt.gen, rev |-> 1]
  <2>1. inserted \in BindingRow /\ inserted.sess # NoSession /\ inserted.gen = rt.gen
    BY <1>1 DEF IInv, TypeOK, BindingRow, RuntimeRow
  <2>2. CompleteSessionStart(source, inserted)
    BY <1>3 DEF InsertInitialBinding
  <2> QED BY <2>1, <2>2, CompleteIInv
<1>4. CASE RotateBinding(sess, source)
  <2> DEFINE rotated == IF binding.gen = rt.gen THEN binding ELSE BindingTo(sess)
  <2>1. rotated \in BindingRow /\ rotated.sess # NoSession /\ rotated.gen = rt.gen
    BY <1>1, <1>2, <1>4 DEF RotateBinding, BindingTo, IInv, TypeOK
  <2>2. CompleteSessionStart(source, rotated)
    BY <1>4 DEF RotateBinding
  <2> QED BY <2>1, <2>2, CompleteIInv
<1>5. CASE ClearSession(sess, source)
  <2>1. binding' = BindingTo(sess) /\ RuntimeTo("idle") /\ TouchWorkstream
        /\ rt.status \in {"idle", "attention"}
    BY <1>5 DEF ClearSession
  <2>2. rt' \in RuntimeRow /\ ws' \in WorkstreamRow
    BY <2>1, RowWritesTyped DEF IInv, RuntimeStatus, LiveStatus
  <2>3. ws.life # "gone" /\ ws'.life = ws.life
    BY <2>1 DEF IInv, RowsBelong, TouchWorkstream, WorkstreamTo
  <2> QED BY <1>1, <1>2, <2>1, <2>2, <2>3
          DEF BindingTo, RuntimeTo, IInv, TypeOK, UnknownNeedsRecovery, ActiveIsBound,
              RowsBelong, RuntimeRow
<1> QED BY <1>3, <1>4, <1>5 DEF HookSessionStart

\* A turn or the end of a session: the matching binding is kept.
LEMMA TurnIInv ==
  ASSUME IInv, NEW gen, NEW sess \in Sessions,
         HookUserPromptSubmit(gen, sess) \/ HookStop(gen, sess) \/ HookSessionEnd(gen, sess)
  PROVE  IInv'
<1>1. PICK status \in {"working", "attention", "stopped"} : RuntimeTo(status)
  BY DEF HookUserPromptSubmit, HookStop, HookSessionEnd
<1>2. TouchWorkstream /\ rt.status # "none" /\ binding.sess = sess /\ binding.gen = rt.gen
      /\ (UNCHANGED binding \/ binding' = BindingTo(sess))
  BY DEF HookUserPromptSubmit, HookStop, HookSessionEnd, HookFence, MatchingBinding
<1>3. rt' \in RuntimeRow /\ ws' \in WorkstreamRow
  BY <1>1, <1>2, RowWritesTyped DEF IInv, RuntimeStatus, LiveStatus
<1>4. ws.life # "gone" /\ ws'.life = ws.life
  BY <1>2 DEF IInv, RowsBelong, TouchWorkstream, WorkstreamTo
<1>5. binding' \in BindingRow /\ binding'.sess = sess /\ binding'.gen = rt.gen
  BY <1>2 DEF BindingTo, IInv, TypeOK, BindingRow, RuntimeRow
<1>6. sess # NoSession
  BY NoSessionAssumption
<1> QED BY <1>1, <1>3, <1>4, <1>5, <1>6
        DEF RuntimeTo, IInv, TypeOK, UnknownNeedsRecovery, ActiveIsBound, RowsBelong, RuntimeRow

\* Every transaction keeps the invariant.
LEMMA NextIInv == IInv /\ [Next]_registryVars => IInv'
<1> SUFFICES ASSUME IInv, [Next]_registryVars PROVE IInv'
  OBVIOUS
<1>1. CASE UNCHANGED registryVars
  BY <1>1 DEF registryVars, IInv, TypeOK, UnknownNeedsRecovery, ActiveIsBound, RowsBelong
<1>2. CASE Hook(rt.gen)
  BY <1>2, SessionStartIInv, TurnIInv DEF Hook
<1>3. CASE Next /\ ~Hook(rt.gen)
  BY <1>3, ReserveIInv, RecordIInv, OutcomeIInv, ReconcileIInv, CatalogIInv DEF Next
<1> QED BY <1>1, <1>2, <1>3

\* The rows of a Workstream keep their types, no plain Resume can replace a
\* Runtime whose state is unknown, an active Runtime is bound to a session of
\* its own generation, and no row outlives its owner.
THEOREM RegistryInvariant ==
  Spec => [](TypeOK /\ UnknownNeedsRecovery /\ ActiveIsBound /\ RowsBelong)
<1>1. Spec => []IInv
  BY InitIInv, NextIInv, PTL DEF Spec
<1> QED BY <1>1, PTL DEF IInv

-----------------------------------------------------------------------------
(* What one transaction may never do.                                      *)

\* Every write of a row goes through a constructor that moves its revision.
LEMMA RevisionsGrowStep == IInv /\ [Next]_registryVars => [RevisionsGrow]_registryVars
<1> SUFFICES ASSUME IInv, Next PROVE RevisionsGrow
  OBVIOUS
<1>1. ws.rev \in Nat /\ rt.rev \in Nat /\ FreshRuntime.rev = rt.rev + 1
  BY DEF IInv, TypeOK, WorkstreamRow, RuntimeRow, FreshRuntime
<1>2. UNCHANGED ws \/ ws'.rev = ws.rev + 1 \/ ws'.rev = ws.rev + 2
  BY DEF Next, ReserveRuntime, ReserveRecovery, RecordIdentity, MarkStopped,
         MarkRecoveryRequired, ParkRuntime, ReconcileRecovery, ArchiveWorkstream,
         RestoreWorkstream, ForgetWorkstream, Hook, HookSessionStart, InsertInitialBinding,
         RotateBinding, ClearSession, CompleteSessionStart, HookUserPromptSubmit, HookStop,
         HookSessionEnd, WorkstreamTo, TouchWorkstream
<1>3. UNCHANGED rt \/ rt'.rev = rt.rev + 1 \/ rt'.status = "none"
  <2>1. CASE ForgetWorkstream(ws.rev)
    BY <2>1 DEF ForgetWorkstream, IInv, TypeOK, RuntimeRow
  <2>2. CASE Next /\ ~ForgetWorkstream(ws.rev)
    BY <1>1, <2>2
       DEF Next, ReserveRuntime, ReserveRecovery, RecordIdentity, MarkStopped,
           MarkRecoveryRequired, ParkRuntime, ReconcileRecovery, ArchiveWorkstream,
           RestoreWorkstream, Hook, HookSessionStart, InsertInitialBinding,
           RotateBinding, ClearSession, CompleteSessionStart, HookUserPromptSubmit, HookStop,
           HookSessionEnd, RuntimeTo
  <2> QED BY <2>1, <2>2
<1> QED BY <1>1, <1>2, <1>3 DEF RevisionsGrow

\* Only two transactions take a Workstream from recovery_required to open,
\* and both write the binding of the current generation.
LEMMA RecoveryStep == IInv /\ [Next]_registryVars => [RecoveryIsProved]_registryVars
<1> SUFFICES ASSUME IInv, Next, ws.life = "recovery_required", ws'.life = "open"
             PROVE  /\ binding'.sess # NoSession /\ binding'.gen = rt'.gen
                    /\ binding.sess \in {NoSession, binding'.sess}
  BY DEF RecoveryIsProved
<1>1. CASE ReconcileRecovery(ws.rev, rt.rev, binding)
  BY <1>1 DEF ReconcileRecovery, RecoveryBindingAt, BindingTo
<1>2. ASSUME NEW sess \in Sessions, NEW source, HookSessionStart(rt.gen, sess, source)
      PROVE  /\ binding'.sess # NoSession /\ binding'.gen = rt'.gen
             /\ binding.sess \in {NoSession, binding'.sess}
  <2>1. sess # NoSession
    BY NoSessionAssumption
  <2>2. ~ClearSession(sess, source)
    BY DEF ClearSession, TouchWorkstream, WorkstreamTo
  <2>3. CASE InsertInitialBinding(sess, source)
    BY <2>1, <2>3 DEF InsertInitialBinding, CompleteSessionStart, RuntimeTo
  <2>4. CASE RotateBinding(sess, source)
    BY <2>1, <2>4 DEF RotateBinding, CompleteSessionStart, RuntimeTo, BindingTo
  <2> QED BY <1>2, <2>2, <2>3, <2>4 DEF HookSessionStart
<1>3. ASSUME NEW sess \in Sessions,
             \/ HookUserPromptSubmit(rt.gen, sess) \/ HookStop(rt.gen, sess)
             \/ HookSessionEnd(rt.gen, sess)
      PROVE  FALSE
  BY <1>3 DEF HookUserPromptSubmit, HookStop, HookSessionEnd, TouchWorkstream, WorkstreamTo
<1>4. CASE Next /\ ~Hook(rt.gen) /\ ~ReconcileRecovery(ws.rev, rt.rev, binding)
  BY <1>4
     DEF Next, ReserveRuntime, ReserveRecovery, Reservable, RecordIdentity, MarkStopped,
         MarkRecoveryRequired, ParkRuntime, ArchiveWorkstream, RestoreWorkstream,
         ForgetWorkstream, WorkstreamTo, TouchWorkstream
<1> QED BY <1>1, <1>2, <1>3, <1>4 DEF Hook

\* Only an explicit clear inside the current generation replaces a session.
LEMMA SessionStep == IInv /\ [Next]_registryVars => [SessionReplaced]_registryVars
<1> SUFFICES ASSUME IInv, Next, binding.sess # NoSession, binding'.sess # binding.sess
             PROVE  \/ ws'.life = "gone"
                    \/ binding.gen = rt.gen /\ rt'.gen = rt.gen /\ rt.status \in LiveStatus
  BY DEF SessionReplaced
<1>1. CASE ForgetWorkstream(ws.rev)
  BY <1>1 DEF ForgetWorkstream, WorkstreamTo
<1>2. ASSUME NEW sess \in Sessions, NEW source, HookSessionStart(rt.gen, sess, source)
      PROVE  binding.gen = rt.gen /\ rt'.gen = rt.gen /\ rt.status \in LiveStatus
  <2>1. ~InsertInitialBinding(sess, source)
    BY DEF InsertInitialBinding
  <2>2. ~RotateBinding(sess, source)
    BY DEF RotateBinding, CompleteSessionStart, BindingTo
  <2>3. CASE ClearSession(sess, source)
    BY <2>3 DEF ClearSession, RuntimeTo, LiveStatus
  <2> QED BY <1>2, <2>1, <2>2, <2>3 DEF HookSessionStart
<1>3. ASSUME NEW sess \in Sessions,
             \/ HookUserPromptSubmit(rt.gen, sess) \/ HookStop(rt.gen, sess)
             \/ HookSessionEnd(rt.gen, sess)
      PROVE  FALSE
  BY <1>3 DEF HookUserPromptSubmit, HookStop, HookSessionEnd, MatchingBinding, BindingTo
<1>4. CASE Next /\ ~Hook(rt.gen) /\ ~ForgetWorkstream(ws.rev)
  BY <1>4
     DEF Next, ReserveRuntime, ReserveRecovery, RecordIdentity, MarkStopped,
         MarkRecoveryRequired, ParkRuntime, ReconcileRecovery, ArchiveWorkstream,
         RestoreWorkstream, BindingTo
<1> QED BY <1>1, <1>2, <1>3, <1>4 DEF Hook

\* No transaction changes a row without moving its revision forward, so a
\* compare-and-set on a revision read earlier never hits a changed row.
THEOREM RevisionFenceHolds == Spec => RevisionFence
BY InitIInv, NextIInv, RevisionsGrowStep, PTL DEF Spec, RevisionFence

\* A Workstream in recovery_required is opened again only together with a
\* binding of the current generation that keeps the retained session.
THEOREM RecoveryNeedsProofHolds == Spec => RecoveryNeedsProof
BY InitIInv, NextIInv, RecoveryStep, PTL DEF Spec, RecoveryNeedsProof

\* A retained session is replaced only by a clear of its live generation, or
\* deleted with its Workstream.
THEOREM SessionKeptHolds == Spec => SessionKept
BY InitIInv, NextIInv, SessionStep, PTL DEF Spec, SessionKept

\* Every row keeps its type.
THEOREM RegistryTypeCorrect == Spec => []TypeOK
BY RegistryInvariant, PTL

\* The three rows of a Workstream never contradict each other.
THEOREM RowsAgreeHolds == Spec => []RowsAgree
<1>1. ActiveIsBound /\ RowsBelong => RowsAgree
  BY DEF RowsAgree
<1> QED BY <1>1, RegistryInvariant, PTL

-----------------------------------------------------------------------------
(* The processes.                                                          *)

\* The steps between a reservation and the end of its launch.
Launching == {"create_dir", "new_session", "probe_own", "prove_group", "record"}

\* What an actor holds is an earlier state of the rows: no newer than the
\* current one, and equal to it while the revision is.  A launcher holds the
\* row it reserved, which has no process yet.
Holds(o, row) ==
  /\ o \in ActorState
  /\ o.rt.rev <= row.rev /\ o.rt.gen <= row.gen /\ o.proc <= row.gen
  /\ row.status # "none" /\ o.rt.rev = row.rev => o.rt = row
  /\ o.pc \in Launching => o.rt.gen \in Gens /\ o.rt.proc = Null /\ o.rt.status = "starting"
  /\ o.pc = "record" => o.proc # Null
  /\ o.after \notin Launching

\* What a hook process knows: a generation that was reserved, and the process
\* that is recorded for it as long as no newer one is reserved.
HookHolds(h, row) ==
  /\ h \in [gen : Gens \union {0}, proc : Gens \union {Null}]
  /\ h # NoHook => /\ h.gen <= row.gen /\ h.proc # Null
                   /\ h.gen = row.gen /\ row.status # "none" => row.proc = h.proc

PanesOK == /\ dir \in BOOLEAN /\ ready \in BOOLEAN
           /\ server \in Gens \union {Null} /\ server <= rt.gen
           /\ pane \in [Gens -> PaneState]

ActorsOK == op \in [Actors -> ActorState] /\ \A a \in Actors : Holds(op[a], rt)

RInv == /\ TypeOK
        /\ rt.gen <= MaxGen
        /\ rt.rev = 0 => rt.status = "none"
        /\ ActorsOK
        /\ PanesOK
        /\ HookHolds(hook, rt)

-----------------------------------------------------------------------------
(* The rows only move forward.                                             *)

\* One transaction: the generation never decreases, a changed row has a
\* higher revision unless it is deleted, and a process is only recorded once.
Succeeds(row, next) ==
  /\ next \in RuntimeRow
  /\ row.gen <= next.gen /\ row.rev <= next.rev
  /\ next = row \/ row.rev < next.rev \/ next.status = "none"
  /\ next.gen = row.gen /\ row.proc # Null => next.proc = row.proc

\* What an actor holds stays an earlier state of the rows, over any transaction.
LEMMA HoldsSucceeds ==
  ASSUME NEW row \in RuntimeRow, NEW next, Succeeds(row, next), NEW o, Holds(o, row)
  PROVE  Holds(o, next)
<1>1. /\ o.rt.rev \in Nat /\ o.rt.gen \in Nat /\ o.proc \in Nat
      /\ row.gen \in Nat /\ row.rev \in Nat /\ next.gen \in Nat /\ next.rev \in Nat
  BY BoundsAssumption DEF Holds, ActorState, RuntimeRow, Gens, Null, Succeeds
<1>2. o.rt.rev <= next.rev /\ o.rt.gen <= next.gen /\ o.proc <= next.gen
  BY <1>1 DEF Holds, Succeeds
<1>3. next.status # "none" /\ o.rt.rev = next.rev => o.rt = next
  BY <1>1 DEF Holds, Succeeds
<1> QED BY <1>2, <1>3 DEF Holds

\* So does the evidence a hook process holds.
LEMMA HookHoldsSucceeds ==
  ASSUME NEW row \in RuntimeRow, NEW next, Succeeds(row, next), NEW h, HookHolds(h, row),
         row.status = "none" => row.gen < next.gen \/ next.status = "none"
  PROVE  HookHolds(h, next)
<1>1. row.gen \in Nat /\ next.gen \in Nat /\ h.gen \in Nat
  BY BoundsAssumption DEF HookHolds, RuntimeRow, Gens, Succeeds
<1>2. ASSUME h # NoHook PROVE h.gen <= next.gen /\ h.proc # Null
  BY <1>1, <1>2 DEF HookHolds, Succeeds
<1>3. ASSUME h # NoHook, h.gen = next.gen, next.status # "none" PROVE next.proc = h.proc
  <2>1. h.gen = row.gen /\ row.status # "none" /\ h.proc # Null
    BY <1>1, <1>3 DEF HookHolds, Succeeds
  <2> QED BY <1>3, <2>1 DEF HookHolds, Succeeds
<1> QED BY <1>2, <1>3 DEF HookHolds

\* The transactions of the actions.  Of those of Registry they never record
\* the process of a row that already has one.
Transaction ==
  \/ ReserveRuntime \/ ReserveRecovery
  \/ rt.proc = Null /\ \E proc \in 1 .. rt.gen : RecordIdentity(rt.rev, proc)
  \/ MarkStopped(rt.rev) \/ MarkRecoveryRequired(rt.rev) \/ ParkRuntime(rt.rev)
  \/ ReconcileRecovery(ws.rev, rt.rev, binding)
  \/ ArchiveWorkstream(ws.rev) \/ RestoreWorkstream(ws.rev) \/ ForgetWorkstream(ws.rev)

\* An action's transaction, and a current hook, is a step of Registry.
LEMMA TransactionIsNext == Transaction \/ Hook(rt.gen) => Next
BY DEF Transaction, Next

\* A Runtime row is inserted by a reservation only, and a reservation is the
\* only transaction that changes the generation.
RowStep == /\ Succeeds(rt, rt')
           /\ rt.status = "none" => rt.gen < rt'.gen \/ rt'.status = "none"

\* A write of the status alone leads to a successor of the row.
LEMMA StatusRowStep ==
  ASSUME TypeOK, NEW status \in RuntimeStatus, RuntimeTo(status), rt.status # "none"
  PROVE  RowStep
BY DEF TypeOK, RuntimeRow, RuntimeTo, RowStep, Succeeds

\* Every transaction leads to a successor of the row.
LEMMA TransactionRowStep ==
  ASSUME TypeOK, Transaction \/ Hook(rt.gen) \/ UNCHANGED registryVars
  PROVE  RowStep
<1>1. rt \in RuntimeRow /\ rt.gen \in Nat /\ rt.rev \in Nat
  BY DEF TypeOK, RuntimeRow
<1>2. CASE UNCHANGED rt
  BY <1>1, <1>2 DEF RowStep, Succeeds
<1>3. CASE ReserveRuntime \/ ReserveRecovery
  <2>1. rt' = FreshRuntime
    BY <1>3 DEF ReserveRuntime, ReserveRecovery
  <2>2. rt' \in RuntimeRow /\ rt'.gen = rt.gen + 1 /\ rt'.rev = rt.rev + 1
    BY <2>1, RowWritesTyped DEF FreshRuntime
  <2> QED BY <1>1, <2>2 DEF RowStep, Succeeds
<1>4. CASE rt.proc = Null /\ \E proc \in 1 .. rt.gen : RecordIdentity(rt.rev, proc)
  <2>1. PICK proc \in 1 .. rt.gen : RecordIdentity(rt.rev, proc)
    BY <1>4
  <2>2. rt' = [status |-> "starting", gen |-> rt.gen, proc |-> proc, rev |-> rt.rev + 1]
        /\ rt.status = "starting"
    BY <2>1 DEF RecordIdentity
  <2> QED BY <1>1, <1>4, <2>2 DEF RowStep, Succeeds, RuntimeRow, RuntimeStatus, LiveStatus
<1>5. CASE MarkStopped(rt.rev) \/ MarkRecoveryRequired(rt.rev) \/ ParkRuntime(rt.rev)
  BY <1>5, StatusRowStep
     DEF MarkStopped, MarkRecoveryRequired, ParkRuntime, RuntimeAt, RuntimeStatus
<1>6. CASE ForgetWorkstream(ws.rev)
  <2>1. rt' \in RuntimeRow /\ rt'.status = "none" /\ rt'.gen = rt.gen /\ rt'.proc = rt.proc
        /\ rt'.rev = rt.rev
    BY <1>1, <1>6 DEF ForgetWorkstream, RuntimeRow, RuntimeStatus
  <2> QED BY <1>1, <2>1 DEF RowStep, Succeeds
<1>7. CASE Hook(rt.gen)
  BY <1>7, StatusRowStep
     DEF Hook, HookSessionStart, InsertInitialBinding, RotateBinding, ClearSession,
         CompleteSessionStart, HookUserPromptSubmit, HookStop, HookSessionEnd, HookFence,
         RuntimeStatus, LiveStatus
<1>8. CASE \/ ReconcileRecovery(ws.rev, rt.rev, binding) \/ ArchiveWorkstream(ws.rev)
           \/ RestoreWorkstream(ws.rev) \/ UNCHANGED registryVars
  BY <1>2, <1>8 DEF ReconcileRecovery, ArchiveWorkstream, RestoreWorkstream, registryVars
<1> QED BY <1>3, <1>4, <1>5, <1>6, <1>7, <1>8 DEF Transaction

-----------------------------------------------------------------------------
(* The control state of one actor.                                         *)

\* An actor that begins holds nothing.
LEMMA IdleHolds ==
  ASSUME NEW row \in RuntimeRow, row.rev = 0 => row.status = "none"
  PROVE  Holds(Idle, row)
<1>1. Idle \in ActorState
  BY DEF Idle, ActorState, Steps, Goals, NoRuntime, RuntimeRow, RuntimeStatus, NoBinding,
         BindingRow, Null
<1>2. Idle.rt.rev = 0 /\ Idle.rt.gen = 0 /\ Idle.proc = 0 /\ Idle.pc = "idle"
      /\ Idle.after = "idle"
  BY DEF Idle, NoRuntime, Null
<1> QED BY <1>1, <1>2 DEF Holds, RuntimeRow, Launching

\* Moving to another step, with or without a continuation.
LEMMA MoveHolds ==
  ASSUME NEW row, NEW o, Holds(o, row), NEW pc \in Steps, NEW after \in Steps \ Launching,
         pc \in Launching => o.pc \in Launching,
         pc = "record" => o.proc # Null
  PROVE  Holds([o EXCEPT !.pc = pc], row) /\ Holds([o EXCEPT !.pc = pc, !.after = after], row)
<1>1. o \in ActorState
  BY DEF Holds
<1>2. ASSUME NEW x, x = [o EXCEPT !.pc = pc] \/ x = [o EXCEPT !.pc = pc, !.after = after]
      PROVE  Holds(x, row)
  <2>1. x \in ActorState /\ x.pc = pc /\ x.rt = o.rt /\ x.proc = o.proc
        /\ x.after \in {o.after, after}
    BY <1>1, <1>2 DEF ActorState
  <2> QED BY <2>1 DEF Holds
<1> QED BY <1>2

\* A step of actor a to state x, while the rows make a transaction or none.
LEMMA ActorStep ==
  ASSUME RInv, RowStep, NEW a \in Actors, NEW x, op' = [op EXCEPT ![a] = x], Holds(x, rt')
  PROVE  ActorsOK'
<1>1. op \in [Actors -> ActorState] /\ x \in ActorState /\ rt \in RuntimeRow
  BY DEF RInv, ActorsOK, Holds, TypeOK
<1>2. ASSUME NEW b \in Actors PROVE Holds(op'[b], rt')
  <2>1. CASE b = a
    BY <1>1, <2>1
  <2>2. CASE b # a
    <3>1. op'[b] = op[b] /\ Holds(op[b], rt)
      BY <1>1, <2>2 DEF RInv, ActorsOK
    <3> QED BY <1>1, <3>1, HoldsSucceeds DEF RowStep
  <2> QED BY <2>1, <2>2
<1>3. op' \in [Actors -> ActorState]
  BY <1>1
<1> QED BY <1>2, <1>3 DEF ActorsOK

\* Actors that do not move keep their invariant over a step of the row.
LEMMA OthersStep ==
  ASSUME RInv, RowStep, UNCHANGED op
  PROVE  ActorsOK'
<1>1. rt \in RuntimeRow
  BY DEF RInv, TypeOK
<1> QED BY <1>1, HoldsSucceeds DEF RInv, ActorsOK, RowStep

\* The row stays a row.
LEMMA RevisionStep ==
  ASSUME RInv, RowStep
  PROVE  rt' \in RuntimeRow /\ (rt'.rev = 0 => rt'.status = "none")
BY DEF RInv, TypeOK, RowStep, Succeeds, RuntimeRow

\* An actor that only moves on keeps its invariant.
LEMMA GotoStep ==
  ASSUME RInv, RowStep, NEW a \in Actors, NEW pc \in Steps, Goto(a, pc),
         pc \in Launching => op[a].pc \in Launching,
         pc = "record" => op[a].proc # Null
  PROVE  ActorsOK'
<1>1. rt \in RuntimeRow /\ op \in [Actors -> ActorState] /\ Holds(op[a], rt)
  BY DEF RInv, TypeOK, ActorsOK
<1>2. Holds(op[a], rt')
  BY <1>1, HoldsSucceeds DEF RowStep
<1>3. CASE pc = "idle"
  <2>1. op' = [op EXCEPT ![a] = Idle]
    BY <1>3 DEF Goto
  <2> QED BY <2>1, IdleHolds, RevisionStep, ActorStep
<1>4. CASE pc # "idle"
  <2>1. op' = [op EXCEPT ![a] = [op[a] EXCEPT !.pc = pc]]
    BY <1>4 DEF Goto
  <2>2. "idle" \in Steps \ Launching
    BY DEF Steps, Launching
  <2>3. Holds([op[a] EXCEPT !.pc = pc], rt')
    BY <1>2, <2>2, MoveHolds
  <2> QED BY <2>1, <2>3, ActorStep
<1> QED BY <1>3, <1>4

\* The same for a step with a continuation.
LEMMA GotoThenStep ==
  ASSUME RInv, RowStep, NEW a \in Actors, NEW pc \in Steps \ Launching,
         NEW after \in Steps \ Launching, GotoThen(a, pc, after)
  PROVE  ActorsOK'
<1>1. rt \in RuntimeRow /\ op \in [Actors -> ActorState] /\ Holds(op[a], rt)
  BY DEF RInv, TypeOK, ActorsOK
<1>2. Holds(op[a], rt')
  BY <1>1, HoldsSucceeds DEF RowStep
<1>3. op' = [op EXCEPT ![a] = [op[a] EXCEPT !.pc = pc, !.after = after]]
  BY <1>1 DEF GotoThen
<1>4. pc # "record"
  BY DEF Launching
<1>5. Holds([op[a] EXCEPT !.pc = pc, !.after = after], rt')
  BY <1>2, <1>4, MoveHolds
<1> QED BY <1>3, <1>5, ActorStep

\* A step without a transaction leaves the row.
LEMMA QuietRowStep ==
  ASSUME RInv, UNCHANGED registryVars
  PROVE  RowStep /\ UNCHANGED rt
BY TransactionRowStep DEF RInv, registryVars

\* An action begins with the current row, or with none.
LEMMA EnterStep ==
  ASSUME RInv, UNCHANGED registryVars, NEW a \in Actors, NEW goal \in Goals,
         NEW pc \in {"read", "probe", "commit"}, NEW runtime \in {NoRuntime, rt},
         Enter(a, goal, pc, runtime)
  PROVE  ActorsOK'
<1> DEFINE x == [pc |-> pc, goal |-> goal, ws |-> ws.rev, rt |-> runtime,
                bind |-> NoBinding, proc |-> Null, after |-> "idle"]
<1>1. ws.rev \in Nat /\ rt \in RuntimeRow /\ (rt.rev = 0 => rt.status = "none")
  BY DEF RInv, TypeOK, WorkstreamRow
<1>2. NoRuntime \in RuntimeRow /\ NoBinding \in BindingRow /\ pc \in Steps
  BY DEF NoRuntime, NoBinding, RuntimeRow, BindingRow, RuntimeStatus, Steps, Null
<1>3. x \in ActorState
  BY <1>1, <1>2 DEF ActorState, Steps, Null
<1>4. runtime.rev <= rt.rev /\ runtime.gen <= rt.gen
      /\ (rt.status # "none" /\ runtime.rev = rt.rev => runtime = rt)
  BY <1>1 DEF NoRuntime, RuntimeRow
<1>5. x.pc \notin Launching /\ x.pc # "record" /\ x.after \notin Launching
      /\ x.rt = runtime /\ x.proc = 0
  BY DEF Launching, Null
<1> HIDE DEF x
<1>6. Holds(x, rt)
  BY <1>1, <1>3, <1>4, <1>5 DEF Holds, RuntimeRow
<1>7. Holds(x, rt') /\ op' = [op EXCEPT ![a] = x]
  BY <1>6, QuietRowStep DEF Enter, x
<1> QED BY <1>7, ActorStep, QuietRowStep

\* An actor records what it reads or reserves: its new state is given.
LEMMA BecomesStep ==
  ASSUME RInv, RowStep, NEW a \in Actors, NEW x \in ActorState, op' = [op EXCEPT ![a] = x],
         x.rt = op[a].rt \/ x.rt = rt',
         x.proc = op[a].proc \/ (x.proc # Null /\ x.proc <= rt'.gen),
         x.after = op[a].after,
         x.pc \in Launching => /\ x.rt.gen \in Gens /\ x.rt.proc = Null
                               /\ x.rt.status = "starting" /\ x.pc # "record"
  PROVE  ActorsOK'
<1>1. rt \in RuntimeRow /\ rt' \in RuntimeRow /\ Holds(op[a], rt)
  BY RevisionStep DEF RInv, TypeOK, ActorsOK
<1>2. Holds(op[a], rt')
  BY <1>1, HoldsSucceeds DEF RowStep
<1>3. x.rt.rev <= rt'.rev /\ x.rt.gen <= rt'.gen
      /\ (rt'.status # "none" /\ x.rt.rev = rt'.rev => x.rt = rt')
  BY <1>1, <1>2 DEF Holds, RuntimeRow
<1>4. x.proc <= rt'.gen
  BY <1>2 DEF Holds
<1>5. "record" \in Launching
  BY DEF Launching
<1> QED BY <1>2, <1>3, <1>4, <1>5, ActorStep DEF Holds

-----------------------------------------------------------------------------
(* One lemma per group of actions.                                         *)

\* What every step of an actor preserves, and what it is for the registry.
ActorStepOK == /\ Transaction \/ UNCHANGED registryVars
               /\ ActorsOK' /\ PanesOK'
               /\ rt'.gen <= MaxGen
               /\ hook' \in {hook, NoHook}

\* A step that touches no pane keeps what holds of panes.
LEMMA PanesSame ==
  ASSUME RInv, UNCHANGED execVars, RowStep
  PROVE  PanesOK'
<1>1. rt.gen \in Nat /\ rt'.gen \in Nat /\ rt.gen <= rt'.gen
  BY RevisionStep DEF RInv, TypeOK, RuntimeRow, RowStep, Succeeds
<1>2. server \in Nat
  BY BoundsAssumption DEF RInv, PanesOK, Gens, Null
<1> QED BY <1>1, <1>2 DEF RInv, PanesOK, execVars

\* A step that changes nothing but its actor.
LEMMA QuietStep ==
  ASSUME RInv, UNCHANGED <<registryVars, execVars, hook>>, ActorsOK'
  PROVE  ActorStepOK
<1>1. UNCHANGED registryVars /\ UNCHANGED execVars /\ UNCHANGED hook
  OBVIOUS
<1>2. PanesOK' /\ UNCHANGED rt
  BY <1>1, QuietRowStep, PanesSame
<1> QED BY <1>1, <1>2 DEF ActorStepOK, RInv

\* Beginning an action keeps the invariant.
LEMMA BeginStep ==
  ASSUME RInv, NEW a \in Actors,
         \/ BeginStart(a) \/ BeginRecover(a) \/ BeginArchive(a) \/ BeginForget(a)
         \/ BeginAttach(a)
  PROVE  ActorStepOK
<1>1. UNCHANGED <<registryVars, execVars, hook>> /\ UNCHANGED registryVars
  BY DEF BeginStart, BeginRecover, BeginArchive, BeginForget, BeginAttach
<1>2. PICK goal \in Goals, pc \in {"read", "probe", "commit"}, runtime \in {NoRuntime, rt} :
        Enter(a, goal, pc, runtime)
  BY DEF BeginStart, BeginRecover, BeginArchive, BeginForget, BeginAttach, Goals
<1>3. ActorsOK'
  BY <1>1, <1>2, EnterStep
<1> QED BY <1>1, <1>3, QuietStep

\* Reading the row gives an actor the current one.
LEMMA ReadStep ==
  ASSUME RInv, NEW a \in Actors, ReadRuntime(a)
  PROVE  ActorStepOK
<1>1. UNCHANGED <<registryVars, execVars, hook>> /\ UNCHANGED registryVars
  BY DEF ReadRuntime
<1>2. op[a] \in ActorState /\ RowStep /\ UNCHANGED rt /\ rt \in RuntimeRow
  BY <1>1, QuietRowStep DEF RInv, ActorsOK, TypeOK
<1>3. CASE rt.status # "none"
  <2> DEFINE x == [op[a] EXCEPT !.pc = "probe", !.rt = rt]
  <2>1. x \in ActorState /\ x.pc = "probe" /\ x.rt = rt' /\ x.proc = op[a].proc
        /\ x.after = op[a].after
    BY <1>2 DEF ActorState, Steps
  <2>2. op' = [op EXCEPT ![a] = x]
    BY <1>3 DEF ReadRuntime
  <2>3. "probe" \notin Launching
    BY DEF Launching
  <2> HIDE DEF x
  <2>4. ActorsOK'
    BY <1>2, <2>1, <2>2, <2>3, BecomesStep
  <2> QED BY <1>1, <2>4, QuietStep
<1>4. CASE rt.status = "none" /\ op[a].goal = "start"
  <2>1. Goto(a, "reserve")
    BY <1>4 DEF ReadRuntime, Goto
  <2>2. "reserve" \in Steps /\ "reserve" \notin Launching /\ "reserve" # "record"
    BY DEF Steps, Launching
  <2>3. ActorsOK'
    BY <1>2, <2>1, <2>2, GotoStep
  <2> QED BY <1>1, <2>3, QuietStep
<1>5. CASE rt.status = "none" /\ op[a].goal # "start"
  <2>1. Goto(a, "idle")
    BY <1>5 DEF ReadRuntime, Goto
  <2>2. "idle" \in Steps /\ "idle" \notin Launching /\ "idle" # "record"
    BY DEF Steps, Launching
  <2>3. ActorsOK'
    BY <1>2, <2>1, <2>2, GotoStep
  <2> QED BY <1>1, <2>3, QuietStep
<1> QED BY <1>3, <1>4, <1>5

\* The steps that an actor may take next, other than those of a launch.
Settled == {"idle", "terminate", "kill", "mark_stopped", "mark_recovery", "mark_current",
            "reserve", "evidence", "recheck", "park_commit", "reread", "release",
            "stop_own", "remove_dir"}

\* After its verdict an actor is no longer launching.
LEMMA SettledSteps == Settled \subseteq Steps \ Launching /\ "record" \notin Settled
BY DEF Settled, Steps, Launching

\* A move to such a step keeps the invariant.
LEMMA SettleStep ==
  ASSUME RInv, RowStep, NEW a \in Actors, NEW pc \in Settled, NEW after \in Settled,
         Goto(a, pc) \/ GotoThen(a, pc, after)
  PROVE  ActorsOK'
BY SettledSteps, GotoStep, GotoThenStep

\* Every verdict is such a step.
LEMMA VerdictSettled ==
  ASSUME NEW goal, NEW record
  PROVE  Verdict(goal, record) \in Settled
BY DEF Verdict, StartVerdict, RecoverVerdict, AttachVerdict, ParkVerdict, Settled

\* Probing keeps the invariant.
LEMMA ProbeStep ==
  ASSUME RInv, NEW a \in Actors, Probe(a)
  PROVE  ActorStepOK
<1>1. UNCHANGED <<registryVars, execVars, hook>> /\ UNCHANGED registryVars
  BY DEF Probe
<1>2. PICK pc \in Settled : Goto(a, pc) \/ GotoThen(a, pc, "reserve")
  <2> DEFINE verdict == Verdict(op[a].goal, op[a].rt)
  <2>1. verdict \in Settled /\ "kill" \in Settled
    BY VerdictSettled DEF Settled
  <2>2. GotoThen(a, "kill", "reserve") \/ Goto(a, verdict)
    BY DEF Probe
  <2> QED BY <2>1, <2>2
<1>3. "reserve" \in Settled
  BY DEF Settled
<1>4. ActorsOK'
  BY <1>1, <1>2, <1>3, QuietRowStep, SettleStep
<1> QED BY <1>1, <1>4, QuietStep

\* Steps on the executable side: the rows stay, the server goes or stays.
LEMMA ExecutableStep ==
  ASSUME RInv, UNCHANGED registryVars, ActorsOK',
         dir' \in BOOLEAN, ready' \in BOOLEAN,
         server' = Null \/ (server' \in Gens /\ server' <= rt.gen),
         pane' \in [Gens -> PaneState], hook' \in {hook, NoHook}
  PROVE  ActorStepOK
<1>1. UNCHANGED rt /\ rt.gen \in Nat
  BY QuietRowStep DEF RInv, TypeOK, RuntimeRow
<1> QED BY <1>1 DEF ActorStepOK, PanesOK, RInv, Null

\* The types of the execution state.
LEMMA PanesTyped ==
  ASSUME RInv
  PROVE  /\ dir \in BOOLEAN /\ ready \in BOOLEAN /\ pane \in [Gens -> PaneState]
         /\ server = Null \/ (server \in Gens /\ server <= rt.gen)
         /\ \A g, state : state \in PaneState
              => [pane EXCEPT ![g] = state] \in [Gens -> PaneState]
         /\ \A state \in {"none", "barrier", "provider", "exited_clean", "dead"} :
              state \in PaneState
BY DEF RInv, PanesOK, PaneState

\* Stopping a process group keeps the types.
LEMMA TerminateGroupTyped ==
  ASSUME RInv, NEW g, TerminateGroup(g)
  PROVE  /\ pane' \in [Gens -> PaneState] /\ hook' \in {hook, NoHook}
         /\ UNCHANGED <<dir, server, ready>>
BY PanesTyped DEF TerminateGroup

\* Killing a server keeps the types.
LEMMA HangUpTyped ==
  ASSUME RInv, HangUp
  PROVE  pane' \in [Gens -> PaneState] /\ server' = Null
BY PanesTyped DEF HangUp

\* The steps that stop a provider keep the invariant.
LEMMA StopStep ==
  ASSUME RInv, NEW a \in Actors,
         \/ Terminate(a) \/ TerminateRefused(a) \/ KillServer(a) \/ RemoveDir(a) \/ StopOwn(a)
  PROVE  ActorStepOK
<1>1. UNCHANGED registryVars
  BY DEF Terminate, TerminateRefused, KillServer, RemoveDir, StopOwn
<1>2. RowStep
  BY <1>1, QuietRowStep
<1>3. op[a].after \in Steps \ Launching /\ "idle" \in Settled /\ "idle" \in Steps \ Launching
      /\ Settled \subseteq Steps \ Launching /\ "record" \notin Settled /\ "record" \in Launching
  BY SettledSteps DEF RInv, ActorsOK, Holds, ActorState, Settled, Steps, Launching
<1>4. CASE Terminate(a)
  <2>1. AfterStop(op[a].goal) \in Settled /\ "kill" \in Settled
    BY DEF AfterStop, Settled
  <2>2. ActorsOK'
    BY <1>2, <1>4, <2>1, SettleStep DEF Terminate
  <2> QED BY <1>1, <1>4, <2>2, TerminateGroupTyped, PanesTyped, ExecutableStep DEF Terminate
<1>5. CASE TerminateRefused(a)
  <2>1. PICK pc \in Settled : Goto(a, pc)
    BY <1>5 DEF TerminateRefused, Settled
  <2>2. ActorsOK'
    BY <1>2, <1>3, <2>1, SettleStep
  <2> QED BY <1>5, <2>2, QuietStep DEF TerminateRefused
<1>6. CASE KillServer(a)
  <2>1. "remove_dir" \in Settled /\ Goto(a, "remove_dir")
    BY <1>6 DEF KillServer, Settled
  <2>2. ActorsOK'
    BY <1>2, <1>3, <2>1, SettleStep
  <2> QED BY <1>1, <1>6, <2>2, HangUpTyped, PanesTyped, ExecutableStep DEF KillServer
<1>7. CASE RemoveDir(a)
  <2>1. ActorsOK'
    BY <1>2, <1>3, <1>7, GotoStep DEF RemoveDir
  <2> QED BY <1>1, <1>7, <2>1, PanesTyped, ExecutableStep DEF RemoveDir
<1>8. CASE StopOwn(a)
  <2>1. CASE Terminable(op[a].proc)
    <3>1. "kill" \in Settled /\ Goto(a, "kill")
      BY <1>8, <2>1 DEF StopOwn, Settled
    <3>2. ActorsOK'
      BY <1>2, <1>3, <3>1, SettleStep
    <3> QED BY <1>1, <1>8, <2>1, <3>2, TerminateGroupTyped, PanesTyped, ExecutableStep
            DEF StopOwn
  <2>2. CASE ~Terminable(op[a].proc)
    <3>1. ActorsOK'
      BY <1>2, <1>3, <1>8, <2>2, GotoStep DEF StopOwn
    <3> QED BY <1>8, <2>2, <3>1, QuietStep DEF StopOwn
  <2> QED BY <2>1, <2>2
<1> QED BY <1>4, <1>5, <1>6, <1>7, <1>8

\* A transaction of an actor that leaves the generation and the panes alone.
LEMMA OutcomeStep ==
  ASSUME RInv, Transaction \/ UNCHANGED registryVars, rt'.gen = rt.gen,
         UNCHANGED <<execVars, hook>>, ActorsOK'
  PROVE  ActorStepOK
<1>1. PanesOK'
  BY TransactionRowStep, PanesSame DEF RInv
<1> QED BY <1>1 DEF ActorStepOK, RInv

\* The steps that record an outcome keep the invariant.
LEMMA RecordOutcomeStep ==
  ASSUME RInv, NEW a \in Actors,
         \/ MarkStoppedStep(a) \/ MarkRecoveryStep(a) \/ MarkCurrentStep(a) \/ ParkCommit(a)
  PROVE  ActorStepOK
<1>1. UNCHANGED <<execVars, hook>>
  BY DEF MarkStoppedStep, MarkRecoveryStep, MarkCurrentStep, ParkCommit
<1>2. PICK pc \in Settled : Goto(a, pc)
  BY DEF MarkStoppedStep, MarkRecoveryStep, MarkCurrentStep, ParkCommit, Attempt, Done, Settled
<1>3. \/ MarkStopped(rt.rev) \/ MarkRecoveryRequired(rt.rev) \/ ParkRuntime(rt.rev)
      \/ UNCHANGED registryVars
  BY DEF MarkStoppedStep, MarkRecoveryStep, MarkCurrentStep, ParkCommit, Attempt, RuntimeAt,
         MarkStopped, MarkRecoveryRequired, ParkRuntime
<1>4. Transaction \/ UNCHANGED registryVars
  BY <1>3 DEF Transaction
<1>5. rt'.gen = rt.gen
  BY <1>3 DEF MarkStopped, MarkRecoveryRequired, ParkRuntime, RuntimeTo, registryVars
<1>6. RowStep
  BY <1>4, TransactionRowStep DEF RInv
<1>7. "idle" \in Settled
  BY DEF Settled
<1>8. ActorsOK'
  BY <1>2, <1>6, <1>7, SettleStep
<1> QED BY <1>1, <1>4, <1>5, <1>8, OutcomeStep

\* Restore, archive and forget keep the invariant.
LEMMA CatalogStep ==
  ASSUME RInv, NEW a \in Actors, Restore(a) \/ Commit(a)
  PROVE  ActorStepOK
<1>1. UNCHANGED <<execVars, hook>>
  BY DEF Restore, Commit
<1>2. \/ ArchiveWorkstream(ws.rev) \/ RestoreWorkstream(ws.rev) \/ ForgetWorkstream(ws.rev)
      \/ UNCHANGED registryVars
  BY DEF Restore, Commit, Attempt, WorkstreamAt, ArchiveWorkstream, ForgetWorkstream
<1>3. Transaction \/ UNCHANGED registryVars
  BY <1>2 DEF Transaction
<1>4. rt'.gen = rt.gen
  BY <1>2
     DEF ArchiveWorkstream, RestoreWorkstream, ForgetWorkstream, registryVars, RInv, TypeOK,
         RuntimeRow
<1>5. RowStep
  BY <1>3, TransactionRowStep DEF RInv
<1>6. ActorsOK'
  <2>1. CASE Restore(a)
    BY <1>5, <2>1, OthersStep DEF Restore
  <2>2. CASE Commit(a)
    <3>1. Goto(a, "idle") /\ "idle" \in Settled
      BY <2>2 DEF Commit, Attempt, Done, Settled
    <3> QED BY <1>5, <3>1, SettleStep
  <2> QED BY <2>1, <2>2
<1> QED BY <1>1, <1>3, <1>4, <1>6, OutcomeStep

\* Reading the Workstream revision again keeps the invariant.
LEMMA RereadStep ==
  ASSUME RInv, NEW a \in Actors, Reread(a)
  PROVE  ActorStepOK
<1>1. UNCHANGED <<registryVars, execVars, hook>> /\ UNCHANGED registryVars
  BY DEF Reread
<1>2. op[a] \in ActorState /\ RowStep /\ ws.rev \in Nat
  BY <1>1, QuietRowStep DEF RInv, ActorsOK, TypeOK, WorkstreamRow
<1>3. CASE ws.life = "gone"
  <2>1. Goto(a, "idle") /\ "idle" \in Settled
    BY <1>3 DEF Reread, Goto, Settled
  <2>2. ActorsOK'
    BY <1>2, <2>1, SettleStep
  <2> QED BY <1>1, <2>2, QuietStep
<1>4. CASE ws.life # "gone"
  <2> DEFINE x == [op[a] EXCEPT !.pc = "commit", !.ws = ws.rev]
  <2>1. x \in ActorState /\ x.pc = "commit" /\ x.rt = op[a].rt /\ x.proc = op[a].proc
        /\ x.after = op[a].after
    BY <1>2 DEF ActorState, Steps
  <2>2. op' = [op EXCEPT ![a] = x] /\ "commit" \notin Launching
    BY <1>4 DEF Reread, Launching
  <2> HIDE DEF x
  <2>3. ActorsOK'
    BY <1>2, <2>1, <2>2, BecomesStep
  <2> QED BY <1>1, <2>3, QuietStep
<1> QED BY <1>3, <1>4

\* A reservation hands the fresh row to its launcher.
LEMMA ReserveStep ==
  ASSUME RInv, NEW a \in Actors, Reserve(a)
  PROVE  ActorStepOK
<1>1. UNCHANGED <<execVars, hook>> /\ rt.gen < MaxGen
  BY DEF Reserve
<1>2. CASE Goto(a, "idle") /\ UNCHANGED registryVars
  <2>1. RowStep /\ UNCHANGED rt /\ "idle" \in Settled
    BY <1>2, QuietRowStep DEF Settled
  <2>2. ActorsOK'
    BY <1>2, <2>1, SettleStep
  <2> QED BY <1>1, <1>2, <2>2, QuietStep
<1>3. CASE /\ ReserveRuntime \/ ReserveRecovery
           /\ op' = [op EXCEPT ![a].pc = "create_dir", ![a].rt = rt']
  <2>1. Transaction /\ rt' = FreshRuntime
    BY <1>3 DEF Transaction, ReserveRuntime, ReserveRecovery
  <2>2. RowStep /\ rt' \in RuntimeRow
    BY <2>1, TransactionRowStep, RevisionStep DEF RInv
  <2>3. rt.gen \in Nat /\ MaxGen \in Nat
    BY BoundsAssumption DEF RInv, TypeOK, RuntimeRow
  <2>4. rt'.gen \in Gens /\ rt'.gen <= MaxGen /\ rt'.proc = Null /\ rt'.status = "starting"
    BY <1>1, <2>1, <2>3 DEF FreshRuntime, Gens
  <2> DEFINE x == [op[a] EXCEPT !.pc = "create_dir", !.rt = FreshRuntime]
  <2>5. op \in [Actors -> ActorState] /\ op[a] \in ActorState
    BY DEF RInv, ActorsOK
  <2>6. x \in ActorState /\ x.pc = "create_dir" /\ x.rt = rt' /\ x.proc = op[a].proc
        /\ x.after = op[a].after
    BY <2>1, <2>2, <2>5 DEF ActorState, Steps
  <2>7. op' = [op EXCEPT ![a] = x]
    BY <1>3, <2>1, <2>5
  <2> HIDE DEF x
  <2>8. ActorsOK'
    BY <2>2, <2>4, <2>6, <2>7, BecomesStep
  <2>9. PanesOK'
    BY <1>1, <2>2, PanesSame
  <2> QED BY <1>1, <2>1, <2>4, <2>8, <2>9 DEF ActorStepOK
<1>4. \/ Goto(a, "idle") /\ UNCHANGED registryVars
      \/ /\ ReserveRuntime \/ ReserveRecovery
         /\ op' = [op EXCEPT ![a].pc = "create_dir", ![a].rt = rt']
  BY DEF Reserve, Done
<1> QED BY <1>2, <1>3, <1>4

\* The steps of a launch up to the identity of its pane.
LEMMA LaunchStep ==
  ASSUME RInv, NEW a \in Actors,
         CreateDir(a) \/ NewSession(a) \/ ProbeOwn(a) \/ ProveGroup(a)
  PROVE  ActorStepOK
<1>1. UNCHANGED registryVars /\ UNCHANGED hook
  BY DEF CreateDir, NewSession, ProbeOwn, ProveGroup, execVars
<1>2. RowStep /\ UNCHANGED rt /\ op \in [Actors -> ActorState] /\ Holds(op[a], rt)
  BY <1>1, QuietRowStep DEF RInv, ActorsOK
<1>3. {"new_session", "record"} \subseteq Launching \cap Steps /\ {"kill", "mark_recovery"} \subseteq Settled
  BY DEF Launching, Steps, Settled
<1>4. op[a].pc \in Launching
      => op[a].rt.gen \in Gens /\ op[a].rt.proc = Null /\ op[a].rt.status = "starting"
  BY <1>2 DEF Holds
<1>5. FailUnidentified(a) => ActorsOK'
  BY <1>2, <1>3, SettleStep DEF FailUnidentified
<1>6. CASE CreateDir(a)
  <2>1. op[a].pc \in Launching
    BY <1>6 DEF CreateDir, At, Launching
  <2>2. FailUnidentified(a) \/ Goto(a, "new_session")
    BY <1>6 DEF CreateDir
  <2>3. ActorsOK'
    BY <1>2, <1>3, <1>5, <2>1, <2>2, GotoStep
  <2> QED BY <1>1, <1>6, <2>3, PanesTyped, ExecutableStep DEF CreateDir
<1>7. CASE NewSession(a)
  <2>1. op[a].pc \in Launching /\ "probe_own" \in Steps
    BY <1>7 DEF NewSession, At, Launching, Steps
  <2>2. CASE dir /\ Missing
    <3>1. Goto(a, "probe_own") /\ server' = op[a].rt.gen /\ UNCHANGED <<dir, ready>>
          /\ pane' = [pane EXCEPT ![op[a].rt.gen] = "barrier"]
      BY <1>7, <2>2 DEF NewSession
    <3>2. ActorsOK'
      BY <1>2, <2>1, <3>1, GotoStep
    <3>3. server' \in Gens /\ server' <= rt.gen
      BY <1>2, <1>4, <2>1, <3>1 DEF Holds
    <3> QED BY <1>1, <3>1, <3>2, <3>3, PanesTyped, ExecutableStep
  <2>3. CASE ~(dir /\ Missing)
    <3>1. FailUnidentified(a) /\ UNCHANGED <<server, pane, dir, ready>>
      BY <1>7, <2>3 DEF NewSession
    <3> QED BY <1>1, <1>5, <3>1, PanesTyped, ExecutableStep
  <2> QED BY <2>2, <2>3
<1>8. CASE ProbeOwn(a)
  <2>1. op[a].pc \in Launching
    BY <1>8 DEF ProbeOwn, At, Launching
  <2>2. UNCHANGED <<registryVars, execVars, hook>>
    BY <1>8 DEF ProbeOwn
  <2>3. CASE PaneAlive
    <3> DEFINE x == [op[a] EXCEPT !.pc = "prove_group", !.proc = server]
    <3>1. server # Null /\ server \in Gens /\ server <= rt.gen
      BY <2>3, PanesTyped DEF PaneAlive
    <3>2. op[a] \in ActorState
      BY <1>2
    <3>3. x \in ActorState /\ x.pc = "prove_group" /\ x.rt = op[a].rt /\ x.proc = server
          /\ x.after = op[a].after
      BY <3>1, <3>2 DEF ActorState, Steps
    <3>4. op' = [op EXCEPT ![a] = x]
      BY <1>2, <1>8, <2>3 DEF ProbeOwn
    <3> HIDE DEF x
    <3>5. ActorsOK'
      BY <1>2, <1>4, <2>1, <3>1, <3>3, <3>4, BecomesStep
    <3> QED BY <2>2, <3>5, QuietStep
  <2>4. CASE ~PaneAlive
    <3>1. FailUnidentified(a)
      BY <1>8, <2>4 DEF ProbeOwn
    <3> QED BY <1>5, <2>2, <3>1, QuietStep
  <2> QED BY <2>3, <2>4
<1>9. CASE ProveGroup(a)
  <2>1. op[a].pc \in Launching
    BY <1>9 DEF ProveGroup, At, Launching
  <2>2. FailUnidentified(a) \/ (Goto(a, "record") /\ op[a].proc # Null)
    BY <1>9 DEF ProveGroup, Alive
  <2>3. ActorsOK'
    BY <1>2, <1>3, <1>5, <2>1, <2>2, GotoStep
  <2> QED BY <1>9, <2>3, QuietStep DEF ProveGroup
<1> QED BY <1>6, <1>7, <1>8, <1>9

\* The identity is recorded only while the reserved row is current, and that
\* row has no process.
LEMMA RecordStep ==
  ASSUME RInv, NEW a \in Actors, Record(a)
  PROVE  ActorStepOK
<1>1. UNCHANGED <<execVars, hook>> /\ op[a].pc = "record"
  BY DEF Record, At
<1>2. Holds(op[a], rt) /\ {"release", "stop_own", "mark_recovery"} \subseteq Settled
  BY DEF RInv, ActorsOK, Settled
<1>3. CASE RuntimeAt(op[a].rt.rev) /\ rt.status = "starting"
  <2>1. RecordIdentity(op[a].rt.rev, op[a].proc) /\ Goto(a, "release")
    BY <1>3 DEF Record
  <2>2. op[a].rt.rev = rt.rev /\ op[a].rt = rt /\ rt.proc = Null
    BY <1>1, <1>2, <1>3 DEF Holds, RuntimeAt, Launching
  <2>3. op[a].proc \in 1 .. rt.gen
    BY <1>1, <1>2, BoundsAssumption DEF Holds, ActorState, Gens, Null, RInv, TypeOK, RuntimeRow
  <2>4. Transaction
    BY <2>1, <2>2, <2>3 DEF Transaction
  <2>5. RowStep
    BY <2>4, TransactionRowStep DEF RInv
  <2>6. ActorsOK'
    BY <1>2, <2>1, <2>5, SettleStep
  <2>7. rt'.gen = rt.gen
    BY <2>1 DEF RecordIdentity
  <2> QED BY <1>1, <2>4, <2>6, <2>7, OutcomeStep
<1>4. CASE ~(RuntimeAt(op[a].rt.rev) /\ rt.status = "starting")
  <2>1. GotoThen(a, "stop_own", "mark_recovery") /\ UNCHANGED registryVars
    BY <1>4 DEF Record
  <2>2. RowStep
    BY <2>1, QuietRowStep
  <2>3. ActorsOK'
    BY <1>2, <2>1, <2>2, SettleStep
  <2> QED BY <1>1, <2>1, <2>3, QuietStep
<1> QED BY <1>3, <1>4

\* Releasing the barrier keeps the invariant.
LEMMA ReleaseStep ==
  ASSUME RInv, NEW a \in Actors, Release(a)
  PROVE  ActorStepOK
<1>1. UNCHANGED registryVars /\ UNCHANGED <<dir, server, pane, hook>>
  BY DEF Release
<1>2. ready' \in BOOLEAN
  BY PanesTyped DEF Release
<1>3. Goto(a, "idle") \/ GotoThen(a, "stop_own", "mark_current")
  BY DEF Release, Done
<1>4. ActorsOK'
  BY <1>1, <1>3, QuietRowStep, SettleStep DEF Settled
<1> QED BY <1>1, <1>2, <1>4, PanesTyped, ExecutableStep

\* Recovery of a live provider and the proof of a clean exit.
LEMMA ProofStep ==
  ASSUME RInv, NEW a \in Actors, Evidence(a) \/ Reconcile(a) \/ Recheck(a)
  PROVE  ActorStepOK
<1>1. CASE Evidence(a)
  <2>1. UNCHANGED <<registryVars, execVars, hook>> /\ UNCHANGED registryVars
    BY <1>1 DEF Evidence
  <2>2. RowStep /\ UNCHANGED rt /\ op[a] \in ActorState /\ binding \in BindingRow
    BY <2>1, QuietRowStep DEF RInv, ActorsOK, TypeOK
  <2>3. CASE Goto(a, "idle")
    <3>1. ActorsOK'
      BY <2>2, <2>3, SettleStep DEF Settled
    <3> QED BY <2>1, <3>1, QuietStep
  <2>4. CASE op' = [op EXCEPT ![a].pc = "reconcile", ![a].bind = binding]
    <3> DEFINE x == [op[a] EXCEPT !.pc = "reconcile", !.bind = binding]
    <3>1. x \in ActorState /\ x.pc = "reconcile" /\ x.rt = op[a].rt /\ x.proc = op[a].proc
          /\ x.after = op[a].after
      BY <2>2 DEF ActorState, Steps
    <3>2. op' = [op EXCEPT ![a] = x] /\ "reconcile" \notin Launching
      BY <2>4 DEF Launching, RInv, ActorsOK
    <3> HIDE DEF x
    <3>3. ActorsOK'
      BY <2>2, <3>1, <3>2, BecomesStep
    <3> QED BY <2>1, <3>3, QuietStep
  <2> QED BY <1>1, <2>3, <2>4 DEF Evidence, Done
<1>2. CASE Reconcile(a)
  <2>1. Goto(a, "idle") /\ UNCHANGED <<execVars, hook>>
    BY <1>2 DEF Reconcile, Attempt, Done
  <2>2. ReconcileRecovery(ws.rev, rt.rev, binding) \/ UNCHANGED registryVars
    BY <1>2 DEF Reconcile, Attempt, RecoveryBindingAt, ReconcileRecovery
  <2>3. UNCHANGED rt /\ (Transaction \/ UNCHANGED registryVars)
    BY <2>2 DEF Transaction, ReconcileRecovery, registryVars
  <2>4. RowStep
    BY <2>3, TransactionRowStep DEF RInv
  <2>5. ActorsOK'
    BY <2>1, <2>4, SettleStep DEF Settled
  <2> QED BY <2>1, <2>3, <2>5, OutcomeStep
<1>3. CASE Recheck(a)
  <2>1. UNCHANGED <<registryVars, execVars, hook>> /\ UNCHANGED registryVars
    BY <1>3 DEF Recheck
  <2>2. Goto(a, "idle") \/ GotoThen(a, "kill", "park_commit")
    BY <1>3 DEF Recheck, Done
  <2>3. ActorsOK'
    BY <2>1, <2>2, QuietRowStep, SettleStep DEF Settled
  <2> QED BY <2>1, <2>3, QuietStep
<1> QED BY <1>1, <1>2, <1>3

\* Every step of an actor keeps the invariant.
LEMMA ActStep ==
  ASSUME RInv, NEW a \in Actors, Act(a)
  PROVE  ActorStepOK
BY BeginStep, ReadStep, ProbeStep, StopStep, RecordOutcomeStep, CatalogStep, RereadStep,
   ReserveStep, LaunchStep, RecordStep, ReleaseStep, ProofStep
   DEF Act

-----------------------------------------------------------------------------
(* The environment.                                                        *)

\* Hook evidence is collected only for a generation whose process the row
\* records.
LEMMA HookCheckHolds ==
  ASSUME RInv, NEW g \in Gens, HookCheck(g)
  PROVE  HookHolds(hook', rt)
<1>1. hook' = [gen |-> rt.gen, proc |-> g] /\ rt.proc = g
  BY DEF HookCheck
<1>2. rt.gen \in Gens \union {0} /\ rt.gen <= rt.gen
  BY BoundsAssumption DEF RInv, TypeOK, RuntimeRow, Gens
<1>3. g # Null
  BY DEF Gens, Null
<1> QED BY <1>1, <1>2, <1>3 DEF HookHolds

\* What every step of the environment preserves, and what it is for the rows.
EnvironmentStepOK == /\ Hook(rt.gen) \/ UNCHANGED registryVars
                     /\ ActorsOK' /\ PanesOK'
                     /\ rt'.gen <= MaxGen
                     /\ HookHolds(hook', rt')

\* A step outside the registry keeps the invariant if it keeps the types.
LEMMA ExecutionStep ==
  ASSUME RInv, UNCHANGED registryVars, UNCHANGED op, HookHolds(hook', rt),
         dir' \in BOOLEAN, ready' \in BOOLEAN, pane' \in [Gens -> PaneState],
         server' = server \/ server' = Null
  PROVE  EnvironmentStepOK
<1>1. RowStep /\ UNCHANGED rt
  BY QuietRowStep
<1>2. ActorsOK'
  BY <1>1, OthersStep
<1>3. Null \in Gens \union {Null} /\ Null <= rt.gen
  BY DEF RInv, TypeOK, RuntimeRow, Null
<1>4. PanesOK'
  BY <1>1, <1>3 DEF PanesOK, RInv
<1> QED BY <1>1, <1>2, <1>4 DEF EnvironmentStepOK, RInv

\* Panes change by themselves and keep the invariant.
LEMMA PaneStep ==
  ASSUME RInv, NEW g \in Gens,
         Exec(g) \/ BarrierTimeout(g) \/ ProviderExit(g) \/ HookCheck(g) \/ ServerLost
  PROVE  EnvironmentStepOK
<1>1. UNCHANGED registryVars /\ UNCHANGED op /\ UNCHANGED dir
  BY DEF Exec, BarrierTimeout, ProviderExit, HookCheck, ServerLost, execVars
<1>2. HookHolds(hook', rt)
  BY HookCheckHolds DEF RInv, Exec, BarrierTimeout, ProviderExit, ServerLost
<1>3. ready' \in BOOLEAN /\ (server' = server \/ server' = Null)
  BY PanesTyped DEF Exec, BarrierTimeout, ProviderExit, HookCheck, ServerLost, HangUp, execVars
<1>4. pane' \in [Gens -> PaneState]
  BY PanesTyped, HangUpTyped
     DEF Exec, BarrierTimeout, ProviderExit, HookCheck, ServerLost, execVars
<1>5. dir' \in BOOLEAN
  BY <1>1, PanesTyped
<1> QED BY <1>1, <1>2, <1>3, <1>4, <1>5, ExecutionStep

\* A hook keeps the invariant.
LEMMA HookStep ==
  ASSUME RInv, HookApply \/ HookDrop
  PROVE  EnvironmentStepOK
<1>1. UNCHANGED op /\ UNCHANGED execVars /\ hook' \in {hook, NoHook}
  BY DEF HookApply, HookDrop
<1>2. Hook(rt.gen) \/ UNCHANGED registryVars
  BY DEF HookApply, HookDrop, Hook, HookSessionStart, HookUserPromptSubmit,
         HookStop, HookSessionEnd, HookFence
<1>3. RowStep
  BY <1>2, TransactionRowStep DEF RInv
<1>4. ActorsOK' /\ PanesOK'
  BY <1>1, <1>3, OthersStep, PanesSame
<1>5. rt'.gen = rt.gen
  BY <1>2
     DEF registryVars, Hook, HookSessionStart, InsertInitialBinding, RotateBinding,
         ClearSession, CompleteSessionStart, HookUserPromptSubmit, HookStop, HookSessionEnd,
         RuntimeTo
<1>6. rt \in RuntimeRow /\ HookHolds(hook, rt) /\ HookHolds(NoHook, rt)
  BY DEF RInv, TypeOK, HookHolds, NoHook, Null
<1>7. HookHolds(hook', rt')
  BY <1>1, <1>3, <1>6, HookHoldsSucceeds DEF RowStep
<1> QED BY <1>2, <1>4, <1>5, <1>7 DEF EnvironmentStepOK, RInv

\* A crash or a restart keeps the invariant.
LEMMA CrashStep ==
  ASSUME RInv, NEW a \in Actors, Crash(a) \/ Restart(a)
  PROVE  EnvironmentStepOK
<1>1. UNCHANGED registryVars /\ UNCHANGED execVars /\ UNCHANGED hook
  BY DEF Crash, Restart
<1>2. RowStep /\ UNCHANGED rt
  BY <1>1, QuietRowStep
<1>3. Holds(Idle, rt')
  BY <1>2, IdleHolds, RevisionStep
<1>4. CASE Crash(a)
  <2>1. Idle.pc = "idle" /\ Idle.after = "idle" /\ "crashed" \in Steps
        /\ "crashed" \notin Launching /\ "idle" \in Steps \ Launching
    BY DEF Idle, Steps, Launching
  <2>2. Holds([Idle EXCEPT !.pc = "crashed"], rt')
    BY <1>3, <2>1, MoveHolds
  <2>3. ActorsOK'
    BY <1>2, <1>4, <2>2, ActorStep DEF Crash
  <2> QED BY <1>1, <1>2, <2>3, PanesSame DEF EnvironmentStepOK, RInv
<1>5. CASE Restart(a)
  <2>1. ActorsOK'
    BY <1>2, <1>5, SettleStep DEF Restart, Done, Settled
  <2> QED BY <1>1, <1>2, <2>1, PanesSame DEF EnvironmentStepOK, RInv
<1> QED BY <1>4, <1>5

\* Every step of the environment keeps the invariant.
LEMMA EnvironmentStep ==
  ASSUME RInv, Environment
  PROVE  EnvironmentStepOK
<1>1. 1 \in Gens
  BY BoundsAssumption DEF Gens
<1> QED BY <1>1, PaneStep, HookStep, CrashStep DEF Environment

-----------------------------------------------------------------------------
(* The specification.                                                      *)

\* Every step is a transaction of Registry or leaves the rows alone.
LEMMA RuntimeStep ==
  ASSUME RInv, [RuntimeNext]_vars
  PROVE  /\ Transaction \/ Hook(rt.gen) \/ UNCHANGED registryVars
         /\ ActorsOK' /\ PanesOK' /\ rt'.gen <= MaxGen /\ HookHolds(hook', rt')
<1>1. CASE \E a \in Actors : Act(a)
  <2>1. ActorStepOK
    BY <1>1, ActStep
  <2>2. RowStep
    BY <2>1, TransactionRowStep DEF ActorStepOK, RInv
  <2>3. rt \in RuntimeRow /\ HookHolds(hook, rt) /\ HookHolds(NoHook, rt)
    BY DEF RInv, TypeOK, HookHolds, NoHook, Null
  <2>4. HookHolds(hook', rt')
    BY <2>1, <2>2, <2>3, HookHoldsSucceeds DEF ActorStepOK, RowStep
  <2> QED BY <2>1, <2>4 DEF ActorStepOK
<1>2. CASE Environment
  BY <1>2, EnvironmentStep DEF EnvironmentStepOK
<1>3. CASE UNCHANGED vars
  BY <1>3
     DEF vars, execVars, registryVars, RInv, ActorsOK, PanesOK
<1> QED BY <1>1, <1>2, <1>3 DEF RuntimeNext

\* Every step is a step of Registry or a stutter.
LEMMA RuntimeStepIsRegistryStep ==
  ASSUME RInv, [RuntimeNext]_vars
  PROVE  [Next]_registryVars
BY RuntimeStep, TransactionIsNext

\* The invariant holds before the first launch.
LEMMA InitRInv == RuntimeInit => RInv /\ IInv
<1> SUFFICES ASSUME RuntimeInit PROVE RInv /\ IInv
  OBVIOUS
<1>1. IInv /\ TypeOK /\ rt = NoRuntime
  BY InitIInv DEF RuntimeInit, Init, IInv
<1>2. rt \in RuntimeRow /\ rt.gen = 0 /\ rt.rev = 0 /\ rt.status = "none"
  BY <1>1 DEF NoRuntime, TypeOK
<1>3. Holds(Idle, rt)
  BY <1>2, IdleHolds
<1>4. ActorsOK
  BY <1>3 DEF ActorsOK, Holds, RuntimeInit
<1>5. PanesOK
  <2>1. server \in Gens \union {Null} /\ server <= rt.gen
    BY <1>2 DEF RuntimeInit, Null
  <2>2. pane \in [Gens -> PaneState]
    BY DEF RuntimeInit, PaneState
  <2> QED BY <2>1, <2>2 DEF PanesOK, RuntimeInit
<1>6. HookHolds(hook, rt)
  BY DEF HookHolds, RuntimeInit, NoHook, Null
<1>7. rt.gen <= MaxGen
  BY <1>2, BoundsAssumption
<1> QED BY <1>1, <1>2, <1>4, <1>5, <1>6, <1>7 DEF RInv

\* Every step keeps the invariant.
LEMMA NextRInv ==
  ASSUME RInv, IInv, [RuntimeNext]_vars
  PROVE  RInv' /\ IInv'
<1>1. IInv'
  BY RuntimeStepIsRegistryStep, NextIInv
<1>2. RowStep
  BY RuntimeStep, TransactionRowStep DEF RInv
<1>3. rt'.rev = 0 => rt'.status = "none"
  BY <1>2, RevisionStep
<1> QED BY <1>1, <1>3, RuntimeStep DEF RInv, IInv

\* The inductive invariant of RuntimeControl, for any number of processes and
\* under all failures at once.
THEOREM RuntimeInvariant == RuntimeSpec => [](RInv /\ IInv)
<1>1. RInv /\ IInv /\ [RuntimeNext]_vars => (RInv /\ IInv)'
  BY NextRInv
<1> QED BY <1>1, InitRInv, PTL DEF RuntimeSpec

\* Type correctness: an action never stores what its variables cannot hold,
\* whatever the processes interleave.
THEOREM RuntimeTypeCorrect == RuntimeSpec => []RuntimeTypeOK
<1>1. RInv => RuntimeTypeOK
  BY DEF RInv, ActorsOK, PanesOK, HookHolds, RuntimeTypeOK
<1> QED BY <1>1, RuntimeInvariant, PTL

\* The row an action decided on is the current row while its revision is, so
\* the compare-and-set of the store is enough: no action writes an outcome
\* that it derived from other columns than the current ones.
THEOREM SnapshotIsCurrentHolds == RuntimeSpec => []SnapshotIsCurrent
<1>1. RInv => SnapshotIsCurrent
  BY DEF RInv, ActorsOK, Holds, SnapshotIsCurrent
<1> QED BY <1>1, RuntimeInvariant, PTL

\* No action reports activity: it only reserves, stops or gives up.
LEMMA ActionsReportNoActivity ==
  ASSUME Transaction
  PROVE  UNCHANGED rt \/ rt'.status \notin {"idle", "working", "attention"}
<1>1. CASE ReserveRuntime \/ ReserveRecovery
  BY <1>1 DEF ReserveRuntime, ReserveRecovery, FreshRuntime
<1>2. CASE rt.proc = Null /\ \E proc \in 1 .. rt.gen : RecordIdentity(rt.rev, proc)
  BY <1>2 DEF RecordIdentity
<1>3. CASE MarkStopped(rt.rev) \/ MarkRecoveryRequired(rt.rev) \/ ParkRuntime(rt.rev)
  BY <1>3 DEF MarkStopped, MarkRecoveryRequired, ParkRuntime, RuntimeTo
<1>4. CASE \/ ReconcileRecovery(ws.rev, rt.rev, binding) \/ ArchiveWorkstream(ws.rev)
           \/ RestoreWorkstream(ws.rev)
  BY <1>4 DEF ReconcileRecovery, ArchiveWorkstream, RestoreWorkstream
<1>5. CASE ForgetWorkstream(ws.rev)
  BY <1>5 DEF ForgetWorkstream, TypeOK, RuntimeRow
<1> QED BY <1>1, <1>2, <1>3, <1>4, <1>5 DEF Transaction

\* A late hook never attributes activity to another generation or process
\* than the one it corroborated, although its transaction carries no process.
THEOREM HookEvidenceHolds == RuntimeSpec => HookEvidence
<1>1. ASSUME RInv, [RuntimeNext]_vars
      PROVE  [ActivityIsObserved]_vars
  <2>1. CASE \E a \in Actors : Act(a)
    <3>1. Transaction \/ UNCHANGED registryVars
      BY <1>1, <2>1, ActStep DEF ActorStepOK
    <3> QED BY <3>1, ActionsReportNoActivity DEF ActivityIsObserved, registryVars
  <2>2. CASE HookApply
    <3>1. hook # NoHook /\ hook.gen = rt.gen /\ rt.status # "none"
      BY <2>2
         DEF HookApply, Hook, HookSessionStart, HookUserPromptSubmit, HookStop,
             HookSessionEnd, HookFence
    <3>2. rt'.gen = rt.gen /\ rt'.proc = rt.proc
      BY <2>2
         DEF HookApply, Hook, HookSessionStart, InsertInitialBinding, RotateBinding,
             ClearSession, CompleteSessionStart, HookUserPromptSubmit, HookStop,
             HookSessionEnd, RuntimeTo
    <3>3. rt.proc = hook.proc /\ hook.proc # Null
      BY <1>1, <3>1 DEF RInv, HookHolds
    <3> QED BY <3>1, <3>2, <3>3 DEF ActivityIsObserved
  <2>3. CASE Environment /\ ~HookApply
    BY <2>3
       DEF Environment, Exec, BarrierTimeout, ProviderExit, HookCheck, ServerLost, HookDrop,
           Crash, Restart, ActivityIsObserved, registryVars
  <2> QED BY <1>1, <2>1, <2>2, <2>3 DEF RuntimeNext
<1> QED BY <1>1, RuntimeInvariant, PTL DEF RuntimeSpec, HookEvidence

\* RuntimeControl implements Registry: its processes change the rows only by
\* transactions whose revision, generation and binding are the current ones.
THEOREM ImplementsRegistry == RuntimeSpec => Spec
<1>1. RuntimeInit => Init
  BY DEF RuntimeInit
<1>2. RInv /\ [RuntimeNext]_vars => [Next]_registryVars
  BY RuntimeStepIsRegistryStep
<1> QED BY <1>1, <1>2, RuntimeInvariant, PTL DEF RuntimeSpec, Spec

\* So what is proved of the rows holds of the processes, whatever they crash
\* in: recovery_required is left only with proof of the resumed session, and
\* a retained session is kept.
THEOREM RuntimeRecoveryNeedsProof == RuntimeSpec => RecoveryNeedsProof /\ SessionKept
BY ImplementsRegistry, RecoveryNeedsProofHolds, SessionKeptHolds, PTL

-----------------------------------------------------------------------------
(* A parked Workstream is stopped, for any number of processes, any bounds *)
(* and all failures at once: no hook that is late, however it overtakes    *)
(* the stop, the park or a crash of the process that parks, makes the row  *)
(* of a parked Workstream live again.                                      *)
(*                                                                         *)
(* What a park relies on is not in the row: that the recorded process has  *)
(* ended and no member of its group is left.  The proof carries this from  *)
(* the stop to the commit, over everything that other processes do.        *)

\* The steps of a launch before its pane exists.
Opening == {"create_dir", "new_session"}

Ended == {"exited_clean", "dead"}

\* Where an actor goes on after it stopped a server.
Continuations == {"idle", "reserve", "park_commit", "mark_recovery", "mark_current"}

\* A process that somebody recorded or probed was created.
Created(g, p) == g # Null => g \in Gens /\ p[g] # "none"

\* The process has ended and no member of its group holds evidence.
Gone(g, p, h) == g # Null => g \in Gens /\ p[g] \in Ended /\ ~(h # NoHook /\ h.proc = g)

Parks(o) == o.pc = "park_commit" \/ (o.pc \in {"kill", "remove_dir"} /\ o.after = "park_commit")

\* What the record of an actor says about panes and hooks.
Claims(o, p, h) ==
  /\ o.pc \in Opening => p[o.rt.gen] = "none"
  /\ Created(o.proc, p) /\ Created(o.rt.proc, p)
  /\ Parks(o) => Gone(o.rt.proc, p, h)
  /\ o.after \in Continuations
  /\ o.pc = "stop_own" => o.after # "park_commit"

PanesFresh == \A g \in Gens : rt.gen < g => pane[g] = "none"

\* Two launches never open the pane of one generation.
LaunchesApart ==
  \A a, b \in Actors :
    a # b /\ op[a].pc \in Opening /\ op[b].pc \in Opening => op[a].rt.gen # op[b].rt.gen

\* The row of a parked Workstream is stopped and no evidence fits it.
ParkedIsUnheard ==
  ws.life = "parked" => /\ rt.status \in {"none", "stopped"}
                        /\ hook # NoHook /\ rt.status # "none" => hook.gen # rt.gen

PInv == /\ PanesFresh /\ LaunchesApart
        /\ Created(rt.proc, pane) /\ Created(server, pane)
        /\ \A a \in Actors : Claims(op[a], pane, hook)
        /\ ParkedIsUnheard

-----------------------------------------------------------------------------
(* Panes and hooks only move on.                                           *)

\* A created pane stays created, an ended one ended, and fresh evidence comes
\* from a provider that runs.
Moves(p, h, q, k) ==
  /\ \A g \in Gens : (p[g] # "none" => q[g] # "none") /\ (p[g] \in Ended => q[g] \in Ended)
  /\ k \in {h, NoHook} \/ \E g \in Gens : p[g] = "provider" /\ k.proc = g

\* What was created stays created.
LEMMA CreatedKept ==
  ASSUME NEW p, NEW h, NEW q, NEW k, Moves(p, h, q, k), NEW g, Created(g, p)
  PROVE  Created(g, q)
BY DEF Created, Moves

\* What is gone stays gone: evidence is collected from running providers only.
LEMMA GoneKept ==
  ASSUME NEW p, NEW h, NEW q, NEW k, Moves(p, h, q, k), NEW g, Gone(g, p, h)
  PROVE  Gone(g, q, k)
<1> SUFFICES ASSUME g # Null PROVE g \in Gens /\ q[g] \in Ended /\ ~(k # NoHook /\ k.proc = g)
  BY DEF Gone
<1>1. g \in Gens /\ p[g] \in Ended /\ ~(h # NoHook /\ h.proc = g)
  BY DEF Gone
<1>2. q[g] \in Ended
  BY <1>1 DEF Moves
<1>3. CASE k \in {h, NoHook}
  BY <1>1, <1>2, <1>3
<1>4. CASE \E f \in Gens : p[f] = "provider" /\ k.proc = f
  BY <1>1, <1>2, <1>4 DEF Ended
<1> QED BY <1>3, <1>4 DEF Moves

\* An actor's claims outlive what others do, if nobody opens its pane.
LEMMA ClaimsKept ==
  ASSUME NEW p, NEW h, NEW q, NEW k, Moves(p, h, q, k), NEW o, Claims(o, p, h),
         o.pc \in Opening => q[o.rt.gen] = "none"
  PROVE  Claims(o, q, k)
BY CreatedKept, GoneKept DEF Claims

\* An idle actor claims nothing.
LEMMA IdleClaims ==
  ASSUME NEW p, NEW h
  PROVE  Claims(Idle, p, h) /\ Claims([Idle EXCEPT !.pc = "crashed"], p, h)
BY DEF Claims, Idle, Opening, Created, Parks, NoRuntime, Continuations, Null

\* The claims of an actor that moves on.
LEMMA GotoClaims ==
  ASSUME NEW p, NEW h, NEW o \in ActorState, Claims(o, p, h), NEW pc,
         pc \in Opening => o.pc \in Opening,
         pc = "park_commit" => Parks(o),
         pc \in {"kill", "remove_dir"} /\ o.after = "park_commit" => Parks(o),
         pc = "stop_own" => o.after # "park_commit"
  PROVE  Claims([o EXCEPT !.pc = pc], p, h)
<1> DEFINE x == [o EXCEPT !.pc = pc]
<1>1. x.pc = pc /\ x.rt = o.rt /\ x.proc = o.proc /\ x.after = o.after
  BY DEF ActorState
<1> HIDE DEF x
<1>2. Parks(x) => Parks(o)
  BY <1>1 DEF Parks
<1>3. Claims(x, p, h)
  BY <1>1, <1>2 DEF Claims
<1> QED BY <1>3 DEF x

\* The claims of an actor that begins to stop something.
LEMMA StopClaims ==
  ASSUME NEW p, NEW h, NEW o \in ActorState, Claims(o, p, h),
         NEW pc \in {"kill", "stop_own"}, NEW after \in Continuations,
         after = "park_commit" => pc = "kill" /\ Gone(o.rt.proc, p, h)
  PROVE  Claims([o EXCEPT !.pc = pc, !.after = after], p, h)
<1> DEFINE x == [o EXCEPT !.pc = pc, !.after = after]
<1>1. x.pc = pc /\ x.rt = o.rt /\ x.proc = o.proc /\ x.after = after
  BY DEF ActorState
<1> HIDE DEF x
<1>2. x.pc \notin Opening /\ (Parks(x) => Gone(x.rt.proc, p, h))
  BY <1>1 DEF Parks, Opening
<1>3. x.pc = "stop_own" => x.after # "park_commit"
  BY <1>1
<1>4. Claims(x, p, h)
  BY <1>1, <1>2, <1>3 DEF Claims
<1> QED BY <1>4 DEF x

-----------------------------------------------------------------------------
(* What a step does to panes and hooks.                                    *)

\* The types a step relies on.
LEMMA Typed ==
  ASSUME RInv
  PROVE  /\ rt \in RuntimeRow /\ op \in [Actors -> ActorState]
         /\ pane \in [Gens -> PaneState] /\ hook \in [gen : Gens \union {0}, proc : Gens \union {Null}]
         /\ \A g \in Gens : g \in Nat /\ g # Null
BY DEF RInv, TypeOK, ActorsOK, PanesOK, HookHolds, Gens, Null

Still == Moves(pane, hook, pane', hook') /\ \A g \in Gens : pane[g] = "none" => pane'[g] = "none"

\* A step that leaves panes and hooks alone.
LEMMA QuietMoves ==
  ASSUME pane' = pane, hook' \in {hook, NoHook}
  PROVE  Still
BY DEF Still, Moves

\* Stopping a group.
LEMMA TerminateMoves ==
  ASSUME RInv, NEW g, TerminateGroup(g)
  PROVE  Still
<1>1. pane' = pane \/ (Alive(g) /\ pane' = [pane EXCEPT ![g] = "dead"])
  BY DEF TerminateGroup
<1>2. hook' \in {hook, NoHook}
  BY DEF TerminateGroup
<1>3. CASE pane' = pane
  BY <1>2, <1>3, QuietMoves
<1>4. CASE Alive(g) /\ pane' = [pane EXCEPT ![g] = "dead"]
  BY <1>2, <1>4, Typed DEF Still, Moves, Alive, Ended
<1> QED BY <1>1, <1>3, <1>4

\* After it the group is gone, if it could be terminated at all.
LEMMA TerminateLeavesGone ==
  ASSUME RInv, NEW g, Created(g, pane), Terminable(g), TerminateGroup(g)
  PROVE  Gone(g, pane', hook')
<1> SUFFICES ASSUME g # Null PROVE g \in Gens /\ pane'[g] \in Ended /\ ~(hook' # NoHook /\ hook'.proc = g)
  BY DEF Gone
<1>1. g \in Gens /\ pane[g] # "none" /\ pane[g] \in PaneState
  BY Typed DEF Created
<1>2. CASE Alive(g)
  <2>1. pane' = [pane EXCEPT ![g] = "dead"]
    BY <1>2 DEF TerminateGroup
  <2>2. hook' = IF GroupOccupied(g) THEN NoHook ELSE hook
    BY <1>2 DEF TerminateGroup
  <2> QED BY <1>1, <2>1, <2>2, Typed DEF GroupOccupied, Ended
<1>3. CASE ~Alive(g)
  <2>1. pane' = pane /\ hook' = hook /\ ~GroupOccupied(g)
    BY <1>3 DEF TerminateGroup, Terminable
  <2>2. pane[g] \in Ended
    BY <1>1, <1>3 DEF Alive, PaneState, Ended
  <2> QED BY <1>1, <2>1, <2>2 DEF GroupOccupied
<1> QED BY <1>2, <1>3

\* Losing or killing the server.
LEMMA HangUpMoves ==
  ASSUME RInv, HangUp, UNCHANGED hook
  PROVE  Still
<1>1. pane' = pane \/ (PaneAlive /\ pane' = [pane EXCEPT ![server] = "dead"])
  BY DEF HangUp
<1>2. CASE pane' = pane
  BY <1>2, QuietMoves
<1>3. CASE PaneAlive /\ pane' = [pane EXCEPT ![server] = "dead"]
  BY <1>3, Typed DEF Still, Moves, PaneAlive, Alive, Ended
<1> QED BY <1>1, <1>2, <1>3

\* The environment opens no pane.
LEMMA EnvironmentMoves ==
  ASSUME RInv, Environment
  PROVE  Still
<1>1. ASSUME NEW g \in Gens, Exec(g) \/ BarrierTimeout(g) \/ ProviderExit(g) PROVE Still
  <2>1. PICK state \in {"provider", "exited_clean", "dead"} : pane' = [pane EXCEPT ![g] = state]
    BY <1>1 DEF Exec, BarrierTimeout, ProviderExit
  <2>2. pane[g] \in {"barrier", "provider"} /\ hook' = hook
    BY <1>1 DEF Exec, BarrierTimeout, ProviderExit
  <2> QED BY <2>1, <2>2, Typed DEF Still, Moves, Ended
<1>2. ASSUME NEW g \in Gens, HookCheck(g) PROVE Still
  <2>1. pane' = pane /\ hook' = [gen |-> rt.gen, proc |-> g] /\ pane[g] = "provider"
    BY <1>2 DEF HookCheck, execVars
  <2> QED BY <2>1 DEF Still, Moves
<1>3. CASE ServerLost
  BY <1>3, HangUpMoves DEF ServerLost
<1>4. CASE HookApply \/ HookDrop
  BY <1>4, QuietMoves DEF HookApply, HookDrop, execVars
<1>5. ASSUME NEW a \in Actors, Crash(a) \/ Restart(a) PROVE Still
  BY <1>5, QuietMoves DEF Crash, Restart, execVars
<1> QED BY <1>1, <1>2, <1>3, <1>4, <1>5 DEF Environment

-----------------------------------------------------------------------------
(* What a step does to the actor that takes it.                            *)

\* The step of actor a keeps its claims, opens at most the pane of a, and
\* lets a launch only a generation that nobody else launches.
StepOK(a) ==
  /\ \A b \in Actors \ {a} : op'[b] = op[b]
  /\ Claims(op'[a], pane', hook')
  /\ Moves(pane, hook, pane', hook')
  /\ \A g \in Gens : pane[g] = "none" =>
       pane'[g] = "none" \/ (op[a].pc = "new_session" /\ g = op[a].rt.gen /\ op'[a].pc \notin Opening)
  /\ op'[a].pc \in Opening =>
       \/ op[a].pc \in Opening /\ op'[a].rt.gen = op[a].rt.gen
       \/ op'[a].rt.gen = rt'.gen /\ rt'.gen > rt.gen
  /\ Created(server', pane')

\* A step that opens no pane and begins no launch.
LEMMA StillStep ==
  ASSUME RInv, PInv, Still, server' \in {server, Null}, NEW a \in Actors, NEW x,
         op' = [op EXCEPT ![a] = x], Claims(x, pane', hook'),
         x.pc \in Opening => op[a].pc \in Opening /\ x.rt.gen = op[a].rt.gen
  PROVE  StepOK(a)
<1>1. op'[a] = x /\ \A b \in Actors \ {a} : op'[b] = op[b]
  BY Typed
<1>2. Created(server', pane')
  BY CreatedKept DEF PInv, Still, Created
<1> QED BY <1>1, <1>2 DEF StepOK, Still

\* An actor that goes to another step.
LEMMA GotoStepOK ==
  ASSUME RInv, PInv, Still, server' \in {server, Null}, NEW a \in Actors, NEW pc,
         Goto(a, pc), pc \notin Opening,
         pc = "park_commit" => Parks(op[a]),
         pc \in {"kill", "remove_dir"} /\ op[a].after = "park_commit" => Parks(op[a]),
         pc = "stop_own" => op[a].after # "park_commit"
  PROVE  StepOK(a)
<1>1. op[a] \in ActorState /\ Claims(op[a], pane, hook)
  BY Typed DEF PInv
<1>2. CASE pc = "idle"
  <2>1. op' = [op EXCEPT ![a] = Idle]
    BY <1>2 DEF Goto
  <2>2. Idle.pc \notin Opening
    BY DEF Idle, Opening
  <2> QED BY <2>1, <2>2, IdleClaims, StillStep
<1>3. CASE pc # "idle"
  <2> DEFINE x == [op[a] EXCEPT !.pc = pc]
  <2>1. op' = [op EXCEPT ![a] = x]
    BY <1>3 DEF Goto
  <2>2. x.pc = pc
    BY <1>1 DEF ActorState
  <2>3. Claims(x, pane, hook)
    BY <1>1, GotoClaims
  <2> HIDE DEF x
  <2>4. Claims(x, pane', hook')
    BY <2>2, <2>3, ClaimsKept DEF Still
  <2> QED BY <2>1, <2>2, <2>4, StillStep
<1> QED BY <1>2, <1>3

\* An actor that begins to stop something.
LEMMA StopStepOK ==
  ASSUME RInv, PInv, Still, server' \in {server, Null}, NEW a \in Actors,
         NEW pc \in {"kill", "stop_own"}, NEW after \in Continuations, GotoThen(a, pc, after),
         after = "park_commit" => pc = "kill" /\ Gone(op[a].rt.proc, pane', hook')
  PROVE  StepOK(a)
<1> DEFINE x == [op[a] EXCEPT !.pc = pc, !.after = after]
<1>1. op[a] \in ActorState /\ Claims(op[a], pane, hook)
  BY Typed DEF PInv
<1>2. op' = [op EXCEPT ![a] = x]
  BY Typed DEF GotoThen
<1>3. x.pc \notin Opening
  BY <1>1 DEF ActorState, Opening
<1>4. CASE op[a].pc \notin Opening
  <2>1. Claims(op[a], pane', hook')
    BY <1>1, <1>4, ClaimsKept DEF Still
  <2>2. Claims(x, pane', hook')
    BY <1>1, <2>1, StopClaims
  <2> QED BY <1>2, <1>3, <2>2, StillStep
<1>5. CASE op[a].pc \in Opening
  <2>1. op[a].rt.gen \in Gens /\ pane[op[a].rt.gen] = "none"
    BY <1>1, <1>5 DEF Claims, RInv, ActorsOK, Holds, Launching, Opening
  <2>2. Claims(op[a], pane', hook')
    BY <1>1, <2>1, ClaimsKept DEF Still
  <2>3. Claims(x, pane', hook')
    BY <1>1, <2>2, StopClaims
  <2> QED BY <1>2, <1>3, <2>3, StillStep
<1> QED BY <1>4, <1>5

-----------------------------------------------------------------------------
(* One lemma per group of actions.                                         *)

\* Beginning, reading, probing, and the proofs that change nothing.
LEMMA ReadingStepOK ==
  ASSUME RInv, PInv, NEW a \in Actors,
         \/ BeginStart(a) \/ BeginRecover(a) \/ BeginArchive(a) \/ BeginForget(a)
         \/ BeginAttach(a) \/ Restore(a) \/ ReadRuntime(a) \/ Probe(a) \/ Reread(a)
         \/ Evidence(a) \/ Recheck(a)
  PROVE  StepOK(a)
<1>1. Still /\ server' \in {server, Null}
  BY QuietMoves
     DEF BeginStart, BeginRecover, BeginArchive, BeginForget, BeginAttach, Restore,
         ReadRuntime, Probe, Reread, Evidence, Recheck, execVars
<1>2. op[a] \in ActorState /\ Claims(op[a], pane, hook) /\ Created(rt.proc, pane)
  BY Typed DEF PInv
<1>3. hook' = hook /\ pane' = pane
  BY DEF BeginStart, BeginRecover, BeginArchive, BeginForget, BeginAttach, Restore,
         ReadRuntime, Probe, Reread, Evidence, Recheck, execVars
<1>4. CASE BeginStart(a) \/ BeginRecover(a) \/ BeginArchive(a) \/ BeginForget(a) \/ BeginAttach(a)
  <2>1. PICK goal \in Goals, pc \in {"read", "probe", "commit"}, runtime \in {NoRuntime, rt} :
          Enter(a, goal, pc, runtime)
    BY <1>4 DEF BeginStart, BeginRecover, BeginArchive, BeginForget, BeginAttach, Goals
  <2> DEFINE x == [pc |-> pc, goal |-> goal, ws |-> ws.rev, rt |-> runtime,
                  bind |-> NoBinding, proc |-> Null, after |-> "idle"]
  <2>2. op' = [op EXCEPT ![a] = x]
    BY <2>1 DEF Enter
  <2>3. x.pc \in {"read", "probe", "commit"} /\ x.rt \in {NoRuntime, rt} /\ x.proc = Null
        /\ x.after = "idle"
    OBVIOUS
  <2> HIDE DEF x
  <2>4. Created(x.rt.proc, pane) /\ Created(x.proc, pane) /\ x.pc \notin Opening
    BY <1>2, <2>3 DEF Created, NoRuntime, Opening
  <2>5. Claims(x, pane', hook')
    BY <1>3, <2>3, <2>4 DEF Claims, Parks, Continuations
  <2> QED BY <1>1, <2>2, <2>4, <2>5, StillStep
<1>5. CASE Restore(a)
  <2>1. op' = [op EXCEPT ![a] = op[a]]
    BY <1>5, Typed DEF Restore
  <2> QED BY <1>1, <1>2, <1>3, <2>1, StillStep
<1>6. CASE ReadRuntime(a)
  <2>1. CASE rt.status # "none"
    <3> DEFINE x == [op[a] EXCEPT !.pc = "probe", !.rt = rt]
    <3>1. op' = [op EXCEPT ![a] = x]
      BY <1>6, <2>1 DEF ReadRuntime
    <3>2. x.pc = "probe" /\ x.rt = rt /\ x.proc = op[a].proc /\ x.after = op[a].after
      BY <1>2 DEF ActorState
    <3> HIDE DEF x
    <3>3. Claims(x, pane', hook') /\ x.pc \notin Opening
      BY <1>2, <1>3, <3>2 DEF Claims, Parks, Opening
    <3> QED BY <1>1, <3>1, <3>3, StillStep
  <2>2. CASE rt.status = "none"
    <3>1. Goto(a, "reserve") \/ Goto(a, "idle")
      BY <1>6, <2>2 DEF ReadRuntime, Goto
    <3> QED BY <1>1, <3>1, GotoStepOK DEF Opening
  <2> QED BY <2>1, <2>2
<1>7. CASE Probe(a)
  <2> DEFINE verdict == Verdict(op[a].goal, op[a].rt)
  <2>1. verdict \in {"idle", "terminate", "kill", "mark_stopped", "mark_recovery", "evidence", "recheck"}
    BY DEF Verdict, StartVerdict, RecoverVerdict, AttachVerdict, ParkVerdict
  <2>2. IF verdict = "kill" THEN GotoThen(a, "kill", "reserve") ELSE Goto(a, verdict)
    BY <1>7 DEF Probe
  <2> HIDE DEF verdict
  <2>3. CASE verdict = "kill"
    BY <1>1, <2>2, <2>3, StopStepOK DEF Continuations
  <2>4. CASE verdict # "kill"
    BY <1>1, <2>1, <2>2, <2>4, GotoStepOK DEF Opening
  <2> QED BY <2>3, <2>4
<1>8. CASE Reread(a)
  <2>1. CASE ws.life = "gone"
    <3>1. op' = [op EXCEPT ![a] = Idle]
      BY <1>8, <2>1 DEF Reread
    <3> QED BY <1>1, <3>1, IdleClaims, StillStep DEF Idle, Opening
  <2>2. CASE ws.life # "gone"
    <3> DEFINE x == [op[a] EXCEPT !.pc = "commit", !.ws = ws.rev]
    <3>1. op' = [op EXCEPT ![a] = x]
      BY <1>8, <2>2 DEF Reread
    <3>2. x.pc = "commit" /\ x.rt = op[a].rt /\ x.proc = op[a].proc /\ x.after = op[a].after
      BY <1>2 DEF ActorState
    <3> HIDE DEF x
    <3>3. Claims(x, pane', hook') /\ x.pc \notin Opening
      BY <1>2, <1>3, <3>2 DEF Claims, Parks, Opening
    <3> QED BY <1>1, <3>1, <3>3, StillStep
  <2> QED BY <2>1, <2>2
<1>9. CASE Evidence(a)
  <2>1. CASE Goto(a, "idle")
    BY <1>1, <2>1, GotoStepOK DEF Opening
  <2>2. CASE op' = [op EXCEPT ![a].pc = "reconcile", ![a].bind = binding]
    <3> DEFINE x == [op[a] EXCEPT !.pc = "reconcile", !.bind = binding]
    <3>1. op' = [op EXCEPT ![a] = x]
      BY <2>2, Typed
    <3>2. x.pc = "reconcile" /\ x.rt = op[a].rt /\ x.proc = op[a].proc /\ x.after = op[a].after
      BY <1>2 DEF ActorState
    <3> HIDE DEF x
    <3>3. Claims(x, pane', hook') /\ x.pc \notin Opening
      BY <1>2, <1>3, <3>2 DEF Claims, Parks, Opening
    <3> QED BY <1>1, <3>1, <3>3, StillStep
  <2> QED BY <1>9, <2>1, <2>2 DEF Evidence, Done
<1>10. CASE Recheck(a)
  <2>1. CASE Goto(a, "idle")
    BY <1>1, <2>1, GotoStepOK DEF Opening
  <2>2. CASE /\ GotoThen(a, "kill", "park_commit")
             /\ CleanExit(op[a].rt) /\ ~GroupOccupied(op[a].rt.proc)
    <3>1. Gone(op[a].rt.proc, pane', hook')
      BY <1>2, <1>3, <2>2 DEF CleanExit, GroupOccupied, Gone, Ended, Claims, Created
    <3> QED BY <1>1, <2>2, <3>1, StopStepOK DEF Continuations
  <2> QED BY <1>10, <2>1, <2>2 DEF Recheck, Done
<1> QED BY <1>4, <1>5, <1>6, <1>7, <1>8, <1>9, <1>10

\* Stopping: what a park was promised is made true here.
LEMMA StoppingStepOK ==
  ASSUME RInv, PInv, NEW a \in Actors,
         \/ Terminate(a) \/ TerminateRefused(a) \/ KillServer(a) \/ RemoveDir(a) \/ StopOwn(a)
  PROVE  StepOK(a)
<1>1. op[a] \in ActorState /\ Claims(op[a], pane, hook)
  BY Typed DEF PInv
<1>2. CASE Terminate(a)
  <2>1. Still /\ server' = server
    BY <1>2, TerminateMoves DEF Terminate, TerminateGroup
  <2>2. Gone(op[a].rt.proc, pane', hook')
    BY <1>1, <1>2, TerminateLeavesGone DEF Terminate, Claims
  <2>3. AfterStop(op[a].goal) \in Continuations
    BY DEF AfterStop, Continuations
  <2> QED BY <1>2, <2>1, <2>2, <2>3, StopStepOK DEF Terminate
<1>3. CASE TerminateRefused(a)
  <2>1. Still /\ server' = server
    BY <1>3, QuietMoves DEF TerminateRefused, execVars
  <2>2. Goto(a, "idle") \/ Goto(a, "mark_recovery")
    BY <1>3 DEF TerminateRefused
  <2> QED BY <2>1, <2>2, GotoStepOK DEF Opening
<1>4. CASE KillServer(a)
  <2>1. Still /\ server' = Null
    BY <1>4, HangUpMoves DEF KillServer, HangUp
  <2>2. op[a].after = "park_commit" => Parks(op[a])
    BY <1>4 DEF KillServer, At, Parks
  <2> QED BY <1>4, <2>1, <2>2, GotoStepOK DEF KillServer, Opening
<1>5. CASE RemoveDir(a)
  <2>1. Still /\ server' = Null
    BY <1>5, QuietMoves DEF RemoveDir
  <2>2. op[a].after = "park_commit" => Parks(op[a])
    BY <1>5 DEF RemoveDir, At, Parks
  <2>3. op[a].after \in Continuations
    BY <1>1 DEF Claims
  <2>4. op[a].after \notin Opening \union {"kill", "remove_dir", "stop_own"}
    BY <2>3 DEF Continuations, Opening
  <2> QED BY <1>5, <2>1, <2>2, <2>4, GotoStepOK DEF RemoveDir
<1>6. CASE StopOwn(a)
  <2>1. op[a].after # "park_commit" /\ op[a].after \in Continuations
    BY <1>1, <1>6 DEF StopOwn, At, Claims
  <2>2. CASE Terminable(op[a].proc)
    <3>1. Still /\ server' = server /\ Goto(a, "kill")
      BY <1>6, <2>2, TerminateMoves DEF StopOwn, TerminateGroup
    <3> QED BY <2>1, <3>1, GotoStepOK DEF Opening
  <2>3. CASE ~Terminable(op[a].proc)
    <3>1. Still /\ server' = server /\ Goto(a, op[a].after)
      BY <1>6, <2>3, QuietMoves DEF StopOwn, execVars
    <3>2. op[a].after \notin Opening \union {"kill", "remove_dir", "stop_own"}
      BY <2>1 DEF Continuations, Opening
    <3> QED BY <2>1, <3>1, <3>2, GotoStepOK
  <2> QED BY <2>2, <2>3
<1> QED BY <1>2, <1>3, <1>4, <1>5, <1>6

\* Recording an outcome ends an action or leads to a reservation.
LEMMA OutcomeStepOK ==
  ASSUME RInv, PInv, NEW a \in Actors,
         \/ MarkStoppedStep(a) \/ MarkRecoveryStep(a) \/ MarkCurrentStep(a) \/ ParkCommit(a)
         \/ Commit(a) \/ Reconcile(a)
  PROVE  StepOK(a)
<1>1. Still /\ server' = server
  BY QuietMoves
     DEF MarkStoppedStep, MarkRecoveryStep, MarkCurrentStep, ParkCommit, Commit, Reconcile,
         execVars
<1>2. PICK pc \in {"idle", "reserve", "reread"} : Goto(a, pc)
  BY DEF MarkStoppedStep, MarkRecoveryStep, MarkCurrentStep, ParkCommit, Commit, Reconcile,
         Attempt, Done
<1> QED BY <1>1, <1>2, GotoStepOK DEF Opening

\* A reservation launches a generation whose pane nobody has opened.
LEMMA ReserveStepOK ==
  ASSUME RInv, PInv, NEW a \in Actors, Reserve(a)
  PROVE  StepOK(a)
<1>1. Still /\ server' = server /\ pane' = pane /\ hook' = hook
  BY QuietMoves DEF Reserve, execVars
<1>2. op[a] \in ActorState /\ Claims(op[a], pane, hook) /\ rt.gen \in Nat
  BY Typed DEF PInv, RuntimeRow
<1>3. CASE Goto(a, "idle")
  BY <1>1, <1>3, GotoStepOK DEF Opening
<1>4. CASE rt' = FreshRuntime /\ op' = [op EXCEPT ![a].pc = "create_dir", ![a].rt = rt']
  <2> DEFINE x == [op[a] EXCEPT !.pc = "create_dir", !.rt = rt']
  <2>1. op' = [op EXCEPT ![a] = x]
    BY <1>4, Typed
  <2>2. x.pc = "create_dir" /\ x.rt = rt' /\ x.proc = op[a].proc /\ x.after = op[a].after
    BY <1>2 DEF ActorState
  <2> HIDE DEF x
  <2>3. rt'.gen = rt.gen + 1 /\ rt'.proc = Null /\ rt.gen < MaxGen
    BY <1>4 DEF FreshRuntime, Reserve
  <2>4. rt'.gen \in Gens /\ rt.gen < rt'.gen
    BY <1>2, <2>3, BoundsAssumption DEF Gens
  <2>5. pane[rt'.gen] = "none"
    BY <2>4 DEF PInv, PanesFresh
  <2>6. Claims(x, pane', hook')
    BY <1>1, <1>2, <2>2, <2>3, <2>5 DEF Claims, Parks, Created
  <2>7. op'[a] = x /\ \A b \in Actors \ {a} : op'[b] = op[b]
    BY <2>1, Typed
  <2>8. Created(server', pane')
    BY <1>1 DEF PInv
  <2> QED BY <1>1, <2>2, <2>4, <2>6, <2>7, <2>8 DEF StepOK, Still
<1> QED BY <1>3, <1>4 DEF Reserve, Done, ReserveRuntime, ReserveRecovery

\* A launch opens the pane of its own generation only.
LEMMA NewSessionStepOK ==
  ASSUME RInv, PInv, NEW a \in Actors, NewSession(a)
  PROVE  StepOK(a)
<1>1. op[a] \in ActorState /\ Claims(op[a], pane, hook) /\ hook' = hook
  BY Typed DEF PInv, NewSession
<1>2. CASE dir /\ Missing
  <2> DEFINE g == op[a].rt.gen
             x == [op[a] EXCEPT !.pc = "probe_own"]
  <2>1. g \in Gens /\ pane[g] = "none" /\ op[a].pc = "new_session"
    BY <1>1 DEF NewSession, At, Claims, Opening, RInv, ActorsOK, Holds, Launching
  <2>2. pane' = [pane EXCEPT ![g] = "barrier"] /\ server' = g
    BY <1>2 DEF NewSession
  <2>3. op' = [op EXCEPT ![a] = x]
    BY <1>2 DEF NewSession, Goto
  <2>4. x.pc = "probe_own" /\ x.rt = op[a].rt /\ x.proc = op[a].proc /\ x.after = op[a].after
    BY <1>1 DEF ActorState
  <2>5. op'[a] = x /\ \A b \in Actors \ {a} : op'[b] = op[b]
    BY <2>3, Typed
  <2> HIDE DEF x
  <2>6. Moves(pane, hook, pane', hook')
    BY <1>1, <2>1, <2>2, Typed DEF Moves, Ended
  <2>7. Created(x.proc, pane') /\ Created(x.rt.proc, pane')
    BY <1>1, <2>4, <2>6, CreatedKept DEF Claims
  <2>8. Claims(x, pane', hook')
    BY <1>1, <2>4, <2>7 DEF Claims, Parks, Opening
  <2>9. Created(server', pane')
    BY <2>1, <2>2, Typed DEF Created
  <2>10. \A f \in Gens : pane[f] = "none" => pane'[f] = "none" \/ f = g
    BY <2>2, Typed
  <2>11. x.pc \notin Opening
    BY <2>4 DEF Opening
  <2> QED BY <2>1, <2>5, <2>6, <2>8, <2>9, <2>10, <2>11 DEF StepOK
<1>3. CASE ~(dir /\ Missing)
  <2>1. GotoThen(a, "kill", "mark_recovery") /\ pane' = pane /\ server' = server
    BY <1>3 DEF NewSession, FailUnidentified
  <2>2. Still
    BY <1>1, <2>1, QuietMoves
  <2> QED BY <2>1, <2>2, StopStepOK DEF Continuations
<1> QED BY <1>2, <1>3

\* The other steps of a launch.
LEMMA LaunchStepOK ==
  ASSUME RInv, PInv, NEW a \in Actors,
         CreateDir(a) \/ ProbeOwn(a) \/ ProveGroup(a) \/ Record(a) \/ Release(a)
  PROVE  StepOK(a)
<1>1. pane' = pane /\ hook' = hook /\ server' = server
  BY DEF CreateDir, ProbeOwn, ProveGroup, Record, Release, execVars
<1>2. Still
  BY <1>1, QuietMoves
<1>3. op[a] \in ActorState /\ Claims(op[a], pane, hook) /\ Created(server, pane)
  BY Typed DEF PInv
<1>4. CASE GotoThen(a, "kill", "mark_recovery")
  BY <1>1, <1>2, <1>4, StopStepOK DEF Continuations
<1>5. CASE GotoThen(a, "stop_own", "mark_recovery") \/ GotoThen(a, "stop_own", "mark_current")
  BY <1>1, <1>2, <1>5, StopStepOK DEF Continuations
<1>6. CASE Goto(a, "record") \/ Goto(a, "release") \/ Goto(a, "idle")
  BY <1>1, <1>2, <1>6, GotoStepOK DEF Opening
<1>7. CASE CreateDir(a) /\ Goto(a, "new_session")
  <2> DEFINE x == [op[a] EXCEPT !.pc = "new_session"]
  <2>1. op' = [op EXCEPT ![a] = x]
    BY <1>7 DEF Goto
  <2>2. x.pc = "new_session" /\ x.rt = op[a].rt /\ x.proc = op[a].proc /\ x.after = op[a].after
        /\ op[a].pc \in Opening
    BY <1>3, <1>7 DEF ActorState, CreateDir, At, Opening
  <2> HIDE DEF x
  <2>3. Claims(x, pane', hook')
    BY <1>1, <1>3, <2>2 DEF Claims, Parks
  <2> QED BY <1>1, <1>2, <2>1, <2>2, <2>3, StillStep
<1>8. CASE ProbeOwn(a) /\ PaneAlive /\ op' = [op EXCEPT ![a].pc = "prove_group", ![a].proc = server]
  <2> DEFINE x == [op[a] EXCEPT !.pc = "prove_group", !.proc = server]
  <2>1. op' = [op EXCEPT ![a] = x]
    BY <1>8, Typed
  <2>2. x.pc = "prove_group" /\ x.rt = op[a].rt /\ x.proc = server /\ x.after = op[a].after
    BY <1>3 DEF ActorState
  <2> HIDE DEF x
  <2>3. Claims(x, pane', hook') /\ x.pc \notin Opening
    BY <1>1, <1>3, <2>2 DEF Claims, Parks, Opening
  <2> QED BY <1>1, <1>2, <2>1, <2>3, StillStep
<1>9. \/ GotoThen(a, "kill", "mark_recovery")
      \/ GotoThen(a, "stop_own", "mark_recovery") \/ GotoThen(a, "stop_own", "mark_current")
      \/ Goto(a, "record") \/ Goto(a, "release") \/ Goto(a, "idle")
      \/ CreateDir(a) /\ Goto(a, "new_session")
      \/ ProbeOwn(a) /\ PaneAlive /\ op' = [op EXCEPT ![a].pc = "prove_group", ![a].proc = server]
  BY DEF CreateDir, ProbeOwn, ProveGroup, Record, Release, FailUnidentified, Done
<1> QED BY <1>4, <1>5, <1>6, <1>7, <1>8, <1>9

\* Every step of an actor.
LEMMA ActStepOK ==
  ASSUME RInv, PInv, NEW a \in Actors, Act(a)
  PROVE  StepOK(a)
BY ReadingStepOK, StoppingStepOK, OutcomeStepOK, ReserveStepOK, NewSessionStepOK, LaunchStepOK
   DEF Act

\* A crash and a restart forget everything.
LEMMA CrashStepOK ==
  ASSUME RInv, PInv, NEW a \in Actors, Crash(a) \/ Restart(a)
  PROVE  StepOK(a)
<1>1. Still /\ server' = server
  BY QuietMoves DEF Crash, Restart, execVars
<1>2. CASE Crash(a)
  <2> DEFINE x == [Idle EXCEPT !.pc = "crashed"]
  <2>1. op' = [op EXCEPT ![a] = x] /\ x.pc = "crashed"
    BY <1>2 DEF Crash, Idle
  <2>2. Claims(x, pane', hook')
    BY IdleClaims
  <2> HIDE DEF x
  <2> QED BY <1>1, <2>1, <2>2, StillStep DEF Opening
<1>3. CASE Restart(a)
  BY <1>1, <1>3, GotoStepOK DEF Restart, Done, Opening
<1> QED BY <1>2, <1>3

-----------------------------------------------------------------------------
(* What a step does to the rows.                                           *)

\* The transactions of the actions other than a park.
OtherTransaction ==
  \/ ReserveRuntime \/ ReserveRecovery
  \/ \E proc : RecordIdentity(rt.rev, proc)
  \/ MarkStopped(rt.rev) \/ MarkRecoveryRequired(rt.rev)
  \/ \E retained : ReconcileRecovery(ws.rev, rt.rev, retained)
  \/ ArchiveWorkstream(ws.rev) \/ RestoreWorkstream(ws.rev) \/ ForgetWorkstream(ws.rev)
  \/ UNCHANGED registryVars

\* Only the commit of a park parks.
LEMMA ParkIsAlone ==
  ASSUME NEW a \in Actors, Act(a)
  PROVE  OtherTransaction \/ ParkCommit(a)
<1>1. CASE \/ BeginStart(a) \/ BeginRecover(a) \/ BeginArchive(a) \/ BeginForget(a)
           \/ BeginAttach(a) \/ ReadRuntime(a) \/ Probe(a) \/ Terminate(a)
           \/ TerminateRefused(a) \/ KillServer(a) \/ RemoveDir(a) \/ Reread(a)
  BY <1>1 DEF OtherTransaction, BeginStart, BeginRecover, BeginArchive, BeginForget,
              BeginAttach, ReadRuntime, Probe, Terminate, TerminateRefused, KillServer,
              RemoveDir, Reread
<1>2. CASE \/ CreateDir(a) \/ NewSession(a) \/ ProbeOwn(a) \/ ProveGroup(a) \/ Release(a)
           \/ StopOwn(a) \/ Evidence(a) \/ Recheck(a)
  BY <1>2 DEF OtherTransaction, CreateDir, NewSession, ProbeOwn, ProveGroup, Release, StopOwn,
              Evidence, Recheck
<1>3. CASE MarkStoppedStep(a) \/ MarkRecoveryStep(a) \/ MarkCurrentStep(a)
  BY <1>3 DEF OtherTransaction, MarkStoppedStep, MarkRecoveryStep, MarkCurrentStep, Attempt,
              RuntimeAt
<1>4. CASE Commit(a) \/ Restore(a)
  BY <1>4 DEF OtherTransaction, Commit, Restore, Attempt, WorkstreamAt
<1>5. CASE Reserve(a)
  BY <1>5 DEF OtherTransaction, Reserve
<1>6. CASE Record(a)
  BY <1>6 DEF OtherTransaction, Record, RuntimeAt
<1>7. CASE Reconcile(a)
  BY <1>7 DEF OtherTransaction, Reconcile, Attempt, RecoveryBindingAt
<1> QED BY <1>1, <1>2, <1>3, <1>4, <1>5, <1>6, <1>7 DEF Act

\* They park no Workstream and bring no Runtime of a parked one to life.
LEMMA OtherStaysParked ==
  ASSUME RInv, ParkedIsUnheard, OtherTransaction, ws'.life = "parked"
  PROVE  ws.life = "parked" /\ rt'.gen = rt.gen /\ rt'.status \in {"none", "stopped"}
         /\ (rt'.status # "none" => rt.status # "none")
<1>1. rt \in RuntimeRow /\ ws \in WorkstreamRow
  BY DEF RInv, TypeOK
<1>2. ASSUME ReserveRuntime \/ \E retained : ReconcileRecovery(ws.rev, rt.rev, retained)
      PROVE  FALSE
  BY <1>2 DEF ReserveRuntime, ReconcileRecovery, WorkstreamTo
<1>3. ASSUME ReserveRecovery PROVE FALSE
  BY <1>3 DEF ReserveRecovery, RecoveryReservable, TouchWorkstream, WorkstreamTo
<1>4. ASSUME ForgetWorkstream(ws.rev) PROVE FALSE
  BY <1>4 DEF ForgetWorkstream, WorkstreamTo
<1>5. ASSUME NEW proc, RecordIdentity(rt.rev, proc) PROVE FALSE
  BY <1>5 DEF RecordIdentity, ParkedIsUnheard
<1>6. CASE MarkStopped(rt.rev)
  BY <1>6 DEF MarkStopped, RuntimeAt, RuntimeTo
<1>7. ASSUME MarkRecoveryRequired(rt.rev) PROVE FALSE
  BY <1>7 DEF MarkRecoveryRequired, WorkstreamTo
<1>8. CASE ArchiveWorkstream(ws.rev) \/ RestoreWorkstream(ws.rev)
  BY <1>8 DEF ArchiveWorkstream, RestoreWorkstream, ParkedIsUnheard
<1>9. CASE UNCHANGED registryVars
  BY <1>9 DEF registryVars, ParkedIsUnheard
<1> QED BY <1>2, <1>3, <1>4, <1>5, <1>6, <1>7, <1>8, <1>9 DEF OtherTransaction

\* A park commits only when the recorded process and its group are gone, so
\* no evidence of the current generation is left.
LEMMA ParkIsFinal ==
  ASSUME RInv, PInv, NEW a \in Actors, ParkCommit(a)
  PROVE  ParkedIsUnheard'
<1>1. hook' = hook
  BY DEF ParkCommit
<1>2. CASE RuntimeAt(op[a].rt.rev)
  <2>1. ParkRuntime(op[a].rt.rev)
    BY <1>2 DEF ParkCommit, Attempt
  <2>2. rt'.status = "stopped" /\ rt'.gen = rt.gen
    BY <2>1 DEF ParkRuntime, RuntimeTo
  <2>3. op[a].rt = rt /\ rt.status # "none"
    BY <1>2 DEF RuntimeAt, RInv, ActorsOK, Holds
  <2>4. Gone(rt.proc, pane, hook)
    BY <2>3 DEF PInv, Claims, Parks, ParkCommit, At
  <2>5. ASSUME hook # NoHook, hook.gen = rt.gen PROVE FALSE
    BY <2>3, <2>4, <2>5 DEF RInv, HookHolds, Gone
  <2> QED BY <1>1, <2>2, <2>5 DEF ParkedIsUnheard
<1>3. CASE ~RuntimeAt(op[a].rt.rev)
  <2>1. UNCHANGED registryVars
    BY <1>3 DEF ParkCommit, Attempt
  <2> QED BY <1>1, <2>1 DEF PInv, ParkedIsUnheard, registryVars
<1> QED BY <1>2, <1>3

\* Of a parked Workstream nothing is heard.
LEMMA ParkedStep ==
  ASSUME RInv, PInv, RuntimeNext
  PROVE  ParkedIsUnheard'
<1>1. ASSUME hook' \in {hook, NoHook}, OtherTransaction PROVE ParkedIsUnheard'
  <2> SUFFICES ASSUME ws'.life = "parked"
               PROVE  /\ rt'.status \in {"none", "stopped"}
                      /\ hook' # NoHook /\ rt'.status # "none" => hook'.gen # rt'.gen
    BY DEF ParkedIsUnheard
  <2>1. ws.life = "parked" /\ rt'.gen = rt.gen /\ rt'.status \in {"none", "stopped"}
        /\ (rt'.status # "none" => rt.status # "none")
    BY <1>1, OtherStaysParked DEF PInv
  <2> QED BY <1>1, <2>1 DEF PInv, ParkedIsUnheard
<1>2. ASSUME NEW a \in Actors, Act(a) PROVE ParkedIsUnheard'
  <2>1. hook' \in {hook, NoHook}
    BY <1>2, ActStep DEF ActorStepOK
  <2> QED BY <1>1, <1>2, <2>1, ParkIsAlone, ParkIsFinal
<1>3. CASE HookApply
  <2>1. ws'.life \in {ws.life, "open"} /\ rt.status # "none" /\ hook # NoHook /\ hook.gen = rt.gen
    BY <1>3
       DEF HookApply, Hook, HookSessionStart, InsertInitialBinding, RotateBinding, ClearSession,
           CompleteSessionStart, HookUserPromptSubmit, HookStop, HookSessionEnd, HookFence,
           TouchWorkstream, WorkstreamTo
  <2> QED BY <2>1 DEF PInv, ParkedIsUnheard
<1>4. ASSUME NEW g \in Gens, HookCheck(g) PROVE ParkedIsUnheard'
  <2>1. rt.status \in LiveStatus /\ UNCHANGED registryVars
    BY <1>4 DEF HookCheck
  <2> QED BY <2>1 DEF PInv, ParkedIsUnheard, registryVars, LiveStatus
<1>5. CASE Environment /\ ~HookApply /\ ~(\E g \in Gens : HookCheck(g))
  <2>1. hook' \in {hook, NoHook} /\ UNCHANGED registryVars
    BY <1>5 DEF Environment, Exec, BarrierTimeout, ProviderExit, ServerLost, HookDrop, Crash,
                Restart
  <2> QED BY <1>1, <2>1 DEF OtherTransaction
<1> QED BY <1>2, <1>3, <1>4, <1>5 DEF RuntimeNext

\* A process is recorded by the launcher that probed it.
LEMMA RecordedStep ==
  ASSUME RInv, PInv, RuntimeNext, Moves(pane, hook, pane', hook')
  PROVE  Created(rt'.proc, pane')
<1>1. ASSUME rt'.proc \in {rt.proc, Null} PROVE Created(rt'.proc, pane')
  BY <1>1, CreatedKept DEF PInv, Created
<1>2. ASSUME NEW a \in Actors, Record(a) PROVE Created(rt'.proc, pane')
  <2>1. rt'.proc \in {rt.proc, op[a].proc}
    BY <1>2 DEF Record, RecordIdentity, registryVars
  <2>2. Created(op[a].proc, pane)
    BY DEF PInv, Claims
  <2> QED BY <1>1, <2>1, <2>2, CreatedKept
<1>3. ASSUME NEW a \in Actors, Act(a), ~Record(a) PROVE rt'.proc \in {rt.proc, Null}
  <2>1. CASE ParkCommit(a)
    BY <2>1 DEF ParkCommit, Attempt, ParkRuntime, RuntimeTo, registryVars
  <2>2. CASE Reserve(a)
    BY <2>2 DEF Reserve, ReserveRuntime, ReserveRecovery, FreshRuntime, registryVars
  <2>3. CASE MarkStoppedStep(a) \/ MarkRecoveryStep(a) \/ MarkCurrentStep(a)
    BY <2>3 DEF MarkStoppedStep, MarkRecoveryStep, MarkCurrentStep, Attempt, MarkStopped,
                MarkRecoveryRequired, RuntimeTo, registryVars
  <2>4. CASE Commit(a) \/ Restore(a) \/ Reconcile(a)
    BY <2>4, Typed DEF Commit, Restore, Reconcile, Attempt, ArchiveWorkstream, RestoreWorkstream,
                ForgetWorkstream, ReconcileRecovery, registryVars, RuntimeRow
  <2>5. CASE \/ BeginStart(a) \/ BeginRecover(a) \/ BeginArchive(a) \/ BeginForget(a)
             \/ BeginAttach(a) \/ ReadRuntime(a) \/ Probe(a) \/ Terminate(a)
             \/ TerminateRefused(a) \/ KillServer(a) \/ RemoveDir(a) \/ Reread(a)
    BY <2>5 DEF BeginStart, BeginRecover, BeginArchive, BeginForget, BeginAttach, ReadRuntime,
                Probe, Terminate, TerminateRefused, KillServer, RemoveDir, Reread, registryVars
  <2>6. CASE \/ CreateDir(a) \/ NewSession(a) \/ ProbeOwn(a) \/ ProveGroup(a) \/ Release(a)
             \/ StopOwn(a) \/ Evidence(a) \/ Recheck(a)
    BY <2>6 DEF CreateDir, NewSession, ProbeOwn, ProveGroup, Release, StopOwn, Evidence, Recheck,
                registryVars
  <2> QED BY <1>3, <2>1, <2>2, <2>3, <2>4, <2>5, <2>6 DEF Act
<1>4. CASE Environment
  <2>1. rt'.proc = rt.proc
    BY <1>4
       DEF Environment, Exec, BarrierTimeout, ProviderExit, HookCheck, ServerLost, HookDrop,
           Crash, Restart, HookApply, Hook, HookSessionStart, InsertInitialBinding, RotateBinding,
           ClearSession, CompleteSessionStart, HookUserPromptSubmit, HookStop, HookSessionEnd,
           RuntimeTo, registryVars
  <2> QED BY <1>1, <2>1
<1> QED BY <1>1, <1>2, <1>3, <1>4 DEF RuntimeNext

-----------------------------------------------------------------------------
(* The invariant.                                                          *)

\* What an actor's step leaves to the panes and to the other actors.
LEMMA OthersKeep ==
  ASSUME RInv, PInv, RuntimeNext, NEW a \in Actors, StepOK(a)
  PROVE  /\ PanesFresh' /\ LaunchesApart' /\ Created(server, pane)'
         /\ \A b \in Actors : Claims(op'[b], pane', hook')
<1>1. rt.gen \in Nat /\ rt'.gen \in Nat /\ rt.gen <= rt'.gen
  BY RuntimeStep, TransactionRowStep, RevisionStep, Typed DEF RInv, RowStep, Succeeds, RuntimeRow
<1>2. ASSUME NEW b \in Actors, op[b].pc \in Opening
      PROVE  op[b].rt.gen \in Gens /\ op[b].rt.gen <= rt.gen /\ pane[op[b].rt.gen] = "none"
  BY <1>2 DEF RInv, ActorsOK, Holds, Launching, Opening, PInv, Claims
<1>3. PanesFresh'
  <2> SUFFICES ASSUME NEW g \in Gens, rt'.gen < g PROVE pane'[g] = "none"
    BY DEF PanesFresh
  <2>1. g \in Nat /\ rt.gen < g /\ pane[g] = "none"
    BY <1>1, Typed DEF PInv, PanesFresh
  <2>2. ~(op[a].pc = "new_session" /\ g = op[a].rt.gen)
    BY <1>1, <1>2, <2>1 DEF Opening
  <2> QED BY <2>1, <2>2 DEF StepOK
<1>4. ASSUME NEW b \in Actors, b # a, op[b].pc \in Opening PROVE pane'[op[b].rt.gen] = "none"
  <2>1. ~(op[a].pc = "new_session" /\ op[b].rt.gen = op[a].rt.gen)
    BY <1>4 DEF PInv, LaunchesApart, Opening
  <2> QED BY <1>2, <1>4, <2>1 DEF StepOK
<1>5. ASSUME NEW b \in Actors PROVE Claims(op'[b], pane', hook')
  <2>1. CASE b = a
    BY <2>1 DEF StepOK
  <2>2. CASE b # a
    <3>1. op'[b] = op[b] /\ Claims(op[b], pane, hook) /\ Moves(pane, hook, pane', hook')
      BY <2>2 DEF StepOK, PInv
    <3> QED BY <1>4, <2>2, <3>1, ClaimsKept
  <2> QED BY <2>1, <2>2
<1>6. LaunchesApart'
  <2>1. ASSUME NEW b \in Actors, b # a, op'[a].pc \in Opening, op'[b].pc \in Opening
        PROVE  op'[a].rt.gen # op'[b].rt.gen
    <3>1. op'[b] = op[b] /\ op[b].rt.gen <= rt.gen /\ op[b].rt.gen \in Nat
      BY <1>2, <2>1, Typed DEF StepOK
    <3>2. CASE op[a].pc \in Opening /\ op'[a].rt.gen = op[a].rt.gen
      BY <2>1, <3>1, <3>2 DEF PInv, LaunchesApart
    <3>3. CASE op'[a].rt.gen = rt'.gen /\ rt'.gen > rt.gen
      BY <1>1, <3>1, <3>3
    <3> QED BY <2>1, <3>2, <3>3 DEF StepOK
  <2>2. ASSUME NEW b \in Actors, NEW c \in Actors, b # c, b # a, c # a,
               op'[b].pc \in Opening, op'[c].pc \in Opening
        PROVE  op'[b].rt.gen # op'[c].rt.gen
    BY <2>2 DEF StepOK, PInv, LaunchesApart
  <2> QED BY <2>1, <2>2 DEF LaunchesApart
<1> QED BY <1>3, <1>5, <1>6 DEF StepOK

\* The environment leaves every actor its claims.
LEMMA EnvironmentKeeps ==
  ASSUME RInv, PInv, Environment, UNCHANGED op
  PROVE  /\ PanesFresh' /\ LaunchesApart' /\ Created(server, pane)'
         /\ \A b \in Actors : Claims(op'[b], pane', hook')
<1>1. Still
  BY EnvironmentMoves
<1>2. rt.gen = rt'.gen
  BY DEF Environment, Exec, BarrierTimeout, ProviderExit, HookCheck, ServerLost, HookDrop,
         Crash, Restart, HookApply, Hook, HookSessionStart, InsertInitialBinding, RotateBinding,
         ClearSession, CompleteSessionStart, HookUserPromptSubmit, HookStop, HookSessionEnd,
         RuntimeTo, registryVars
<1>3. PanesFresh' /\ LaunchesApart'
  BY <1>1, <1>2 DEF Still, PInv, PanesFresh, LaunchesApart
<1>4. server' \in {server, Null}
  BY DEF Environment, Exec, BarrierTimeout, ProviderExit, HookCheck, ServerLost, HangUp, HookDrop,
         Crash, Restart, HookApply, execVars
<1>5. Created(server', pane')
  BY <1>1, <1>4, CreatedKept DEF PInv, Still, Created
<1>6. ASSUME NEW b \in Actors PROVE Claims(op'[b], pane', hook')
  <2>1. op'[b] = op[b] /\ Claims(op[b], pane, hook)
    BY DEF PInv
  <2>2. op[b].pc \in Opening => pane'[op[b].rt.gen] = "none"
    BY <1>1, <2>1 DEF Still, Claims, RInv, ActorsOK, Holds, Launching, Opening
  <2> QED BY <1>1, <2>1, <2>2, ClaimsKept DEF Still
<1> QED BY <1>3, <1>5, <1>6

\* The invariant holds before the first launch.
LEMMA InitPInv == RuntimeInit => PInv
<1> SUFFICES ASSUME RuntimeInit PROVE PInv
  OBVIOUS
<1>1. rt = NoRuntime /\ ws.life # "parked" /\ server = Null /\ pane = [g \in Gens |-> "none"]
      /\ op = [a \in Actors |-> Idle]
  BY DEF RuntimeInit, Init
<1>2. LaunchesApart
  BY <1>1 DEF LaunchesApart, Idle, Opening
<1>3. \A a \in Actors : Claims(op[a], pane, hook)
  BY <1>1, IdleClaims
<1> QED BY <1>1, <1>2, <1>3 DEF PInv, PanesFresh, Created, NoRuntime, ParkedIsUnheard, Null

\* Every step keeps the invariant.
LEMMA NextPInv ==
  ASSUME RInv, PInv, [RuntimeNext]_vars
  PROVE  PInv'
<1>1. ASSUME RuntimeNext,
             /\ PanesFresh' /\ LaunchesApart' /\ Created(server, pane)'
             /\ \A b \in Actors : Claims(op'[b], pane', hook'),
             Moves(pane, hook, pane', hook')
      PROVE  PInv'
  <2>1. ParkedIsUnheard' /\ Created(rt'.proc, pane')
    BY <1>1, ParkedStep, RecordedStep
  <2> QED BY <1>1, <2>1 DEF PInv
<1>2. ASSUME NEW a \in Actors, Act(a) PROVE PInv'
  <2>1. StepOK(a) /\ RuntimeNext
    BY <1>2, ActStepOK DEF RuntimeNext
  <2> QED BY <1>1, <2>1, OthersKeep DEF StepOK
<1>3. ASSUME NEW a \in Actors, Crash(a) \/ Restart(a) PROVE PInv'
  <2>1. StepOK(a) /\ RuntimeNext
    BY <1>3, CrashStepOK DEF RuntimeNext, Environment
  <2> QED BY <1>1, <2>1, OthersKeep DEF StepOK
<1>4. ASSUME Environment, UNCHANGED op PROVE PInv'
  BY <1>1, <1>4, EnvironmentKeeps, EnvironmentMoves DEF Still, RuntimeNext
<1>5. CASE Environment
  <2>1. UNCHANGED op \/ \E a \in Actors : Crash(a) \/ Restart(a)
    BY <1>5 DEF Environment, Exec, BarrierTimeout, ProviderExit, HookCheck, ServerLost, HookDrop,
                HookApply
  <2> QED BY <1>3, <1>4, <1>5, <2>1
<1>6. CASE UNCHANGED vars
  BY <1>6
     DEF vars, execVars, registryVars, PInv, PanesFresh, LaunchesApart, ParkedIsUnheard
<1> QED BY <1>2, <1>5, <1>6 DEF RuntimeNext

\* The inductive invariant of parking.
THEOREM ParkingInvariant == RuntimeSpec => []PInv
<1>1. RInv /\ PInv /\ [RuntimeNext]_vars => PInv'
  BY NextPInv
<1> QED BY <1>1, InitPInv, RuntimeInvariant, PTL DEF RuntimeSpec

\* A parked Workstream has a stopped Runtime or none: no late hook, no other
\* action and no crash between the stop and the commit brings its row to life.
THEOREM ParkedIsStoppedHolds == RuntimeSpec => []ParkedIsStopped
<1>1. PInv => ParkedIsStopped
  BY DEF PInv, ParkedIsUnheard, ParkedIsStopped
<1> QED BY <1>1, ParkingInvariant, PTL

-----------------------------------------------------------------------------
(* One action at a time, with every failure: crashes in the middle of an   *)
(* action, lost servers, providers that exit or outlive a hangup, barriers *)
(* that time out, and hooks at any moment.  A provider that runs is then   *)
(* the recorded one, a parked Workstream is quiet, and the actions keep    *)
(* WorkstreamPromise.                                                      *)
(*                                                                         *)
(* The argument: all that lives on the socket is the pane of the last      *)
(* launch.  A reservation, a park, an archive and a forget are reached     *)
(* with nothing left there, which only a launch changes; and the file that *)
(* releases a barrier exists only while the recorded process is the one    *)
(* the server holds.                                                       *)

\* At most one process runs actions.
OneActor == \A a, b \in Actors : a = b

\* Nothing lives in the private runtime directory.
Empty == /\ \A g \in Gens : pane[g] \notin {"barrier", "provider"}
         /\ Missing /\ ~ready

\* The recorded process, if any, has ended.
Over == rt.proc # Null => rt.proc \in Gens /\ pane[rt.proc] \in Ended

\* Steps at which an action relies on an empty directory.
Relying == {"reserve", "park_commit", "reread", "commit", "create_dir", "new_session"}

\* Steps at which an action launches, and marks a failed launch or stop.
Marking(o) == \/ o.pc \in Launching \union {"release", "mark_recovery", "mark_current", "stop_own"}
              \/ o.pc \in {"kill", "remove_dir"} /\ o.after \in {"mark_recovery", "mark_current"}

\* What the one action relies on at each of its steps.
SerialClaims(o) ==
  /\ o.pc \in {"probe", "terminate"} => rt.status # "none" /\ o.rt.proc = rt.proc
  /\ o.pc = "probe" /\ ws.life = "parked" => o.rt.status = "stopped"
  /\ o.pc = "mark_stopped" => Missing /\ rt.proc = Null
  /\ o.pc \in {"kill", "remove_dir"} /\ o.after \in {"reserve", "park_commit"} => Over
  /\ o.pc = "remove_dir" => Missing
  /\ o.pc = "stop_own" => o.after \in {"mark_recovery", "mark_current"}
  /\ o.pc \in Relying => Empty
  /\ o.pc \in Launching => rt.proc = Null /\ rt.status = "starting"
  /\ o.pc \in {"prove_group", "record"} => server \in {Null, o.proc}
  /\ o.pc = "release" => rt.proc # Null /\ rt.status # "none" /\ server \in {Null, rt.proc}
  /\ Marking(o) => ws.life # "parked"

BarrierOnServer == \A g \in Gens : pane[g] = "barrier" => server = g

\* launch.ready is there for the recorded process only.
ReleasedIsRecorded == ready => rt.proc # Null /\ rt.status # "none" /\ server \in {Null, rt.proc}

NoRowIsEmpty == rt.status = "none" => Empty

ParkedIsEmpty == ws.life = "parked" => Empty /\ Gone(rt.proc, pane, hook)

SInv == /\ BarrierOnServer /\ LiveIsRecorded /\ ReleasedIsRecorded /\ NoRowIsEmpty /\ ParkedIsEmpty
        /\ \A a \in Actors : SerialClaims(op[a])

-----------------------------------------------------------------------------

\* The types that the proofs below need.
LEMMA SerialTypes ==
  ASSUME RInv
  PROVE  /\ rt \in RuntimeRow /\ op \in [Actors -> ActorState] /\ pane \in [Gens -> PaneState]
         /\ server \in Gens \union {Null} /\ dir \in BOOLEAN /\ ready \in BOOLEAN
         /\ \A g \in Gens : g \in Nat /\ g # Null
         /\ \A a \in Actors : op[a] \in ActorState
BY Typed DEF RInv, PanesOK

\* Where an actor is after a step.
LEMMA GoesTo ==
  ASSUME RInv, NEW a \in Actors, NEW pc, Goto(a, pc)
  PROVE  /\ op'[a].pc = pc
         /\ pc # "idle" => /\ op'[a].rt = op[a].rt /\ op'[a].proc = op[a].proc
                           /\ op'[a].after = op[a].after /\ op'[a].goal = op[a].goal
<1>1. op \in [Actors -> ActorState] /\ op[a] \in ActorState
  BY SerialTypes
<1>2. CASE pc = "idle"
  BY <1>1, <1>2 DEF Goto, Idle
<1>3. CASE pc # "idle"
  BY <1>1, <1>3 DEF Goto, ActorState
<1> QED BY <1>2, <1>3

\* The same for a step with a continuation.
LEMMA GoesThen ==
  ASSUME RInv, NEW a \in Actors, NEW pc, NEW after, GotoThen(a, pc, after)
  PROVE  /\ op'[a].pc = pc /\ op'[a].after = after
         /\ op'[a].rt = op[a].rt /\ op'[a].proc = op[a].proc /\ op'[a].goal = op[a].goal
BY SerialTypes DEF GotoThen, ActorState

\* Where an action begins.
LEMMA EnterGoes ==
  ASSUME RInv, NEW a \in Actors, NEW goal, NEW pc, NEW runtime, Enter(a, goal, pc, runtime)
  PROVE  op'[a].pc = pc /\ op'[a].rt = runtime /\ op'[a].after = "idle"
BY SerialTypes DEF Enter

\* A step of the actor that changes nothing but what it holds.
LEMMA QuietKeepsSerial ==
  ASSUME OneActor, SInv, NEW a \in Actors, UNCHANGED registryVars, UNCHANGED execVars, UNCHANGED hook,
         SerialClaims(op[a])'
  PROVE  SInv'
<1>1. ws' = ws /\ rt' = rt /\ dir' = dir /\ server' = server /\ ready' = ready /\ pane' = pane /\ hook' = hook
  BY DEF registryVars, execVars
<1>2. \A b \in Actors : SerialClaims(op[b])'
  BY DEF OneActor
<1> QED
  BY <1>1, <1>2 DEF SInv, BarrierOnServer, LiveIsRecorded, Running, ReleasedIsRecorded, NoRowIsEmpty, ParkedIsEmpty,
                    Empty, Missing, Gone

\* Nothing is owed at these steps.
Free == {"idle", "crashed", "read", "evidence", "reconcile", "recheck"}

\* A free actor relies on nothing.
LEMMA FreeClaims ==
  ASSUME NEW a \in Actors, op'[a].pc \in Free
  PROVE  SerialClaims(op[a])'
BY DEF SerialClaims, Free, Relying, Launching, Marking

\* An action begins; an archive or a forget without a row finds nothing to stop.
LEMMA SerialBegin ==
  ASSUME OneActor, RInv, PInv, SInv, NEW a \in Actors,
         BeginStart(a) \/ BeginRecover(a) \/ BeginArchive(a) \/ BeginForget(a) \/ BeginAttach(a)
  PROVE  SInv'
<1>1. UNCHANGED registryVars /\ UNCHANGED execVars /\ UNCHANGED hook
  BY DEF BeginStart, BeginRecover, BeginArchive, BeginForget, BeginAttach
<1>2. ws' = ws /\ rt' = rt /\ server' = server /\ ready' = ready /\ pane' = pane
  BY <1>1 DEF registryVars, execVars
<1>3. CASE BeginStart(a) \/ BeginRecover(a)
  <2>1. op'[a].pc \in Free
    BY <1>3, EnterGoes DEF BeginStart, BeginRecover, Free
  <2> QED BY <1>1, <2>1, FreeClaims, QuietKeepsSerial
<1>4. CASE BeginArchive(a) \/ BeginForget(a)
  <2>1. op'[a].pc \in Free \/ (op'[a].pc = "commit" /\ Empty)
    BY <1>4, EnterGoes DEF BeginArchive, BeginForget, Free, SInv, NoRowIsEmpty, ParkedIsEmpty
  <2>2. SerialClaims(op[a])'
    BY <1>2, <2>1, FreeClaims DEF SerialClaims, Relying, Launching, Marking, Empty, Missing
  <2> QED BY <1>1, <2>2, QuietKeepsSerial
<1>5. CASE BeginAttach(a)
  <2>1. op'[a].pc = "probe" /\ op'[a].rt = rt /\ rt.status # "none"
    BY <1>5, EnterGoes DEF BeginAttach
  <2>2. ws.life = "parked" => rt.status = "stopped"
    BY <2>1 DEF PInv, ParkedIsUnheard
  <2>3. SerialClaims(op[a])'
    BY <1>2, <2>1, <2>2 DEF SerialClaims, Relying, Launching, Marking
  <2> QED BY <1>1, <2>3, QuietKeepsSerial
<1> QED BY <1>3, <1>4, <1>5

\* The row that is read is the current one.
LEMMA SerialRead ==
  ASSUME OneActor, RInv, PInv, SInv, NEW a \in Actors, ReadRuntime(a)
  PROVE  SInv'
<1>1. UNCHANGED registryVars /\ UNCHANGED execVars /\ UNCHANGED hook
  BY DEF ReadRuntime
<1>2. ws' = ws /\ rt' = rt /\ server' = server /\ ready' = ready /\ pane' = pane
  BY <1>1 DEF registryVars, execVars
<1>3. \/ op'[a].pc = "probe" /\ op'[a].rt = rt /\ rt.status # "none"
      \/ op'[a].pc = "reserve" /\ rt.status = "none"
      \/ op'[a].pc = "idle"
  BY SerialTypes DEF ReadRuntime, ActorState, Idle
<1>4. ws.life = "parked" /\ rt.status # "none" => rt.status = "stopped"
  BY DEF PInv, ParkedIsUnheard
<1>5. rt.status = "none" => Empty
  BY DEF SInv, NoRowIsEmpty
<1>6. SerialClaims(op[a])'
  BY <1>2, <1>3, <1>4, <1>5 DEF SerialClaims, Relying, Launching, Marking, Empty, Missing
<1> QED BY <1>1, <1>6, QuietKeepsSerial

\* What a verdict was based on.
LEMMA VerdictMeans ==
  ASSUME NEW goal, NEW record
  PROVE  LET verdict == Verdict(goal, record) IN
         /\ verdict \in {"terminate", "kill", "mark_stopped", "mark_recovery", "idle", "evidence", "recheck"}
         /\ verdict = "kill" => CleanExit(record)
         /\ verdict = "mark_stopped" => Missing /\ record.proc = Null
         /\ verdict = "mark_recovery" => record.status # "stopped"
BY DEF Verdict, StartVerdict, RecoverVerdict, AttachVerdict, ParkVerdict

\* An exit that was proved is one of a process that was created.
LEMMA CleanExitIsOver ==
  ASSUME RInv, NEW record, CleanExit(record), record.proc = rt.proc
  PROVE  Over
BY SerialTypes DEF CleanExit, Over, Ended, Missing

\* The verdict is about the recorded process.
LEMMA SerialProbe ==
  ASSUME OneActor, RInv, PInv, SInv, NEW a \in Actors, Probe(a)
  PROVE  SInv'
<1> DEFINE verdict == Verdict(op[a].goal, op[a].rt)
<1>1. UNCHANGED registryVars /\ UNCHANGED execVars /\ UNCHANGED hook
  BY DEF Probe
<1>2. ws' = ws /\ rt' = rt /\ server' = server /\ ready' = ready /\ pane' = pane
  BY <1>1 DEF registryVars, execVars
<1>3. /\ rt.status # "none" /\ op[a].rt.proc = rt.proc
      /\ ws.life = "parked" => op[a].rt.status = "stopped"
  BY DEF Probe, At, SInv, SerialClaims
<1>4. /\ verdict \in {"terminate", "kill", "mark_stopped", "mark_recovery", "idle", "evidence", "recheck"}
      /\ verdict = "kill" => CleanExit(op[a].rt)
      /\ verdict = "mark_stopped" => Missing /\ op[a].rt.proc = Null
      /\ verdict = "mark_recovery" => op[a].rt.status # "stopped"
  BY VerdictMeans
<1>5. IF verdict = "kill" THEN GotoThen(a, "kill", "reserve") ELSE Goto(a, verdict)
  BY DEF Probe
<1> HIDE DEF verdict
<1>6. CASE verdict = "kill"
  <2>1. op'[a].pc = "kill" /\ op'[a].after = "reserve" /\ Over
    BY <1>3, <1>4, <1>5, <1>6, GoesThen, CleanExitIsOver
  <2>2. SerialClaims(op[a])'
    BY <1>2, <2>1 DEF SerialClaims, Relying, Launching, Marking, Over
  <2> QED BY <1>1, <2>2, QuietKeepsSerial
<1>7. CASE verdict # "kill"
  <2>1. /\ op'[a].pc = verdict
        /\ verdict # "idle" => op'[a].rt = op[a].rt
    BY <1>5, <1>7, GoesTo
  <2>2. SerialClaims(op[a])'
    BY <1>2, <1>3, <1>4, <1>7, <2>1 DEF SerialClaims, Relying, Launching, Marking, Missing
  <2> QED BY <1>1, <2>2, QuietKeepsSerial
<1> QED BY <1>6, <1>7

\* The other steps that only read.
LEMMA SerialReads ==
  ASSUME OneActor, RInv, PInv, SInv, NEW a \in Actors,
         TerminateRefused(a) \/ Reread(a) \/ ProbeOwn(a) \/ ProveGroup(a) \/ Evidence(a) \/ Recheck(a)
  PROVE  SInv'
<1>1. UNCHANGED registryVars /\ UNCHANGED execVars /\ UNCHANGED hook
  BY DEF TerminateRefused, Reread, ProbeOwn, ProveGroup, Evidence, Recheck
<1>2. ws' = ws /\ rt' = rt /\ server' = server /\ ready' = ready /\ pane' = pane /\ hook' = hook
  BY <1>1 DEF registryVars, execVars
<1>3. SerialClaims(op[a]) /\ op[a] \in ActorState
  BY SerialTypes DEF SInv
<1>4. CASE TerminateRefused(a)
  <2>1. ~Terminable(op[a].rt.proc) /\ op[a].rt.proc = rt.proc
    BY <1>3, <1>4 DEF TerminateRefused, At, SerialClaims
  <2>2. ws.life # "parked"
    BY <2>1 DEF SInv, ParkedIsEmpty, Gone, Terminable, GroupOccupied
  <2>3. op'[a].pc \in {"idle", "mark_recovery"}
    BY <1>4, GoesTo DEF TerminateRefused
  <2>4. SerialClaims(op[a])'
    BY <1>2, <2>2, <2>3 DEF SerialClaims, Relying, Launching, Marking
  <2> QED BY <1>1, <2>4, QuietKeepsSerial
<1>5. CASE Reread(a)
  <2>1. op'[a].pc \in {"idle", "commit"} /\ op[a].pc = "reread"
    BY <1>3, <1>5, SerialTypes DEF Reread, At, Idle, ActorState
  <2>2. SerialClaims(op[a])'
    BY <1>2, <1>3, <2>1 DEF SerialClaims, Relying, Launching, Marking, Empty, Missing
  <2> QED BY <1>1, <2>2, QuietKeepsSerial
<1>6. CASE ProbeOwn(a)
  <2>1. \/ op'[a].pc = "prove_group" /\ op'[a].proc = server
        \/ op'[a].pc = "kill" /\ op'[a].after = "mark_recovery"
    BY <1>3, <1>6, SerialTypes, GoesThen DEF ProbeOwn, FailUnidentified, ActorState
  <2>2. rt.proc = Null /\ rt.status = "starting" /\ ws.life # "parked"
    BY <1>3, <1>6 DEF ProbeOwn, At, SerialClaims, Launching, Marking
  <2>3. SerialClaims(op[a])'
    BY <1>2, <2>1, <2>2 DEF SerialClaims, Relying, Launching, Marking
  <2> QED BY <1>1, <2>3, QuietKeepsSerial
<1>7. CASE ProveGroup(a)
  <2>1. \/ op'[a].pc = "record" /\ op'[a].proc = op[a].proc
        \/ op'[a].pc = "kill" /\ op'[a].after = "mark_recovery"
    BY <1>7, GoesTo, GoesThen DEF ProveGroup, FailUnidentified
  <2>2. rt.proc = Null /\ rt.status = "starting" /\ ws.life # "parked" /\ server \in {Null, op[a].proc}
    BY <1>3, <1>7 DEF ProveGroup, At, SerialClaims, Launching, Marking
  <2>3. SerialClaims(op[a])'
    BY <1>2, <2>1, <2>2 DEF SerialClaims, Relying, Launching, Marking
  <2> QED BY <1>1, <2>3, QuietKeepsSerial
<1>8. CASE Evidence(a)
  <2>1. op'[a].pc \in Free
    BY <1>8, SerialTypes, GoesTo DEF Evidence, Done, Free, ActorState
  <2> QED BY <1>1, <2>1, FreeClaims, QuietKeepsSerial
<1>9. CASE Recheck(a)
  <2>1. CASE WorkstreamAt(op[a].ws) /\ RuntimeAt(op[a].rt.rev) /\ CleanExit(op[a].rt) /\ ~GroupOccupied(op[a].rt.proc)
    <3>1. op'[a].pc = "kill" /\ op'[a].after = "park_commit"
      BY <1>9, <2>1, GoesThen DEF Recheck
    <3>2. op[a].rt = rt
      BY <2>1 DEF RuntimeAt, RInv, ActorsOK, Holds
    <3>3. Over
      BY <2>1, <3>2, CleanExitIsOver
    <3>4. SerialClaims(op[a])'
      BY <1>2, <3>1, <3>3 DEF SerialClaims, Relying, Launching, Marking, Over
    <3> QED BY <1>1, <3>4, QuietKeepsSerial
  <2>2. CASE ~(WorkstreamAt(op[a].ws) /\ RuntimeAt(op[a].rt.rev) /\ CleanExit(op[a].rt) /\ ~GroupOccupied(op[a].rt.proc))
    <3>1. op'[a].pc \in Free
      BY <1>9, <2>2, GoesTo DEF Recheck, Done, Free
    <3> QED BY <1>1, <3>1, FreeClaims, QuietKeepsSerial
  <2> QED BY <2>1, <2>2
<1> QED BY <1>4, <1>5, <1>6, <1>7, <1>8, <1>9

\* A crashed actor relies on nothing; what it launched or recorded is in the row.
LEMMA SerialCrash ==
  ASSUME OneActor, RInv, SInv, NEW a \in Actors, Crash(a) \/ Restart(a)
  PROVE  SInv'
<1>1. UNCHANGED registryVars /\ UNCHANGED execVars /\ UNCHANGED hook
  BY DEF Crash, Restart
<1>2. op'[a].pc \in Free
  BY SerialTypes, GoesTo DEF Crash, Restart, Done, Free, Idle
<1> QED BY <1>1, <1>2, FreeClaims, QuietKeepsSerial

-----------------------------------------------------------------------------

\* A transaction that keeps the recorded process and parks nothing.
LEMMA RowKeepsSerial ==
  ASSUME OneActor, SInv, NEW a \in Actors, UNCHANGED execVars, UNCHANGED hook,
         rt'.proc = rt.proc, rt'.status = "none" <=> rt.status = "none",
         ws'.life = "parked" => ws.life = "parked", SerialClaims(op[a])'
  PROVE  SInv'
<1>1. dir' = dir /\ server' = server /\ ready' = ready /\ pane' = pane /\ hook' = hook
  BY DEF execVars
<1>2. \A b \in Actors : SerialClaims(op[b])'
  BY DEF OneActor
<1>3. BarrierOnServer' /\ LiveIsRecorded' /\ ReleasedIsRecorded'
  BY <1>1 DEF SInv, BarrierOnServer, LiveIsRecorded, Running, ReleasedIsRecorded
<1>4. NoRowIsEmpty' /\ ParkedIsEmpty'
  BY <1>1 DEF SInv, NoRowIsEmpty, ParkedIsEmpty, Empty, Missing, Gone
<1> QED BY <1>2, <1>3, <1>4 DEF SInv

\* An outcome is recorded where nothing was recorded to run, or in recovery.
LEMMA SerialMarks ==
  ASSUME OneActor, RInv, PInv, SInv, NEW a \in Actors,
         MarkStoppedStep(a) \/ MarkRecoveryStep(a) \/ MarkCurrentStep(a)
  PROVE  SInv'
<1>1. UNCHANGED execVars /\ UNCHANGED hook
  BY DEF MarkStoppedStep, MarkRecoveryStep, MarkCurrentStep
<1>2. /\ rt'.proc = rt.proc /\ (rt'.status = "none" <=> rt.status = "none")
      /\ ws'.life = "parked" => ws.life = "parked"
      /\ op'[a].pc \in {"idle", "reserve"}
      /\ op'[a].pc = "reserve" => op[a].pc = "mark_stopped"
  BY GoesTo DEF MarkStoppedStep, MarkRecoveryStep, MarkCurrentStep, Attempt, RuntimeAt, MarkStopped,
                MarkRecoveryRequired, RuntimeTo, WorkstreamTo, registryVars, Done, At
<1>3. op[a].pc = "mark_stopped" => Empty
  <2>1. SUFFICES ASSUME op[a].pc = "mark_stopped" PROVE Empty
    OBVIOUS
  <2>2. Missing /\ rt.proc = Null
    BY <2>1 DEF SInv, SerialClaims
  <2>3. \A g \in Gens : pane[g] \notin {"barrier", "provider"}
    BY <2>2, SerialTypes DEF SInv, BarrierOnServer, LiveIsRecorded, Running, Missing
  <2> QED BY <2>2, <2>3 DEF Empty, SInv, ReleasedIsRecorded
<1>4. SerialClaims(op[a])'
  BY <1>1, <1>2, <1>3 DEF SerialClaims, Relying, Launching, Marking, Empty, Missing, execVars
<1> QED BY <1>1, <1>2, <1>4, RowKeepsSerial

\* Reconciliation, restoring and archiving leave the Runtime alone.
LEMMA SerialCatalog ==
  ASSUME OneActor, RInv, PInv, SInv, NEW a \in Actors, Reconcile(a) \/ Restore(a) \/ (Commit(a) /\ op[a].goal = "archive")
  PROVE  SInv'
<1>1. UNCHANGED execVars /\ UNCHANGED hook
  BY DEF Reconcile, Restore, Commit
<1>2. rt' = rt /\ (ws'.life = "parked" => ws.life = "parked")
  BY DEF Reconcile, Restore, Commit, Attempt, ReconcileRecovery, RestoreWorkstream, ArchiveWorkstream, WorkstreamTo,
         registryVars
<1>3. CASE op'[a].pc \in Free
  BY <1>1, <1>2, <1>3, FreeClaims, RowKeepsSerial
<1>4. op'[a].pc \in Free
  <2>1. CASE Restore(a)
    BY <2>1 DEF Restore, Begins, At, Free
  <2>2. CASE ~Restore(a)
    BY <2>2, GoesTo DEF Reconcile, Commit, Attempt, Done, Free
  <2> QED BY <2>1, <2>2
<1> QED BY <1>3, <1>4

\* A forgotten Workstream left nothing behind.
LEMMA SerialForget ==
  ASSUME OneActor, RInv, PInv, SInv, NEW a \in Actors, Commit(a), op[a].goal # "archive"
  PROVE  SInv'
<1>1. UNCHANGED execVars /\ UNCHANGED hook /\ op'[a].pc \in Free /\ Empty
  BY GoesTo DEF Commit, Attempt, Done, Free, SInv, SerialClaims, At, Relying
<1>2. server' = server /\ ready' = ready /\ pane' = pane /\ hook' = hook
  BY <1>1 DEF execVars
<1>3. Empty'
  BY <1>1, <1>2 DEF Empty, Missing
<1>4. rt'.proc = rt.proc /\ (ws'.life = "parked" => ws.life = "parked")
  BY SerialTypes DEF Commit, Attempt, ForgetWorkstream, WorkstreamTo, registryVars, RuntimeRow
<1>5. BarrierOnServer' /\ LiveIsRecorded' /\ ReleasedIsRecorded' /\ NoRowIsEmpty'
  BY <1>3 DEF BarrierOnServer, LiveIsRecorded, Running, ReleasedIsRecorded, NoRowIsEmpty, Empty
<1>6. ParkedIsEmpty'
  BY <1>2, <1>3, <1>4 DEF SInv, ParkedIsEmpty, Gone
<1>7. \A b \in Actors : SerialClaims(op[b])'
  BY <1>1, FreeClaims DEF OneActor
<1> QED BY <1>5, <1>6, <1>7 DEF SInv

\* A park finds the directory empty and the recorded process over.
LEMMA SerialPark ==
  ASSUME OneActor, RInv, PInv, SInv, NEW a \in Actors, ParkCommit(a)
  PROVE  SInv'
<1>1. UNCHANGED execVars /\ UNCHANGED hook /\ op[a].pc = "park_commit" /\ Empty
  BY DEF ParkCommit, SInv, SerialClaims, At, Relying
<1>2. server' = server /\ ready' = ready /\ pane' = pane /\ hook' = hook
  BY <1>1 DEF execVars
<1>3. Empty'
  BY <1>1, <1>2 DEF Empty, Missing
<1>4. BarrierOnServer' /\ LiveIsRecorded' /\ ReleasedIsRecorded' /\ NoRowIsEmpty'
  BY <1>3 DEF BarrierOnServer, LiveIsRecorded, Running, ReleasedIsRecorded, NoRowIsEmpty, Empty
<1>5. ParkedIsEmpty'
  <2>1. CASE RuntimeAt(op[a].rt.rev)
    <3>1. op[a].rt = rt /\ rt'.proc = rt.proc
      BY <2>1 DEF RuntimeAt, RInv, ActorsOK, Holds, ParkCommit, Attempt, ParkRuntime, RuntimeTo
    <3>2. Gone(rt.proc, pane, hook)
      BY <1>1, <3>1 DEF PInv, Claims, Parks
    <3> QED BY <1>2, <1>3, <3>1, <3>2 DEF ParkedIsEmpty, Gone
  <2>2. CASE ~RuntimeAt(op[a].rt.rev)
    BY <1>2, <1>3, <2>2 DEF ParkCommit, Attempt, registryVars, SInv, ParkedIsEmpty, Gone
  <2> QED BY <2>1, <2>2
<1>6. SerialClaims(op[a])'
  <2>1. op'[a].pc \in {"idle", "reread"}
    BY GoesTo DEF ParkCommit, Attempt, Done
  <2> QED BY <1>3, <2>1 DEF SerialClaims, Relying, Launching, Marking
<1> QED BY <1>4, <1>5, <1>6 DEF SInv, OneActor

\* A reservation finds the directory empty.
LEMMA SerialReserve ==
  ASSUME OneActor, RInv, PInv, SInv, NEW a \in Actors, Reserve(a)
  PROVE  SInv'
<1>1. UNCHANGED execVars /\ UNCHANGED hook /\ op[a].pc = "reserve" /\ Empty
  BY DEF Reserve, SInv, SerialClaims, At, Relying
<1>2. server' = server /\ ready' = ready /\ pane' = pane /\ hook' = hook
  BY <1>1 DEF execVars
<1>3. CASE ReserveRuntime \/ ReserveRecovery
  <2>1. rt'.proc = Null /\ rt'.status = "starting" /\ ws'.life # "parked"
    BY <1>3 DEF ReserveRuntime, ReserveRecovery, FreshRuntime, WorkstreamTo, TouchWorkstream, RecoveryReservable
  <2>2. Empty'
    BY <1>1, <1>2 DEF Empty, Missing
  <2>3. op'[a].pc \in {"create_dir", "idle"}
    BY SerialTypes, GoesTo DEF Reserve, Done, ActorState
  <2>4. SerialClaims(op[a])'
    BY <2>1, <2>2, <2>3 DEF SerialClaims, Relying, Launching, Marking
  <2>5. /\ BarrierOnServer' /\ LiveIsRecorded' /\ ReleasedIsRecorded' /\ NoRowIsEmpty'
        /\ ParkedIsEmpty'
    BY <2>1, <2>2 DEF BarrierOnServer, LiveIsRecorded, Running, ReleasedIsRecorded, NoRowIsEmpty, Empty, ParkedIsEmpty
  <2> QED BY <2>4, <2>5 DEF SInv, OneActor
<1>4. CASE UNCHANGED registryVars /\ Done(a)
  <2>1. op'[a].pc \in Free
    BY <1>4, GoesTo DEF Done, Free
  <2> QED BY <1>1, <1>4, <2>1, FreeClaims, QuietKeepsSerial
<1> QED BY <1>3, <1>4 DEF Reserve

\* The process that is recorded is the one that the server holds.
LEMMA SerialRecord ==
  ASSUME OneActor, RInv, PInv, SInv, NEW a \in Actors, Record(a)
  PROVE  SInv'
<1>1. UNCHANGED execVars /\ UNCHANGED hook /\ op[a].pc = "record" /\ SerialClaims(op[a])
  BY DEF Record, SInv, At
<1>2. server' = server /\ ready' = ready /\ pane' = pane /\ hook' = hook
  BY <1>1 DEF execVars
<1>3. /\ rt.proc = Null /\ rt.status = "starting" /\ server \in {Null, op[a].proc} /\ ws.life # "parked"
      /\ op[a].proc # Null
  BY <1>1 DEF SerialClaims, Launching, Marking, RInv, ActorsOK, Holds
<1>4. CASE RecordIdentity(op[a].rt.rev, op[a].proc) /\ Goto(a, "release")
  <2>1. rt'.proc = op[a].proc /\ rt'.status = "starting" /\ ws' = ws /\ op'[a].pc = "release"
    BY <1>4, GoesTo DEF RecordIdentity
  <2>2. SerialClaims(op[a])'
    BY <1>2, <1>3, <2>1 DEF SerialClaims, Relying, Launching, Marking
  <2>3. BarrierOnServer' /\ LiveIsRecorded' /\ ReleasedIsRecorded'
    BY <1>2, <1>3, <2>1, SerialTypes DEF SInv, BarrierOnServer, LiveIsRecorded, Running, ReleasedIsRecorded
  <2>4. NoRowIsEmpty' /\ ParkedIsEmpty'
    BY <1>3, <2>1 DEF NoRowIsEmpty, ParkedIsEmpty
  <2> QED BY <2>2, <2>3, <2>4 DEF SInv, OneActor
<1>5. CASE GotoThen(a, "stop_own", "mark_recovery") /\ UNCHANGED registryVars
  <2>1. op'[a].pc = "stop_own" /\ ws' = ws /\ op'[a].after = "mark_recovery"
    BY <1>5, GoesThen DEF registryVars
  <2>2. SerialClaims(op[a])'
    BY <1>3, <2>1 DEF SerialClaims, Relying, Launching, Marking
  <2> QED BY <1>1, <1>5, <2>2, QuietKeepsSerial
<1> QED BY <1>4, <1>5 DEF Record

-----------------------------------------------------------------------------

\* Processes only end, the server and launch.ready only go away.
Quieter == /\ \A g \in Gens : pane'[g] \in {"barrier", "provider"} => pane'[g] = pane[g]
           /\ server' \in {server, Null} /\ (ready' => ready)

\* What was empty stays empty when nothing is created.
LEMMA QuieterStaysEmpty ==
  ASSUME Quieter, Empty
  PROVE  Empty'
BY DEF Quieter, Empty, Missing

\* A process that ended stays ended.
LEMMA OverKept ==
  ASSUME Moves(pane, hook, pane', hook'), Over, rt'.proc = rt.proc
  PROVE  Over'
BY DEF Moves, Over

\* An end of processes, servers or files keeps what holds of the rows.
LEMMA QuieterKeepsSerial ==
  ASSUME OneActor, SInv, NEW a \in Actors, UNCHANGED registryVars, Quieter, Moves(pane, hook, pane', hook'),
         BarrierOnServer', SerialClaims(op[a])'
  PROVE  SInv'
<1>1. ws' = ws /\ rt' = rt
  BY DEF registryVars
<1>2. LiveIsRecorded' /\ ReleasedIsRecorded'
  BY <1>1 DEF SInv, LiveIsRecorded, Running, ReleasedIsRecorded, Quieter
<1>3. NoRowIsEmpty' /\ ParkedIsEmpty'
  BY <1>1, QuieterStaysEmpty, GoneKept DEF SInv, NoRowIsEmpty, ParkedIsEmpty
<1> QED BY <1>2, <1>3 DEF SInv, OneActor

\* What an actor relies on outlives a step of its environment.
LEMMA QuieterKeepsClaims ==
  ASSUME SInv, NEW a \in Actors, UNCHANGED registryVars, Quieter, Moves(pane, hook, pane', hook'), op'[a] = op[a]
  PROVE  SerialClaims(op[a])'
<1>1. ws' = ws /\ rt' = rt /\ SerialClaims(op[a])
  BY DEF registryVars, SInv
<1>2. (Over => Over') /\ (Empty => Empty') /\ (Missing => Missing')
  BY <1>1, OverKept, QuieterStaysEmpty DEF Quieter, Missing
<1>3. server' \in {server, Null}
  BY DEF Quieter
<1> QED BY <1>1, <1>2, <1>3 DEF SerialClaims, Marking

\* Stopping the process group of g.
LEMMA TerminateQuieter ==
  ASSUME RInv, SInv, NEW g, TerminateGroup(g)
  PROVE  Quieter /\ Moves(pane, hook, pane', hook') /\ BarrierOnServer'
<1>1. server' = server /\ ready' = ready /\ dir' = dir
  BY DEF TerminateGroup
<1>2. \A f \in Gens : pane'[f] \in {pane[f], "dead"}
  BY SerialTypes DEF TerminateGroup
<1>3. Quieter
  BY <1>1, <1>2 DEF Quieter
<1> QED BY <1>1, <1>2, <1>3, TerminateMoves DEF Still, SInv, BarrierOnServer

\* A server that goes away creates nothing.
LEMMA HangUpQuieter ==
  ASSUME RInv, SInv, HangUp, UNCHANGED <<ready, hook>>
  PROVE  Quieter /\ Moves(pane, hook, pane', hook') /\ BarrierOnServer' /\ Missing'
<1>1. server' = Null
  BY DEF HangUp
<1>2. \A f \in Gens : pane'[f] \in {pane[f], "dead"} /\ pane'[f] # "barrier"
  <2>1. SUFFICES ASSUME NEW f \in Gens PROVE pane'[f] \in {pane[f], "dead"} /\ pane'[f] # "barrier"
    OBVIOUS
  <2>2. pane[f] = "barrier" => server = f /\ PaneAlive
    BY SerialTypes DEF SInv, BarrierOnServer, PaneAlive, Alive
  <2>3. CASE pane' = IF PaneAlive THEN [pane EXCEPT ![server] = "dead"] ELSE pane
    BY <2>2, <2>3, SerialTypes DEF PaneAlive
  <2>4. CASE ~Missing /\ pane[server] = "provider" /\ pane' = pane
    BY <2>2, <2>4
  <2> QED BY <2>3, <2>4 DEF HangUp
<1>3. Quieter
  BY <1>1, <1>2 DEF Quieter
<1> QED BY <1>1, <1>2, <1>3, HangUpMoves DEF Still, BarrierOnServer, Missing

\* The recorded group is stopped.
LEMMA SerialTerminate ==
  ASSUME OneActor, RInv, PInv, SInv, NEW a \in Actors, Terminate(a)
  PROVE  SInv'
<1>1. /\ op[a].rt.proc = rt.proc /\ UNCHANGED registryVars
      /\ Terminable(rt.proc) /\ TerminateGroup(rt.proc)
  BY DEF Terminate, At, SInv, SerialClaims
<1>2. op'[a].pc = "kill" /\ op'[a].after \in {"reserve", "park_commit"}
  BY GoesThen DEF Terminate, AfterStop
<1>3. Quieter /\ Moves(pane, hook, pane', hook') /\ BarrierOnServer'
  BY <1>1, TerminateQuieter
<1>4. Gone(rt.proc, pane', hook')
  BY <1>1, TerminateLeavesGone DEF PInv
<1>5. Over'
  BY <1>1, <1>4 DEF Over, Gone, registryVars
<1>6. SerialClaims(op[a])'
  BY <1>2, <1>5 DEF SerialClaims, Relying, Launching, Marking
<1> QED BY <1>1, <1>3, <1>6, QuieterKeepsSerial

\* A launcher stops the group that it found.
LEMMA SerialStopOwn ==
  ASSUME OneActor, RInv, PInv, SInv, NEW a \in Actors, StopOwn(a)
  PROVE  SInv'
<1>1. UNCHANGED registryVars /\ op[a].pc = "stop_own" /\ ws.life # "parked" /\ ws' = ws
      /\ op[a].after \in {"mark_recovery", "mark_current"}
  BY DEF StopOwn, At, SInv, SerialClaims, Marking, registryVars
<1>2. \/ op'[a].pc = "kill" /\ op'[a].after = op[a].after
      \/ op'[a].pc = op[a].after
  BY <1>1, GoesTo DEF StopOwn
<1>3. SerialClaims(op[a])'
  BY <1>1, <1>2 DEF SerialClaims, Relying, Launching, Marking
<1>4. Quieter /\ Moves(pane, hook, pane', hook') /\ BarrierOnServer'
  <2>1. CASE TerminateGroup(op[a].proc)
    BY <2>1, TerminateQuieter
  <2>2. CASE UNCHANGED <<execVars, hook>>
    BY <2>2 DEF execVars, Quieter, Moves, SInv, BarrierOnServer
  <2> QED BY <2>1, <2>2 DEF StopOwn
<1> QED BY <1>1, <1>3, <1>4, QuieterKeepsSerial

\* The server is killed.
LEMMA SerialKill ==
  ASSUME OneActor, RInv, PInv, SInv, NEW a \in Actors, KillServer(a)
  PROVE  SInv'
<1>1. UNCHANGED registryVars /\ op[a].pc = "kill" /\ SerialClaims(op[a]) /\ HangUp /\ UNCHANGED <<ready, hook>>
  BY DEF KillServer, At, SInv
<1>2. ws' = ws /\ rt' = rt /\ op'[a].pc = "remove_dir" /\ op'[a].after = op[a].after
  BY <1>1, GoesTo DEF registryVars, KillServer
<1>3. Quieter /\ Moves(pane, hook, pane', hook') /\ BarrierOnServer' /\ Missing'
  BY <1>1, HangUpQuieter
<1>4. Over => Over'
  BY <1>2, <1>3, OverKept
<1>5. SerialClaims(op[a])'
  BY <1>1, <1>2, <1>3, <1>4 DEF SerialClaims, Relying, Launching, Marking
<1> QED BY <1>1, <1>3, <1>5, QuieterKeepsSerial

\* The directory is removed, and with it the socket and the barrier file.
LEMMA SerialRemove ==
  ASSUME OneActor, RInv, PInv, SInv, NEW a \in Actors, RemoveDir(a)
  PROVE  SInv'
<1>1. UNCHANGED registryVars /\ op[a].pc = "remove_dir" /\ SerialClaims(op[a]) /\ Missing
  BY DEF RemoveDir, At, SInv, SerialClaims
<1>2. /\ ws' = ws /\ rt' = rt /\ pane' = pane /\ hook' = hook /\ server' = Null /\ ~ready'
      /\ op'[a].pc = op[a].after
      /\ op[a].after \in Continuations
  BY <1>1, GoesTo DEF registryVars, RemoveDir, PInv, Claims
<1>3. Quieter /\ Moves(pane, hook, pane', hook') /\ BarrierOnServer'
  BY <1>1, <1>2 DEF Quieter, Moves, SInv, BarrierOnServer, Missing
<1>4. op[a].after \in {"reserve", "park_commit"} => Empty'
  <2>1. SUFFICES ASSUME op[a].after \in {"reserve", "park_commit"} PROVE Empty'
    OBVIOUS
  <2>2. Over
    BY <1>1, <2>1 DEF SerialClaims
  <2>3. \A g \in Gens : pane[g] # "barrier" /\ pane[g] # "provider"
    BY <1>1, <2>2, SerialTypes DEF SInv, BarrierOnServer, LiveIsRecorded, Running, Missing, Over, Ended
  <2> QED BY <1>2, <2>3 DEF Empty, Missing
<1>5. SerialClaims(op[a])'
  BY <1>1, <1>2, <1>4 DEF SerialClaims, Relying, Launching, Marking, Continuations
<1> QED BY <1>1, <1>3, <1>5, QuieterKeepsSerial

\* The directory is created, or was in the way.
LEMMA SerialCreateDir ==
  ASSUME OneActor, RInv, PInv, SInv, NEW a \in Actors, CreateDir(a)
  PROVE  SInv'
<1>1. UNCHANGED registryVars /\ op[a].pc = "create_dir" /\ SerialClaims(op[a])
  BY DEF CreateDir, At, SInv
<1>2. /\ ws' = ws /\ rt' = rt /\ pane' = pane /\ hook' = hook /\ server' = server /\ ready' = ready
  BY <1>1 DEF registryVars, CreateDir
<1>3. Quieter /\ Moves(pane, hook, pane', hook') /\ BarrierOnServer'
  BY <1>2 DEF Quieter, Moves, SInv, BarrierOnServer
<1>4. op'[a].pc = "new_session" \/ (op'[a].pc = "kill" /\ op'[a].after = "mark_recovery")
  BY GoesTo, GoesThen DEF CreateDir, FailUnidentified
<1>5. Empty => Empty'
  BY <1>3, QuieterStaysEmpty
<1>6. SerialClaims(op[a])'
  BY <1>1, <1>2, <1>4, <1>5 DEF SerialClaims, Relying, Launching, Marking
<1> QED BY <1>1, <1>3, <1>6, QuieterKeepsSerial

\* The one pane is opened in an empty directory.
LEMMA SerialNewSession ==
  ASSUME OneActor, RInv, PInv, SInv, NEW a \in Actors, NewSession(a)
  PROVE  SInv'
<1>1. /\ UNCHANGED registryVars /\ op[a].pc = "new_session" /\ SerialClaims(op[a]) /\ op[a].rt.gen \in Gens
      /\ hook' = hook /\ ready' = ready
  BY DEF NewSession, At, SInv, RInv, ActorsOK, Holds, Launching
<1>2. /\ ws' = ws /\ rt' = rt /\ rt.proc = Null /\ rt.status = "starting" /\ ws.life # "parked" /\ Empty
  BY <1>1 DEF registryVars, SerialClaims, Launching, Relying, Marking
<1>3. CASE dir /\ Missing
  <2>1. /\ server' = op[a].rt.gen /\ pane' = [pane EXCEPT ![op[a].rt.gen] = "barrier"]
        /\ op'[a].pc = "probe_own"
    BY <1>3, GoesTo DEF NewSession
  <2>2. SerialClaims(op[a])'
    BY <1>2, <2>1 DEF SerialClaims, Relying, Launching, Marking
  <2>3. BarrierOnServer' /\ LiveIsRecorded' /\ ReleasedIsRecorded'
    BY <1>1, <1>2, <2>1, SerialTypes DEF BarrierOnServer, LiveIsRecorded, Running, ReleasedIsRecorded, Empty
  <2>4. NoRowIsEmpty' /\ ParkedIsEmpty'
    BY <1>2 DEF NoRowIsEmpty, ParkedIsEmpty
  <2> QED BY <2>2, <2>3, <2>4 DEF SInv, OneActor
<1>4. CASE ~(dir /\ Missing)
  <2>1. UNCHANGED execVars /\ UNCHANGED hook /\ op'[a].pc = "kill" /\ op'[a].after = "mark_recovery"
    BY <1>4, GoesThen DEF NewSession, FailUnidentified, execVars
  <2>2. SerialClaims(op[a])'
    BY <1>2, <2>1 DEF SerialClaims, Relying, Launching, Marking
  <2> QED BY <1>1, <2>1, <2>2, QuietKeepsSerial
<1> QED BY <1>3, <1>4

\* The barrier file appears once the process is recorded.
LEMMA SerialRelease ==
  ASSUME OneActor, RInv, PInv, SInv, NEW a \in Actors, Release(a)
  PROVE  SInv'
<1>1. /\ UNCHANGED registryVars /\ op[a].pc = "release" /\ SerialClaims(op[a])
      /\ dir' = dir /\ server' = server /\ pane' = pane /\ hook' = hook
  BY DEF Release, At, SInv
<1>2. /\ ws' = ws /\ rt' = rt /\ rt.proc # Null /\ rt.status # "none" /\ server \in {Null, rt.proc} /\ ws.life # "parked"
  BY <1>1 DEF registryVars, SerialClaims, Marking
<1>3. \/ op'[a].pc = "idle"
      \/ op'[a].pc = "stop_own" /\ op'[a].after = "mark_current"
  BY GoesTo, GoesThen DEF Release, Done
<1>4. SerialClaims(op[a])'
  BY <1>2, <1>3 DEF SerialClaims, Relying, Launching, Marking
<1>5. BarrierOnServer' /\ LiveIsRecorded' /\ ReleasedIsRecorded' /\ NoRowIsEmpty' /\ ParkedIsEmpty'
  BY <1>1, <1>2 DEF SInv, BarrierOnServer, LiveIsRecorded, Running, ReleasedIsRecorded, NoRowIsEmpty, ParkedIsEmpty
<1> QED BY <1>4, <1>5 DEF SInv, OneActor

-----------------------------------------------------------------------------

\* The barrier that consumes the file is the recorded process.
LEMMA SerialExec ==
  ASSUME OneActor, RInv, PInv, SInv, NEW g \in Gens, Exec(g)
  PROVE  SInv'
<1>1. /\ ws' = ws /\ rt' = rt /\ op' = op /\ server' = server /\ hook' = hook /\ ready /\ ~ready'
      /\ pane' = [pane EXCEPT ![g] = "provider"] /\ pane[g] = "barrier"
  BY DEF Exec, registryVars
<1>2. rt.proc = g /\ rt.status # "none" /\ server = g /\ ws.life # "parked" /\ ~Empty
  BY <1>1, SerialTypes DEF SInv, BarrierOnServer, ReleasedIsRecorded, ParkedIsEmpty, Empty
<1>3. BarrierOnServer' /\ LiveIsRecorded' /\ ReleasedIsRecorded' /\ NoRowIsEmpty' /\ ParkedIsEmpty'
  BY <1>1, <1>2, SerialTypes DEF SInv, BarrierOnServer, LiveIsRecorded, Running, ReleasedIsRecorded, NoRowIsEmpty, ParkedIsEmpty
<1>4. ASSUME NEW a \in Actors PROVE SerialClaims(op[a])'
  <2>1. SerialClaims(op[a]) /\ ~Over
    BY <1>1, <1>2, SerialTypes DEF SInv, Over, Ended
  <2> QED BY <1>1, <1>2, <2>1 DEF SerialClaims, Relying, Launching, Marking, Missing
<1> QED BY <1>3, <1>4 DEF SInv

\* The environment ends things.
LEMMA SerialEnds ==
  ASSUME OneActor, RInv, PInv, SInv, ServerLost \/ HookDrop \/ (\E g \in Gens : BarrierTimeout(g) \/ ProviderExit(g) \/ HookCheck(g))
  PROVE  SInv'
<1>1. UNCHANGED registryVars /\ op' = op
  BY DEF ServerLost, HookDrop, BarrierTimeout, ProviderExit, HookCheck
<1>2. Quieter /\ Moves(pane, hook, pane', hook') /\ BarrierOnServer'
  <2>1. CASE ServerLost
    BY <2>1, HangUpQuieter DEF ServerLost
  <2>2. CASE HookDrop \/ \E g \in Gens : HookCheck(g)
    BY <2>2 DEF HookDrop, HookCheck, execVars, Quieter, Moves, SInv, BarrierOnServer
  <2>3. ASSUME NEW g \in Gens, BarrierTimeout(g) \/ ProviderExit(g)
        PROVE  Quieter /\ Moves(pane, hook, pane', hook') /\ BarrierOnServer'
    <3>1. PICK end \in Ended : pane' = [pane EXCEPT ![g] = end]
      BY <2>3 DEF BarrierTimeout, ProviderExit, Ended
    <3>2. server' = server /\ ready' = ready /\ hook' = hook /\ pane[g] \in {"barrier", "provider"}
      BY <2>3 DEF BarrierTimeout, ProviderExit
    <3> QED BY <3>1, <3>2, SerialTypes DEF Quieter, Moves, SInv, BarrierOnServer, Ended
  <2> QED BY <2>1, <2>2, <2>3
<1>3. \A a \in Actors : SerialClaims(op[a])'
  BY <1>1, <1>2, QuieterKeepsClaims
<1>4. CASE Actors # {}
  BY <1>1, <1>2, <1>3, <1>4, QuieterKeepsSerial
<1>5. CASE Actors = {}
  <2>1. ws' = ws /\ rt' = rt
    BY <1>1 DEF registryVars
  <2>2. LiveIsRecorded' /\ ReleasedIsRecorded' /\ NoRowIsEmpty' /\ ParkedIsEmpty'
    BY <1>2, <2>1, QuieterStaysEmpty, GoneKept
    DEF SInv, LiveIsRecorded, Running, ReleasedIsRecorded, Quieter, NoRowIsEmpty, ParkedIsEmpty
  <2> QED BY <1>2, <1>3, <2>2 DEF SInv
<1> QED BY <1>4, <1>5

\* A hook writes the row of the recorded process.
LEMMA HookWrites ==
  ASSUME RInv, HookApply
  PROVE  /\ rt'.proc = rt.proc /\ rt.proc # Null /\ rt.status # "none" /\ rt'.status # "none"
         /\ ws'.life = ws.life \/ (ws.life = "recovery_required" /\ ws'.life = "open")
         /\ hook' \in {hook, NoHook} /\ op' = op /\ UNCHANGED execVars
         /\ hook # NoHook /\ hook.gen = rt.gen /\ ws'.archived = ws.archived
<1>1. /\ rt'.proc = rt.proc /\ rt.status # "none" /\ rt'.status # "none"
      /\ ws'.life = ws.life \/ (ws.life = "recovery_required" /\ ws'.life = "open")
      /\ hook.gen = rt.gen /\ hook # NoHook /\ ws'.archived = ws.archived
  BY DEF HookApply, Hook, HookSessionStart, InsertInitialBinding, RotateBinding, ClearSession,
         CompleteSessionStart, HookUserPromptSubmit, HookStop, HookSessionEnd, HookFence, RuntimeTo,
         TouchWorkstream, WorkstreamTo
<1>2. hook' \in {hook, NoHook} /\ op' = op /\ UNCHANGED execVars
  BY DEF HookApply
<1>3. rt.proc # Null
  BY <1>1 DEF RInv, HookHolds
<1> QED BY <1>1, <1>2, <1>3

\* A hook writes the row of a process that runs.
LEMMA SerialHook ==
  ASSUME OneActor, RInv, PInv, SInv, HookApply
  PROVE  SInv'
<1>1. /\ rt'.proc = rt.proc /\ rt.proc # Null /\ rt.status # "none" /\ rt'.status # "none"
      /\ ws'.life = ws.life \/ (ws.life = "recovery_required" /\ ws'.life = "open")
      /\ hook' \in {hook, NoHook} /\ op' = op /\ hook # NoHook /\ hook.gen = rt.gen
      /\ server' = server /\ ready' = ready /\ pane' = pane
  BY HookWrites DEF execVars
<1>2. ws'.life # "parked" /\ ws.life # "parked"
  BY <1>1 DEF PInv, ParkedIsUnheard
<1>3. BarrierOnServer' /\ LiveIsRecorded' /\ ReleasedIsRecorded' /\ NoRowIsEmpty' /\ ParkedIsEmpty'
  BY <1>1, <1>2 DEF SInv, BarrierOnServer, LiveIsRecorded, Running, ReleasedIsRecorded, NoRowIsEmpty, ParkedIsEmpty
<1>4. ASSUME NEW a \in Actors PROVE SerialClaims(op[a])'
  BY <1>1, <1>2 DEF SInv, SerialClaims, Over, Empty, Missing, Marking
<1> QED BY <1>3, <1>4 DEF SInv

-----------------------------------------------------------------------------

\* Every step of the actor keeps SInv.
LEMMA SerialAct ==
  ASSUME OneActor, RInv, PInv, SInv, NEW a \in Actors, Act(a)
  PROVE  SInv'
<1>1. CASE BeginStart(a) \/ BeginRecover(a) \/ BeginArchive(a) \/ BeginForget(a) \/ BeginAttach(a)
  BY <1>1, SerialBegin
<1>2. CASE Restore(a) \/ Reconcile(a)
  BY <1>2, SerialCatalog
<1>3. CASE Commit(a)
  BY <1>3, SerialCatalog, SerialForget
<1>4. CASE ReadRuntime(a) \/ Probe(a)
  BY <1>4, SerialRead, SerialProbe
<1>5. CASE TerminateRefused(a) \/ Reread(a) \/ ProbeOwn(a) \/ ProveGroup(a) \/ Evidence(a) \/ Recheck(a)
  BY <1>5, SerialReads
<1>6. CASE Terminate(a) \/ KillServer(a) \/ RemoveDir(a) \/ StopOwn(a)
  BY <1>6, SerialTerminate, SerialKill, SerialRemove, SerialStopOwn
<1>7. CASE MarkStoppedStep(a) \/ MarkRecoveryStep(a) \/ MarkCurrentStep(a)
  BY <1>7, SerialMarks
<1>8. CASE ParkCommit(a) \/ Reserve(a) \/ Record(a)
  BY <1>8, SerialPark, SerialReserve, SerialRecord
<1>9. CASE CreateDir(a) \/ NewSession(a) \/ Release(a)
  BY <1>9, SerialCreateDir, SerialNewSession, SerialRelease
<1> QED BY <1>1, <1>2, <1>3, <1>4, <1>5, <1>6, <1>7, <1>8, <1>9 DEF Act

\* Every step keeps SInv.
LEMMA SerialStep ==
  ASSUME OneActor, RInv, PInv, SInv, [RuntimeNext]_vars
  PROVE  SInv'
<1>1. ASSUME NEW a \in Actors, Act(a) PROVE SInv'
  BY <1>1, SerialAct
<1>2. CASE Environment
  BY <1>2, SerialExec, SerialEnds, SerialHook, SerialCrash DEF Environment
<1>3. CASE UNCHANGED vars
  BY <1>3 DEF vars, registryVars, execVars, SInv, BarrierOnServer, LiveIsRecorded, Running, ReleasedIsRecorded,
              NoRowIsEmpty, ParkedIsEmpty, Empty, Missing, SerialClaims, Over, Marking
<1> QED BY <1>1, <1>2, <1>3 DEF RuntimeNext

\* Nothing is launched at first.
LEMMA SerialStart ==
  ASSUME RuntimeInit
  PROVE  SInv
<1>1. /\ rt.status = "none" /\ rt.proc = Null /\ ws.life = "open" /\ ~ready /\ server = Null
      /\ \A g \in Gens : pane[g] = "none"
      /\ \A a \in Actors : op[a].pc = "idle"
  BY DEF RuntimeInit, Init, NoRuntime, Idle
<1>2. \A a \in Actors : SerialClaims(op[a])
  BY <1>1 DEF SerialClaims, Relying, Launching, Marking
<1> QED
  BY <1>1, <1>2 DEF SInv, BarrierOnServer, LiveIsRecorded, Running, ReleasedIsRecorded, NoRowIsEmpty, ParkedIsEmpty,
                    Empty, Missing

\* The inductive invariant of a single process.
LEMMA SerialInvariant ==
  ASSUME OneActor
  PROVE  RuntimeSpec => []SInv
<1>1. RuntimeInit => SInv
  BY SerialStart
<1>2. RInv /\ PInv /\ SInv /\ [RuntimeNext]_vars => SInv'
  BY SerialStep
<1> QED BY <1>1, <1>2, RuntimeInvariant, ParkingInvariant, PTL DEF RuntimeSpec

\* With one action at a time a provider never runs unless the registry records
\* its fingerprint, so a later action can find and stop it: whatever crash,
\* lost server, timeout, surviving provider or hook came in between (actions/
\* start.rs, recovery.rs, and the launch barrier).
THEOREM LiveIsRecordedHolds ==
  ASSUME OneActor
  PROVE  RuntimeSpec => []LiveIsRecorded
BY SerialInvariant, PTL DEF SInv

\* With one action at a time a parked Workstream has no provider and a stopped
\* Runtime or none, so opening it again starts the only one.
THEOREM ParkedIsQuietHolds ==
  ASSUME OneActor
  PROVE  RuntimeSpec => []ParkedIsQuiet
<1>1. SInv /\ PInv => ParkedIsQuiet
  BY DEF SInv, PInv, ParkedIsEmpty, ParkedIsUnheard, ParkedIsQuiet, Running, Empty
<1> QED BY <1>1, SerialInvariant, ParkingInvariant, PTL

-----------------------------------------------------------------------------
(* The refinement of WorkstreamPromise.                                    *)

PromiseStepOK == [Promise!PromiseNext]_(Promise!promiseVars)

\* A step that changes neither what is promised nor who runs, or ends all.
LEMMA PromiseStutters ==
  ASSUME ws'.life = ws.life, ws'.archived = ws.archived, Running' = Running \/ Running' = {}
  PROVE  PromiseStepOK
BY DEF PromiseStepOK, Promise!PromiseNext, Promise!promiseVars, Promise!End

\* At most the recorded process runs, so whatever ends a process ends all.
LEMMA QuieterEnds ==
  ASSUME SInv, Quieter
  PROVE  Running' = Running \/ Running' = {}
<1>1. Running \subseteq {rt.proc}
  BY DEF SInv, LiveIsRecorded
<1>2. Running' \subseteq Running
  BY DEF Quieter, Running
<1> QED BY <1>1, <1>2

\* Nothing runs in an empty directory.
LEMMA EmptyRuns ==
  ASSUME Empty
  PROVE  Running = {}
BY DEF Empty, Running

\* The steps that move only the actor, or end things.
LEMMA PromiseQuiet ==
  ASSUME RInv, PInv, SInv, NEW a \in Actors,
         \/ BeginStart(a) \/ BeginRecover(a) \/ BeginArchive(a) \/ BeginForget(a) \/ BeginAttach(a)
         \/ ReadRuntime(a) \/ Probe(a) \/ TerminateRefused(a) \/ Reread(a) \/ ProbeOwn(a) \/ ProveGroup(a)
         \/ Evidence(a) \/ Recheck(a) \/ CreateDir(a) \/ Release(a) \/ Crash(a) \/ Restart(a) \/ RemoveDir(a)
  PROVE  PromiseStepOK
<1>1. ws' = ws /\ pane' = pane
  BY DEF BeginStart, BeginRecover, BeginArchive, BeginForget, BeginAttach, ReadRuntime, Probe, TerminateRefused,
         Reread, ProbeOwn, ProveGroup, Evidence, Recheck, CreateDir, Release, Crash, Restart, RemoveDir,
         registryVars, execVars
<1> QED BY <1>1, PromiseStutters DEF Running

\* A stop ends what runs.
LEMMA PromiseStops ==
  ASSUME RInv, PInv, SInv, NEW a \in Actors, Terminate(a) \/ StopOwn(a) \/ KillServer(a)
  PROVE  PromiseStepOK
<1>1. ws' = ws
  BY DEF Terminate, StopOwn, KillServer, registryVars
<1>2. Quieter
  <2>1. CASE Terminate(a) \/ KillServer(a)
    BY <2>1, TerminateQuieter, HangUpQuieter DEF Terminate, KillServer
  <2>2. CASE StopOwn(a)
    BY <2>2, TerminateQuieter DEF StopOwn, execVars, Quieter
  <2> QED BY <2>1, <2>2
<1> QED BY <1>1, <1>2, QuieterEnds, PromiseStutters

\* A new pane runs the barrier.
LEMMA PromiseLaunches ==
  ASSUME RInv, PInv, SInv, NEW a \in Actors, NewSession(a)
  PROVE  PromiseStepOK
<1>1. ws' = ws /\ Empty /\ op[a].rt.gen \in Gens
  BY DEF NewSession, registryVars, SInv, SerialClaims, At, Relying, RInv, ActorsOK, Holds, Launching
<1>2. Running' = {}
  BY <1>1, SerialTypes DEF NewSession, Running, Empty
<1> QED BY <1>1, <1>2, PromiseStutters

\* A mark loses the evidence of an open Workstream.
LEMMA PromiseMarks ==
  ASSUME RInv, PInv, SInv, NEW a \in Actors, MarkStoppedStep(a) \/ MarkRecoveryStep(a) \/ MarkCurrentStep(a)
  PROVE  PromiseStepOK
<1>1. Running' = Running
  BY DEF MarkStoppedStep, MarkRecoveryStep, MarkCurrentStep, execVars, Running
<1>2. \/ ws' = ws
      \/ /\ ws.life \in {"open", "parked"} /\ ws'.life = "recovery_required" /\ ws'.archived = ws.archived
         /\ op[a].pc \in {"mark_recovery", "mark_current"}
  BY DEF MarkStoppedStep, MarkRecoveryStep, MarkCurrentStep, Attempt, MarkStopped, MarkRecoveryRequired, WorkstreamTo,
         registryVars, At
<1>3. op[a].pc \in {"mark_recovery", "mark_current"} => ws.life # "parked"
  BY DEF SInv, SerialClaims, Marking
<1>4. CASE ws' = ws
  BY <1>1, <1>4, PromiseStutters
<1>5. CASE ws' # ws
  BY <1>1, <1>2, <1>3, <1>5 DEF PromiseStepOK, Promise!PromiseNext, Promise!Lose
<1> QED BY <1>4, <1>5

\* The catalog changes as promised, and hides nothing that runs.
LEMMA PromiseCatalog ==
  ASSUME RInv, PInv, SInv, NEW a \in Actors, Reconcile(a) \/ Restore(a) \/ Commit(a)
  PROVE  PromiseStepOK
<1>1. Running' = Running
  BY DEF Reconcile, Restore, Commit, execVars, Running
<1>2. Commit(a) => Running = {}
  BY EmptyRuns DEF Commit, At, SInv, SerialClaims, Relying
<1>3. CASE ws' = ws
  BY <1>1, <1>3, PromiseStutters
<1>4. CASE Reconcile(a) /\ ws' # ws
  <2>1. ws.life = "recovery_required" /\ ws'.life = "open" /\ ws'.archived = ws.archived
    BY <1>4 DEF Reconcile, Attempt, ReconcileRecovery, RecoveryBindingAt, WorkstreamTo, registryVars
  <2> QED BY <1>1, <2>1 DEF PromiseStepOK, Promise!PromiseNext, Promise!Recovered
<1>5. CASE Restore(a)
  <2>1. ws.life # "gone" /\ ws.archived /\ ws'.archived = FALSE
        /\ ws'.life = IF ws.life = "parked" THEN "open" ELSE ws.life
    BY <1>5 DEF Restore, RestoreWorkstream, WorkstreamAt
  <2> QED BY <1>1, <2>1 DEF PromiseStepOK, Promise!PromiseNext, Promise!Restore
<1>6. CASE Commit(a) /\ op[a].goal = "archive" /\ ws' # ws
  <2>1. ws.life # "gone" /\ ~ws.archived /\ ws'.archived = TRUE /\ ws'.life = ws.life
    BY <1>6 DEF Commit, Attempt, ArchiveWorkstream, WorkstreamAt, registryVars
  <2> QED BY <1>1, <1>2, <1>6, <2>1 DEF PromiseStepOK, Promise!PromiseNext, Promise!Archive
<1>7. CASE Commit(a) /\ op[a].goal # "archive" /\ ws' # ws
  <2>1. ws.life # "gone" /\ ws.archived /\ ws'.life = "gone" /\ ws'.archived = ws.archived
    BY <1>7 DEF Commit, Attempt, ForgetWorkstream, WorkstreamAt, WorkstreamTo, registryVars
  <2> QED BY <1>1, <1>2, <1>7, <2>1 DEF PromiseStepOK, Promise!PromiseNext, Promise!Forget
<1> QED BY <1>3, <1>4, <1>5, <1>6, <1>7

\* A park, and the reopening of a parked Workstream, find nothing running.
LEMMA PromiseParks ==
  ASSUME RInv, IInv, PInv, SInv, NEW a \in Actors, ParkCommit(a) \/ Reserve(a)
  PROVE  PromiseStepOK
<1>1. Running' = Running /\ Running = {}
  BY EmptyRuns DEF ParkCommit, Reserve, At, SInv, SerialClaims, Relying, execVars, Running
<1>2. CASE ws'.life = ws.life /\ ws'.archived = ws.archived
  BY <1>1, <1>2, PromiseStutters
<1>3. CASE ParkCommit(a) /\ RuntimeAt(op[a].rt.rev)
  <2>1. ws.life # "gone" /\ ws'.life = "parked" /\ ws'.archived = ws.archived
    BY <1>3 DEF ParkCommit, Attempt, ParkRuntime, RuntimeAt, WorkstreamTo, IInv, RowsBelong
  <2> QED BY <1>1, <2>1 DEF PromiseStepOK, Promise!PromiseNext, Promise!Park
<1>4. CASE ParkCommit(a) /\ ~RuntimeAt(op[a].rt.rev)
  BY <1>2, <1>4 DEF ParkCommit, Attempt, registryVars
<1>5. CASE Reserve(a) /\ ReserveRuntime
  <2>1. ws.life \in {"open", "parked"} /\ ws'.life = "open" /\ ws'.archived = ws.archived
    BY <1>5 DEF ReserveRuntime, Reservable, WorkstreamTo
  <2> QED BY <1>1, <1>2, <2>1 DEF PromiseStepOK, Promise!PromiseNext, Promise!Reopen
<1>6. CASE Reserve(a) /\ ~ReserveRuntime
  <2>1. ws'.life = ws.life /\ ws'.archived = ws.archived
    BY <1>6 DEF Reserve, ReserveRecovery, TouchWorkstream, WorkstreamTo, registryVars
  <2> QED BY <1>2, <2>1
<1> QED BY <1>3, <1>4, <1>5, <1>6

\* A record changes nothing that is promised.
LEMMA PromiseRecords ==
  ASSUME RInv, PInv, SInv, NEW a \in Actors, Record(a)
  PROVE  PromiseStepOK
<1>1. ws' = ws /\ Running' = Running
  BY DEF Record, RecordIdentity, registryVars, execVars, Running
<1> QED BY <1>1, PromiseStutters

\* A barrier becomes the only provider, of an open or recovering Workstream.
LEMMA PromiseExec ==
  ASSUME RInv, IInv, PInv, SInv, NEW g \in Gens, Exec(g)
  PROVE  PromiseStepOK
<1>1. /\ ws' = ws /\ ready /\ pane' = [pane EXCEPT ![g] = "provider"] /\ pane[g] = "barrier"
  BY DEF Exec, registryVars
<1>2. rt.proc = g /\ rt.status # "none" /\ ws.life # "parked"
  BY <1>1, SerialTypes DEF SInv, BarrierOnServer, ReleasedIsRecorded, ParkedIsEmpty, Empty
<1>3. ws.life \in {"open", "recovery_required"}
  BY <1>2 DEF IInv, RowsBelong, TypeOK, WorkstreamRow, WorkstreamLifecycle
<1>4. Running = {} /\ Running' = {g}
  BY <1>1, <1>2, SerialTypes DEF SInv, LiveIsRecorded, Running
<1> QED BY <1>1, <1>3, <1>4 DEF PromiseStepOK, Promise!PromiseNext, Promise!Launch

\* The environment launches the recorded process, or ends what runs.
LEMMA PromiseEnvironment ==
  ASSUME RInv, IInv, PInv, SInv, Environment
  PROVE  PromiseStepOK
<1>1. CASE \E g \in Gens : Exec(g)
  BY <1>1, PromiseExec
<1>2. ASSUME NEW g \in Gens, BarrierTimeout(g) \/ ProviderExit(g)
      PROVE  PromiseStepOK
  <2>1. ws' = ws /\ server' = server /\ ready' = ready
    BY <1>2 DEF BarrierTimeout, ProviderExit, registryVars
  <2>2. PICK end \in Ended : pane' = [pane EXCEPT ![g] = end]
    BY <1>2 DEF BarrierTimeout, ProviderExit, Ended
  <2>3. Quieter
    BY <2>1, <2>2, SerialTypes DEF Quieter, Ended
  <2> QED BY <2>1, <2>3, QuieterEnds, PromiseStutters
<1>3. CASE HookDrop \/ \E g \in Gens : HookCheck(g)
  BY <1>3, PromiseStutters DEF HookDrop, HookCheck, registryVars, execVars, Running
<1>4. CASE ServerLost
  <2>1. Quieter /\ ws' = ws
    BY <1>4, HangUpQuieter DEF ServerLost, registryVars
  <2> QED BY <2>1, QuieterEnds, PromiseStutters
<1>5. CASE HookApply
  <2>1. /\ ws'.life = ws.life \/ (ws.life = "recovery_required" /\ ws'.life = "open")
        /\ ws'.archived = ws.archived /\ Running' = Running
    BY <1>5, HookWrites DEF execVars, Running
  <2>2. CASE ws'.life = ws.life
    BY <2>1, <2>2, PromiseStutters
  <2>3. CASE ws'.life # ws.life
    BY <2>1, <2>3 DEF PromiseStepOK, Promise!PromiseNext, Promise!Recovered
  <2> QED BY <2>2, <2>3
<1>6. ASSUME NEW a \in Actors, Crash(a) \/ Restart(a) PROVE PromiseStepOK
  BY <1>6, PromiseQuiet
<1> QED BY <1>1, <1>2, <1>3, <1>4, <1>5, <1>6 DEF Environment

\* Every step is one of WorkstreamPromise, or changes nothing it speaks of.
LEMMA PromiseStep ==
  ASSUME RInv, IInv, PInv, SInv, [RuntimeNext]_vars
  PROVE  PromiseStepOK
<1>1. ASSUME NEW a \in Actors, Act(a) PROVE PromiseStepOK
  BY <1>1, PromiseQuiet, PromiseStops, PromiseLaunches, PromiseMarks, PromiseCatalog, PromiseParks, PromiseRecords
  DEF Act
<1>2. CASE UNCHANGED vars
  BY <1>2, PromiseStutters DEF vars, registryVars, execVars, Running
<1> QED BY <1>1, <1>2, PromiseEnvironment DEF RuntimeNext

\* The promise holds at first.
LEMMA PromiseStart ==
  ASSUME RuntimeInit
  PROVE  Promise!PromiseInit
BY DEF RuntimeInit, Init, Promise!PromiseInit, Running

\* With one action at a time the Runtime actions implement WorkstreamPromise:
\* one provider at most, launched only where none runs; a park, an archive and
\* a forget only when nothing runs; and no step from parked to running but
\* through open, across every crash and failure (src/actions).
THEOREM PromiseKeptHolds ==
  ASSUME OneActor
  PROVE  RuntimeSpec => PromiseKept
<1>1. RuntimeInit => Promise!PromiseInit
  BY PromiseStart
<1>2. RInv /\ IInv /\ PInv /\ SInv /\ [RuntimeNext]_vars => [Promise!PromiseNext]_(Promise!promiseVars)
  BY PromiseStep DEF PromiseStepOK
<1> QED
  BY <1>1, <1>2, RuntimeInvariant, ParkingInvariant, SerialInvariant, PTL DEF RuntimeSpec, PromiseKept, Promise!PromiseSpec

\* One action at a time runs at most one provider.  The run one_provider, in
\* which two providers run, therefore shows a race and nothing else.
THEOREM OneProviderAlone ==
  ASSUME OneActor
  PROVE  RuntimeSpec => []OneProvider
<1>1. ASSUME LiveIsRecorded PROVE OneProvider
  <2>1. Running = {} \/ Running = {rt.proc}
    BY <1>1 DEF LiveIsRecorded, Running
  <2>2. Cardinality({}) = 0 /\ Cardinality({rt.proc}) = 1
    BY FS_EmptySet, FS_Singleton
  <2> QED BY <2>1, <2>2 DEF OneProvider
<1> QED BY <1>1, LiveIsRecordedHolds, PTL

\* Nor does one action at a time archive a Workstream whose provider runs:
\* what the run archive_race shows takes a second process.
THEOREM ArchiveHidesNothingAlone ==
  ASSUME OneActor
  PROVE  RuntimeSpec => ArchiveHidesNothing
<1>1. ASSUME PromiseStepOK PROVE ~ws.archived /\ ws'.archived => Running' = {}
  BY <1>1 DEF PromiseStepOK, Promise!PromiseNext, Promise!promiseVars, Promise!Launch, Promise!End, Promise!Reopen,
              Promise!Park, Promise!Lose, Promise!Recovered, Promise!Archive, Promise!Restore, Promise!Forget
<1>2. RInv /\ IInv /\ PInv /\ SInv /\ [RuntimeNext]_vars => [~ws.archived /\ ws'.archived => Running' = {}]_vars
  BY <1>1, PromiseStep
<1> QED
  BY <1>2, RuntimeInvariant, ParkingInvariant, SerialInvariant, PTL DEF RuntimeSpec, ArchiveHidesNothing

-----------------------------------------------------------------------------
(* Two processes, whose servers are not lost.  A launcher identifies its   *)
(* pane by probing the socket that all generations share, and compares     *)
(* only the revision of its row when it records what it found.  While that *)
(* revision is current the socket holds the launcher's own pane or nothing *)
(* -- and as long as an older launch has yet to open its pane, it holds    *)
(* the launcher's own: to clear the socket for the older launch takes a    *)
(* third process.                                                          *)

\* At most two processes run actions.
TwoActors == \A a, b, c \in Actors : a = b \/ b = c \/ a = c

\* A launcher that has opened its session and whose row is still current.
Identifying(o) == /\ o.pc \in {"probe_own", "prove_group", "record"}
                  /\ rt.status # "none" /\ o.rt.rev = rt.rev

\* What is on the socket, and what a current launcher took for its pane.
OwnPane(b) ==
  /\ server \in {Null, rt.gen}
  /\ op[b].pc # "probe_own" => op[b].proc = rt.gen
  /\ \A c \in Actors : c # b /\ op[c].pc \in Opening => server = rt.gen

OwnInv == RecordedIsOwn /\ \A b \in Actors : Identifying(op[b]) => OwnPane(b)

\* What a current launcher holds is the current row, without a process.
LEMMA IdentifyingTypes ==
  ASSUME RInv, NEW b \in Actors, Identifying(op[b])
  PROVE  op[b].rt = rt /\ rt.gen \in Gens /\ rt.gen # Null /\ rt.proc = Null /\ rt.status = "starting"
BY SerialTypes DEF Identifying, RInv, ActorsOK, Holds, Launching

\* A row whose revision a launcher still holds was not written.
LEMMA CurrentIsKept ==
  ASSUME RInv, RowStep, NEW b \in Actors, op'[b].rt = op[b].rt, rt'.status # "none", op'[b].rt.rev = rt'.rev
  PROVE  rt' = rt
<1>1. op[b].rt.rev <= rt.rev /\ op[b].rt.rev \in Nat /\ rt.rev \in Nat /\ rt'.rev \in Nat
  BY SerialTypes, RevisionStep DEF RInv, ActorsOK, Holds, ActorState, RuntimeRow
<1> QED BY <1>1 DEF RowStep, Succeeds

\* Who changes what the socket holds.
LEMMA SocketMoves ==
  ASSUME RInv, NEW a \in Actors, Act(a)
  PROVE  \/ server' = server
         \/ server' = Null /\ op[a].pc \in {"kill", "remove_dir"}
         \/ NewSession(a) /\ Missing
<1>1. CASE Terminate(a) \/ KillServer(a) \/ RemoveDir(a) \/ StopOwn(a)
  BY <1>1 DEF Terminate, TerminateGroup, KillServer, HangUp, RemoveDir, StopOwn, At, execVars
<1>2. CASE NewSession(a)
  BY <1>2 DEF NewSession
<1>3. CASE ~(Terminate(a) \/ KillServer(a) \/ RemoveDir(a) \/ StopOwn(a) \/ NewSession(a))
  BY <1>3 DEF Act, BeginStart, BeginRecover, BeginArchive, BeginForget, BeginAttach, Restore, ReadRuntime, Probe,
              TerminateRefused, MarkStoppedStep, MarkRecoveryStep, MarkCurrentStep, ParkCommit, Reread, Commit,
              Reserve, CreateDir, ProbeOwn, ProveGroup, Record, Release, Evidence, Reconcile, Recheck, execVars
<1> QED BY <1>1, <1>2, <1>3

\* The actor that acts leaves the others alone.
LEMMA OthersStand ==
  ASSUME RInv, NEW a \in Actors, Act(a), NEW b \in Actors, b # a
  PROVE  op'[b] = op[b]
<1>1. op \in [Actors -> ActorState]
  BY SerialTypes
<1>2. ASSUME NEW pc, NEW after, Goto(a, pc) \/ GotoThen(a, pc, after) \/ Done(a)
      PROVE  op'[b] = op[b]
  BY <1>1, <1>2 DEF Goto, GotoThen, Done
<1>3. ASSUME NEW goal, NEW pc, NEW runtime, Enter(a, goal, pc, runtime)
      PROVE  op'[b] = op[b]
  BY <1>1, <1>3 DEF Enter
<1>4. CASE BeginStart(a) \/ BeginRecover(a) \/ BeginArchive(a) \/ BeginForget(a) \/ BeginAttach(a) \/ Restore(a)
  BY <1>3, <1>4 DEF BeginStart, BeginRecover, BeginArchive, BeginForget, BeginAttach, Restore
<1>5. CASE ReadRuntime(a) \/ Reread(a) \/ Evidence(a) \/ ProbeOwn(a) \/ Reserve(a)
  BY <1>1, <1>2, <1>5 DEF ReadRuntime, Reread, Evidence, ProbeOwn, Reserve, FailUnidentified
<1>6. CASE Probe(a) \/ Terminate(a) \/ TerminateRefused(a) \/ KillServer(a) \/ RemoveDir(a) \/ StopOwn(a) \/ Recheck(a)
  BY <1>2, <1>6 DEF Probe, Terminate, TerminateRefused, KillServer, RemoveDir, StopOwn, Recheck
<1>7. CASE MarkStoppedStep(a) \/ MarkRecoveryStep(a) \/ MarkCurrentStep(a) \/ ParkCommit(a) \/ Commit(a) \/ Reconcile(a)
  BY <1>2, <1>7 DEF MarkStoppedStep, MarkRecoveryStep, MarkCurrentStep, ParkCommit, Commit, Reconcile, Attempt
<1>8. CASE CreateDir(a) \/ NewSession(a) \/ ProveGroup(a) \/ Record(a) \/ Release(a)
  BY <1>2, <1>8 DEF CreateDir, NewSession, ProveGroup, Record, Release, FailUnidentified
<1> QED BY <1>4, <1>5, <1>6, <1>7, <1>8 DEF Act

\* How an actor comes to launch.
LEMMA LaunchMoves ==
  ASSUME RInv, NEW a \in Actors, Act(a), op'[a].pc \in Launching
  PROVE  \/ Reserve(a) /\ rt' = FreshRuntime
         \/ Restore(a) /\ op' = op
         \/ CreateDir(a) \/ NewSession(a) \/ ProbeOwn(a) \/ ProveGroup(a)
<1>1. op \in [Actors -> ActorState] /\ op[a] \in ActorState /\ op[a].after \notin Launching
  BY SerialTypes DEF RInv, ActorsOK, Holds
<1>2. CASE BeginStart(a) \/ BeginRecover(a) \/ BeginArchive(a) \/ BeginForget(a) \/ BeginAttach(a)
  BY <1>2, EnterGoes DEF BeginStart, BeginRecover, BeginArchive, BeginForget, BeginAttach, Launching
<1>3. CASE ReadRuntime(a) \/ Reread(a) \/ Evidence(a)
  <2>1. op'[a].pc \in {"probe", "reserve", "idle", "commit", "reconcile"}
    <3>1. CASE ReadRuntime(a)
      BY <1>1, <3>1 DEF ReadRuntime, Idle, ActorState
    <3>2. CASE Reread(a)
      BY <1>1, <3>2 DEF Reread, Idle, ActorState
    <3>3. CASE Evidence(a)
      BY <1>1, <3>3, GoesTo DEF Evidence, Done, ActorState
    <3> QED BY <1>3, <3>1, <3>2, <3>3
  <2> QED BY <2>1 DEF Launching
<1>4. CASE Probe(a)
  BY <1>4, VerdictMeans, GoesTo, GoesThen DEF Probe, Launching
<1>5. CASE Terminate(a) \/ TerminateRefused(a) \/ KillServer(a) \/ RemoveDir(a) \/ StopOwn(a) \/ Recheck(a)
  BY <1>1, <1>5, GoesTo, GoesThen
     DEF Terminate, TerminateRefused, KillServer, RemoveDir, StopOwn, Recheck, Done, Launching
<1>6. CASE MarkStoppedStep(a) \/ MarkRecoveryStep(a) \/ MarkCurrentStep(a) \/ ParkCommit(a) \/ Commit(a) \/ Reconcile(a)
  BY <1>6, GoesTo
     DEF MarkStoppedStep, MarkRecoveryStep, MarkCurrentStep, ParkCommit, Commit, Reconcile, Attempt, Done, Launching
<1>7. CASE Record(a) \/ Release(a)
  BY <1>7, GoesTo, GoesThen DEF Record, Release, Done, Launching
<1>8. CASE Reserve(a)
  BY <1>8, GoesTo DEF Reserve, ReserveRuntime, ReserveRecovery, Done, Launching
<1>9. CASE Restore(a)
  BY <1>9 DEF Restore
<1> QED BY <1>2, <1>3, <1>4, <1>5, <1>6, <1>7, <1>8, <1>9 DEF Act

\* A recorded process is dropped with its generation only.
LEMMA RecordingMoves ==
  ASSUME RInv, RuntimeNext
  PROVE  \/ rt'.proc = Null
         \/ rt'.proc = rt.proc /\ rt'.gen = rt.gen
         \/ \E a \in Actors : /\ op[a].pc = "record" /\ Identifying(op[a])
                              /\ rt'.proc = op[a].proc /\ rt'.gen = rt.gen
<1>1. rt \in RuntimeRow
  BY SerialTypes
<1>2. ASSUME NEW a \in Actors, Record(a)
      PROVE  \/ rt' = rt
             \/ /\ op[a].pc = "record" /\ Identifying(op[a])
                /\ rt'.proc = op[a].proc /\ rt'.gen = rt.gen
  BY <1>2 DEF Record, At, RuntimeAt, Identifying, RecordIdentity, registryVars
<1>3. ASSUME NEW a \in Actors, Act(a), ~Record(a)
      PROVE  rt'.proc = Null \/ (rt'.proc = rt.proc /\ rt'.gen = rt.gen)
  <2>1. CASE ParkCommit(a)
    BY <2>1 DEF ParkCommit, Attempt, ParkRuntime, RuntimeTo, registryVars
  <2>2. CASE Reserve(a)
    BY <2>2 DEF Reserve, ReserveRuntime, ReserveRecovery, FreshRuntime, registryVars
  <2>3. CASE MarkStoppedStep(a) \/ MarkRecoveryStep(a) \/ MarkCurrentStep(a)
    BY <2>3 DEF MarkStoppedStep, MarkRecoveryStep, MarkCurrentStep, Attempt, MarkStopped,
                MarkRecoveryRequired, RuntimeTo, registryVars
  <2>4. CASE Commit(a) \/ Restore(a) \/ Reconcile(a)
    BY <1>1, <2>4 DEF Commit, Restore, Reconcile, Attempt, ArchiveWorkstream, RestoreWorkstream,
                ForgetWorkstream, ReconcileRecovery, registryVars, RuntimeRow
  <2>5. CASE \/ BeginStart(a) \/ BeginRecover(a) \/ BeginArchive(a) \/ BeginForget(a)
             \/ BeginAttach(a) \/ ReadRuntime(a) \/ Probe(a) \/ Terminate(a)
             \/ TerminateRefused(a) \/ KillServer(a) \/ RemoveDir(a) \/ Reread(a)
    BY <2>5 DEF BeginStart, BeginRecover, BeginArchive, BeginForget, BeginAttach, ReadRuntime,
                Probe, Terminate, TerminateRefused, KillServer, RemoveDir, Reread, registryVars
  <2>6. CASE \/ CreateDir(a) \/ NewSession(a) \/ ProbeOwn(a) \/ ProveGroup(a) \/ Release(a)
             \/ StopOwn(a) \/ Evidence(a) \/ Recheck(a)
    BY <2>6 DEF CreateDir, NewSession, ProbeOwn, ProveGroup, Release, StopOwn, Evidence, Recheck,
                registryVars
  <2> QED BY <1>3, <2>1, <2>2, <2>3, <2>4, <2>5, <2>6 DEF Act
<1>4. CASE Environment
  BY <1>4
     DEF Environment, Exec, BarrierTimeout, ProviderExit, HookCheck, ServerLost, HookDrop,
         Crash, Restart, HookApply, Hook, HookSessionStart, InsertInitialBinding, RotateBinding,
         ClearSession, CompleteSessionStart, HookUserPromptSubmit, HookStop, HookSessionEnd,
         RuntimeTo, registryVars
<1> QED BY <1>2, <1>3, <1>4 DEF RuntimeNext

\* What is recorded is the pane of the recorded generation.
LEMMA RecordsOwn ==
  ASSUME RInv, OwnInv, RuntimeNext
  PROVE  RecordedIsOwn'
BY RecordingMoves DEF OwnInv, OwnPane, RecordedIsOwn

\* A current launcher is not disturbed by the other process.
LEMMA OwnPaneStands ==
  ASSUME TwoActors, RInv, RowStep, OwnInv, NEW a \in Actors, Act(a),
         NEW b \in Actors, op'[b] = op[b], Identifying(op[b])'
  PROVE  OwnPane(b)'
<1>1. rt' = rt /\ Identifying(op[b])
  BY CurrentIsKept DEF Identifying
<1>2. OwnPane(b) /\ rt.gen # Null /\ rt.gen \in Gens
  BY <1>1, IdentifyingTypes DEF OwnInv
<1>3. op[b].pc \notin {"kill", "remove_dir"} /\ op[b].pc \notin Opening
  BY <1>1 DEF Identifying, Opening
<1>4. CASE server' = server
  <2>1. ASSUME NEW c \in Actors, c # b, op'[c].pc \in Opening PROVE server = rt.gen
    <3>1. CASE op[c].pc \in Opening
      BY <1>2, <2>1, <3>1 DEF OwnPane
    <3>2. CASE op[c].pc \notin Opening
      <4>1. c = a /\ op'[a].pc \in Launching
        BY <2>1, <3>2, OthersStand DEF Opening, Launching
      <4>2. ~Restore(a) \/ op' # op
        BY <2>1, <3>2, <4>1
      <4>3. ~(Reserve(a) /\ rt' = FreshRuntime)
        <5>1. FreshRuntime.rev = rt.rev + 1 /\ rt.rev \in Nat
          BY SerialTypes DEF FreshRuntime, RuntimeRow
        <5> QED BY <1>1, <5>1
      <4>4. ~CreateDir(a) /\ ~NewSession(a)
        BY <3>2, <4>1 DEF CreateDir, NewSession, At, Opening
      <4>5. ~ProbeOwn(a) /\ ~ProveGroup(a)
        BY <2>1, <4>1, GoesTo, GoesThen, SerialTypes
        DEF ProbeOwn, ProveGroup, FailUnidentified, Opening, ActorState
      <4> QED BY <4>1, <4>2, <4>3, <4>4, <4>5, LaunchMoves
    <3> QED BY <3>1, <3>2
  <2> QED BY <1>1, <1>2, <1>4, <2>1 DEF OwnPane
<1>5. CASE server' = Null /\ op[a].pc \in {"kill", "remove_dir"}
  <2>1. a # b
    BY <1>3, <1>5
  <2>2. op'[a].pc \notin Opening
    BY <1>5, LaunchMoves
       DEF Reserve, CreateDir, NewSession, ProbeOwn, ProveGroup, At, Opening, Launching
  <2>3. ASSUME NEW c \in Actors, c # b PROVE op'[c].pc \notin Opening
    BY <2>1, <2>2, <2>3 DEF TwoActors
  <2> QED BY <1>1, <1>2, <1>5, <2>3 DEF OwnPane
<1>6. CASE NewSession(a) /\ Missing
  <2>1. a # b /\ op[a].pc \in Opening
    BY <1>3, <1>6 DEF NewSession, At, Opening
  <2> QED BY <1>2, <1>6, <2>1 DEF OwnPane, Missing
<1> QED BY <1>4, <1>5, <1>6, SocketMoves

\* A launcher finds its own pane on the socket, or nothing.
LEMMA OwnPaneFound ==
  ASSUME RInv, RowStep, OwnInv, NEW a \in Actors, Act(a), Identifying(op[a])', op'[a] # op[a]
  PROVE  OwnPane(a)'
<1>1. op[a] \in ActorState /\ op'[a].pc \in {"probe_own", "prove_group", "record"}
  BY SerialTypes DEF Identifying
<1>2. NewSession(a) \/ ProbeOwn(a) \/ ProveGroup(a)
  <2>1. ~CreateDir(a)
    BY <1>1, GoesTo, GoesThen DEF CreateDir, FailUnidentified
  <2>2. ~(Reserve(a) /\ rt' = FreshRuntime)
    BY <1>1, SerialTypes, GoesTo DEF Reserve, ActorState, Done
  <2> QED BY <1>1, <2>1, <2>2, LaunchMoves DEF Launching
<1>3. CASE NewSession(a)
  <2>1. op'[a].pc = "probe_own" /\ op'[a].rt = op[a].rt /\ server' = op[a].rt.gen /\ op[a].pc = "new_session"
    BY <1>1, <1>3, GoesTo, GoesThen DEF NewSession, FailUnidentified, At
  <2>2. rt' = rt /\ op[a].rt = rt
    BY <2>1, CurrentIsKept DEF Identifying, RInv, ActorsOK, Holds
  <2> QED BY <2>1, <2>2 DEF OwnPane
<1>4. CASE ProbeOwn(a)
  <2>1. /\ op'[a].pc = "prove_group" /\ op'[a].proc = server /\ op'[a].rt = op[a].rt /\ server # Null
        /\ op[a].pc = "probe_own" /\ UNCHANGED rt /\ server' = server
        /\ \A c \in Actors : c # a => op'[c] = op[c]
    BY <1>1, <1>4, GoesThen, SerialTypes, OthersStand
       DEF ProbeOwn, FailUnidentified, PaneAlive, At, ActorState, registryVars, execVars
  <2>2. OwnPane(a)
    BY <2>1 DEF OwnInv, Identifying
  <2> QED BY <2>1, <2>2 DEF OwnPane
<1>5. CASE ProveGroup(a)
  <2>1. /\ op'[a].pc = "record" /\ op'[a].proc = op[a].proc /\ op'[a].rt = op[a].rt
        /\ op[a].pc = "prove_group" /\ UNCHANGED rt /\ server' = server
        /\ \A c \in Actors : c # a => op'[c] = op[c]
    BY <1>1, <1>5, GoesTo, GoesThen, OthersStand
       DEF ProveGroup, FailUnidentified, At, registryVars, execVars
  <2>2. OwnPane(a)
    BY <2>1 DEF OwnInv, Identifying
  <2> QED BY <2>1, <2>2 DEF OwnPane
<1> QED BY <1>2, <1>3, <1>4, <1>5

\* The environment does not touch the socket of a server that is not lost.
LEMMA OwnPaneOutside ==
  ASSUME RInv, RowStep, OwnInv, "server_lost" \notin Failures, Environment,
         NEW b \in Actors, Identifying(op[b])'
  PROVE  OwnPane(b)'
<1>1. server' = server
  BY DEF Environment, Exec, BarrierTimeout, ProviderExit, HookCheck, ServerLost, HookApply, HookDrop, Crash, Restart,
         execVars
<1>2. op' = op \/ \E a \in Actors : Crash(a) \/ Restart(a)
  BY DEF Environment, Exec, BarrierTimeout, ProviderExit, HookCheck, ServerLost, HookApply, HookDrop
<1>3. ASSUME NEW c \in Actors PROVE op'[c] = op[c] \/ op'[c].pc \in {"idle", "crashed"}
  BY <1>2, SerialTypes DEF Crash, Restart, Done, Goto, Idle
<1>4. op'[b] = op[b]
  BY <1>3 DEF Identifying
<1>5. rt' = rt /\ Identifying(op[b])
  BY <1>4, CurrentIsKept DEF Identifying
<1>6. OwnPane(b)
  BY <1>5 DEF OwnInv
<1> QED BY <1>1, <1>3, <1>4, <1>5, <1>6 DEF OwnPane, Opening

\* Every step keeps OwnInv.
LEMMA OwnStep ==
  ASSUME TwoActors, "server_lost" \notin Failures, RInv, OwnInv, [RuntimeNext]_vars
  PROVE  OwnInv'
<1>1. RowStep
  BY RuntimeStep, TransactionRowStep DEF RInv
<1>2. CASE UNCHANGED vars
  BY <1>2 DEF vars, registryVars, execVars, OwnInv, RecordedIsOwn, Identifying, OwnPane
<1>3. CASE RuntimeNext
  <2>1. ASSUME NEW b \in Actors, Identifying(op[b])' PROVE OwnPane(b)'
    <3>1. CASE Environment
      BY <1>1, <2>1, <3>1, OwnPaneOutside
    <3>2. ASSUME NEW a \in Actors, Act(a) PROVE OwnPane(b)'
      <4>1. CASE op'[b] = op[b]
        BY <1>1, <2>1, <3>2, <4>1, OwnPaneStands
      <4>2. CASE op'[b] # op[b]
        <5>1. a = b
          BY <3>2, <4>2, OthersStand
        <5> QED BY <1>1, <2>1, <3>2, <4>2, <5>1, OwnPaneFound
      <4> QED BY <4>1, <4>2
    <3> QED BY <1>3, <3>1, <3>2 DEF RuntimeNext
  <2> QED BY <1>3, <2>1, RecordsOwn DEF OwnInv
<1> QED BY <1>2, <1>3

\* Two processes that race to launch, stop and relaunch on one socket never
\* record the process of another generation's pane as their own, whatever
\* crashes, exits, times out or survives: the probe of the socket and the
\* compare-and-set on the revision of the row are enough (state/runtime.rs,
\* record_runtime_process_identity).  Neither hypothesis can be dropped: a third
\* process, or a server that ends by itself, clears the socket for a launch
\* that was overtaken.
THEOREM RecordedIsOwnHolds ==
  ASSUME TwoActors, "server_lost" \notin Failures
  PROVE  RuntimeSpec => []RecordedIsOwn
<1>1. RuntimeInit => OwnInv
  BY DEF RuntimeInit, Init, NoRuntime, Idle, OwnInv, RecordedIsOwn, Identifying
<1>2. RInv /\ OwnInv /\ [RuntimeNext]_vars => OwnInv'
  BY OwnStep
<1>3. OwnInv => RecordedIsOwn
  BY DEF OwnInv
<1> QED BY <1>1, <1>2, <1>3, RuntimeInvariant, PTL DEF RuntimeSpec

-----------------------------------------------------------------------------
(* The safety half of LaunchSettles.  That a prepared generation is settled *)
(* rests on a process that will do it: as long as no process dies, some     *)
(* actor holds the prepared row and is on a path whose every end writes it. *)

\* The steps at which an actor answers for the row it holds: those of its own
\* launch, and those of the cleanup that ends with the recovery mark.
Answers(o) ==
  /\ o.rt.rev = rt.rev
  /\ \/ o.pc \in Launching \union {"mark_recovery"}
     \/ o.pc \in {"kill", "remove_dir"} /\ o.after = "mark_recovery"

PreparedIsOwned == Prepared => \E a \in Actors : Answers(op[a])

\* Only a reservation makes a row prepared.
LEMMA PreparedMoves ==
  ASSUME RInv, RuntimeNext, Prepared'
  PROVE  rt' = rt \/ \E a \in Actors : Reserve(a) /\ rt' = FreshRuntime
<1>1. ASSUME NEW a \in Actors, Record(a) PROVE rt' = rt
  <2>1. op[a].proc # Null
    BY <1>1 DEF Record, At, RInv, ActorsOK, Holds
  <2> QED BY <1>1, <2>1 DEF Record, RecordIdentity, Prepared, registryVars
<1>2. ASSUME NEW a \in Actors, ParkCommit(a) \/ MarkStoppedStep(a) \/ MarkRecoveryStep(a) \/ MarkCurrentStep(a)
      PROVE  rt' = rt
  BY <1>2 DEF ParkCommit, MarkStoppedStep, MarkRecoveryStep, MarkCurrentStep, Attempt, ParkRuntime, MarkStopped,
              MarkRecoveryRequired, RuntimeTo, registryVars, Prepared
<1>3. ASSUME NEW a \in Actors, Reserve(a) PROVE rt' = rt \/ rt' = FreshRuntime
  BY <1>3 DEF Reserve, ReserveRuntime, ReserveRecovery, registryVars
<1>4. ASSUME NEW a \in Actors, Commit(a) \/ Restore(a) \/ Reconcile(a) PROVE rt' = rt
  <2>1. rt \in RuntimeRow
    BY SerialTypes
  <2> QED BY <1>4, <2>1 DEF Commit, Restore, Reconcile, Attempt, ArchiveWorkstream, RestoreWorkstream,
              ForgetWorkstream, ReconcileRecovery, registryVars, RuntimeRow, Prepared
<1>5. ASSUME NEW a \in Actors,
             \/ BeginStart(a) \/ BeginRecover(a) \/ BeginArchive(a) \/ BeginForget(a)
             \/ BeginAttach(a) \/ ReadRuntime(a) \/ Probe(a) \/ Terminate(a)
             \/ TerminateRefused(a) \/ KillServer(a) \/ RemoveDir(a) \/ Reread(a)
      PROVE  rt' = rt
  BY <1>5 DEF BeginStart, BeginRecover, BeginArchive, BeginForget, BeginAttach, ReadRuntime,
              Probe, Terminate, TerminateRefused, KillServer, RemoveDir, Reread, registryVars
<1>6. ASSUME NEW a \in Actors,
             \/ CreateDir(a) \/ NewSession(a) \/ ProbeOwn(a) \/ ProveGroup(a) \/ Release(a)
             \/ StopOwn(a) \/ Evidence(a) \/ Recheck(a)
      PROVE  rt' = rt
  BY <1>6 DEF CreateDir, NewSession, ProbeOwn, ProveGroup, Release, StopOwn, Evidence, Recheck, registryVars
<1>7. CASE Environment
  BY <1>7
     DEF Environment, Exec, BarrierTimeout, ProviderExit, HookCheck, ServerLost, HookDrop,
         Crash, Restart, HookApply, Hook, HookSessionStart, InsertInitialBinding, RotateBinding,
         ClearSession, CompleteSessionStart, HookUserPromptSubmit, HookStop, HookSessionEnd,
         RuntimeTo, registryVars, Prepared
<1> QED BY <1>1, <1>2, <1>3, <1>4, <1>5, <1>6, <1>7 DEF RuntimeNext, Act

\* Who answers for the row goes on to do so until the row is written.
LEMMA AnswersOn ==
  ASSUME RInv, Prepared, rt' = rt, NEW a \in Actors, Answers(op[a]), Act(a)
  PROVE  Answers(op[a])'
<1>1. op[a] \in ActorState /\ op \in [Actors -> ActorState] /\ rt \in RuntimeRow
  BY SerialTypes
<1>2. op[a].rt = rt /\ rt.status = "starting"
  BY DEF Prepared, Answers, RInv, ActorsOK, Holds
<1>3. \/ CreateDir(a) \/ NewSession(a) \/ ProbeOwn(a) \/ ProveGroup(a) \/ Record(a)
      \/ MarkRecoveryStep(a) \/ KillServer(a) \/ RemoveDir(a)
  BY DEF Answers, Launching, Act, Begins, BeginStart, BeginRecover, BeginArchive, BeginForget, BeginAttach, Restore,
         ReadRuntime, Probe, Terminate, TerminateRefused, MarkStoppedStep, MarkCurrentStep, ParkCommit, Reread,
         Commit, Reserve, Release, StopOwn, Evidence, Reconcile, Recheck, At
<1>4. ASSUME NEW pc \in Launching \union {"mark_recovery"}, Goto(a, pc) PROVE Answers(op[a])'
  BY <1>1, <1>4, GoesTo DEF Answers, Launching
<1>5. ASSUME FailUnidentified(a) PROVE Answers(op[a])'
  BY <1>1, <1>5, GoesThen DEF FailUnidentified, Answers
<1>6. CASE CreateDir(a) \/ NewSession(a) \/ ProveGroup(a)
  BY <1>4, <1>5, <1>6 DEF CreateDir, NewSession, ProveGroup, Launching
<1>7. CASE ProbeOwn(a)
  <2>1. CASE PaneAlive
    <3>1. op'[a] = [op[a] EXCEPT !.pc = "prove_group", !.proc = server]
      BY <1>1, <1>7, <2>1 DEF ProbeOwn
    <3>2. op'[a].pc = "prove_group" /\ op'[a].rt = op[a].rt
      BY <1>1, <3>1 DEF ActorState
    <3> QED BY <1>2, <3>2 DEF Answers, Launching
  <2> QED BY <1>5, <1>7, <2>1 DEF ProbeOwn
<1>8. ~Record(a)
  BY <1>1, <1>2 DEF Record, RuntimeAt, RecordIdentity, RuntimeRow
<1>9. ~MarkRecoveryStep(a)
  BY <1>1, <1>2 DEF MarkRecoveryStep, Attempt, RuntimeAt, MarkRecoveryRequired, RuntimeTo, RuntimeRow
<1>10. CASE KillServer(a)
  BY <1>1, <1>10, GoesTo DEF KillServer, At, Answers, Launching
<1>11. CASE RemoveDir(a)
  <2>1. op[a].after = "mark_recovery"
    BY <1>11 DEF RemoveDir, At, Answers, Launching
  <2> QED BY <1>4, <1>11, <2>1 DEF RemoveDir
<1> QED BY <1>3, <1>6, <1>7, <1>8, <1>9, <1>10, <1>11

\* Every step leaves a prepared row with somebody who answers for it.
LEMMA PreparedStep ==
  ASSUME "crash" \notin Failures, RInv, PreparedIsOwned, [RuntimeNext]_vars
  PROVE  PreparedIsOwned'
<1>1. CASE UNCHANGED vars
  BY <1>1 DEF vars, registryVars, PreparedIsOwned, Prepared, Answers
<1>2. ASSUME RuntimeNext, Prepared', rt' = rt PROVE \E a \in Actors : Answers(op[a])'
  <2>1. PICK b \in Actors : Answers(op[b])
    BY <1>2 DEF PreparedIsOwned, Prepared
  <2>2. CASE op'[b] = op[b]
    BY <1>2, <2>1, <2>2 DEF Answers
  <2>3. ASSUME NEW a \in Actors, Act(a) PROVE Answers(op[b])'
    <3>1. CASE a = b
      BY <1>2, <2>1, <2>3, <3>1, AnswersOn DEF Prepared
    <3>2. CASE a # b
      <4>1. op'[b] = op[b]
        BY <2>3, <3>2, OthersStand
      <4> QED BY <1>2, <2>1, <4>1 DEF Answers
    <3> QED BY <3>1, <3>2
  <2>4. CASE Environment
    <3>1. op' = op \/ \E a \in Actors : Restart(a)
      BY <2>4 DEF Environment, Exec, BarrierTimeout, ProviderExit, HookCheck, ServerLost, HookApply, HookDrop, Crash
    <3>2. ASSUME NEW a \in Actors, Restart(a) PROVE op'[b] = op[b]
      <4>1. a # b
        BY <2>1, <3>2 DEF Restart, At, Answers, Launching
      <4> QED BY <3>2, <4>1, SerialTypes DEF Restart, Done, Goto
    <3> QED BY <2>2, <3>1, <3>2
  <2> QED BY <1>2, <2>3, <2>4 DEF RuntimeNext
<1>3. ASSUME NEW a \in Actors, Reserve(a), rt' = FreshRuntime PROVE Answers(op[a])'
  <2>1. op \in [Actors -> ActorState] /\ rt \in RuntimeRow
    BY SerialTypes
  <2>2. rt' # rt
    BY <1>3, <2>1 DEF FreshRuntime, RuntimeRow
  <2>3. op' = [op EXCEPT ![a].pc = "create_dir", ![a].rt = rt']
    BY <1>3, <2>2 DEF Reserve, registryVars
  <2>4. op'[a].pc = "create_dir" /\ op'[a].rt = rt'
    BY <2>1, <2>3 DEF ActorState
  <2> QED BY <2>4 DEF Answers, Launching
<1> QED BY <1>1, <1>2, <1>3, PreparedMoves DEF PreparedIsOwned

\* A generation that is reserved and has no process yet is never left alone
\* while no process dies: whoever overtakes its launch writes the row, and
\* otherwise its launcher (actions/start.rs, launch_reserved), or the cleanup of
\* its failed launch, still holds the current row.  So the prepared generation
\* that the run prepared_crash never sees reconciled takes a crash.
THEOREM PreparedIsOwnedHolds ==
  ASSUME "crash" \notin Failures
  PROVE  RuntimeSpec => []PreparedIsOwned
<1>1. RuntimeInit => PreparedIsOwned
  BY DEF RuntimeInit, Init, NoRuntime, PreparedIsOwned, Prepared
<1>2. RInv /\ PreparedIsOwned /\ [RuntimeNext]_vars => PreparedIsOwned'
  BY PreparedStep
<1> QED BY <1>1, <1>2, RuntimeInvariant, PTL DEF RuntimeSpec
=============================================================================
