------------------------------ MODULE Registry ------------------------------
(***************************************************************************)
(* The durable rows that one Codex Workstream owns in the host registry    *)
(* (SQLite schema 15): the Workstream, its single private Runtime and the  *)
(* provider binding of that Runtime.  Every action is one IMMEDIATE        *)
(* transaction of src/src/state: it either commits all it writes or        *)
(* nothing.  A transaction that is refused changes no row, so a refusal is *)
(* an action that is not enabled.                                          *)
(*                                                                         *)
(* A column that no control decision reads (names, paths, activity times)  *)
(* is left out.  A tmux generation is a fresh UUID in the code and a       *)
(* number here: what matters is that a reservation never reuses one.       *)
(* The process fingerprint (provider_pid, process_birth) is the number of  *)
(* the generation whose launch created the process; the two columns are    *)
(* only ever written together.                                             *)
(***************************************************************************)
EXTENDS Naturals

CONSTANTS
  Sessions,   \* native session ids a provider may report
  NoSession   \* the absent binding

ASSUME NoSessionAssumption == NoSession \notin Sessions

VARIABLES
  ws,       \* the workstreams row
  rt,       \* the runtimes row
  binding   \* the provider_bindings row

registryVars == <<ws, rt, binding>>

Null == 0   \* a NULL fingerprint; no generation has this number

\* "gone" is a deleted row, "none" a row that was never inserted or is deleted.
WorkstreamLifecycle == {"open", "parked", "recovery_required", "gone"}
LiveStatus == {"starting", "idle", "working", "attention"}
RuntimeStatus == LiveStatus \union {"stopped", "unknown", "none"}

WorkstreamRow == [life : WorkstreamLifecycle, archived : BOOLEAN, rev : Nat]
RuntimeRow == [status : RuntimeStatus, gen : Nat, proc : Nat, rev : Nat]
BindingRow == [sess : Sessions \union {NoSession}, gen : Nat, rev : Nat]

TypeOK == /\ ws \in WorkstreamRow
          /\ rt \in RuntimeRow
          /\ binding \in BindingRow

NoRuntime == [status |-> "none", gen |-> 0, proc |-> Null, rev |-> 0]
NoBinding == [sess |-> NoSession, gen |-> 0, rev |-> 0]

\* create_independent_workstream inserts an open, visible row and no Runtime.
Init == /\ ws = [life |-> "open", archived |-> FALSE, rev |-> 1]
        /\ rt = NoRuntime
        /\ binding = NoBinding

-----------------------------------------------------------------------------
(* Writes and fences that several transactions share.                      *)

WorkstreamTo(life) == ws' = [life |-> life, archived |-> ws.archived, rev |-> ws.rev + 1]

TouchWorkstream == WorkstreamTo(ws.life)

RuntimeTo(status) ==
  rt' = [status |-> status, gen |-> rt.gen, proc |-> rt.proc, rev |-> rt.rev + 1]

\* The binding row for a session at the current generation.
BindingTo(sess) == [sess |-> sess, gen |-> rt.gen, rev |-> binding.rev + 1]

\* A fresh generation whose process is not known yet.  The inserted row has
\* revision 1, an updated one the next revision.
FreshRuntime == [status |-> "starting", gen |-> rt.gen + 1, proc |-> Null, rev |-> rt.rev + 1]

\* The revision fences of the compare-and-set writes.
WorkstreamAt(expected) == ws.life # "gone" /\ ws.rev = expected
\* Mutant: the revision of the Runtime row is not compared.
RuntimeAtAnyRevision(expected) == rt.status # "none"

RuntimeAt(expected) == rt.status # "none" /\ rt.rev = expected

-----------------------------------------------------------------------------
(* Reservation and launch.                                                 *)

Reservable == /\ ws.life \in {"open", "parked"}
              /\ rt.status \in {"none", "stopped", "unknown"}

\* Resume reserves the one Runtime of an open or parked Workstream.
ReserveRuntime ==
  /\ Reservable
  /\ rt' = FreshRuntime
  /\ WorkstreamTo("open")
  /\ UNCHANGED binding

RecoveryReservable == ws.life = "recovery_required" /\ rt.status = "unknown"

\* Recovery reserves a replacement; the Workstream stays recovery_required.
ReserveRecovery ==
  /\ RecoveryReservable
  /\ rt' = FreshRuntime
  /\ TouchWorkstream
  /\ UNCHANGED binding

\* The launcher stores the fingerprint of the pane it found on the socket.
RecordIdentity(expected, proc) ==
  /\ RuntimeAt(expected)
  /\ rt.status = "starting"
  /\ rt' = [status |-> rt.status, gen |-> rt.gen, proc |-> proc, rev |-> rt.rev + 1]
  /\ UNCHANGED <<ws, binding>>

-----------------------------------------------------------------------------
(* Outcomes that a Runtime action records, each fenced by the revision of  *)
(* the Runtime row that the action read earlier.                           *)

\* Mutant: the status is written without the next revision.
MarkStoppedUnversioned(expected) ==
  /\ RuntimeAt(expected)
  /\ rt' = [rt EXCEPT !.status = "stopped"]
  /\ UNCHANGED <<ws, binding>>

MarkStopped(expected) ==
  /\ RuntimeAt(expected)
  /\ RuntimeTo("stopped")
  /\ UNCHANGED <<ws, binding>>

\* Mutant: a parked Workstream is left parked.
MarkRecoveryOfOpenOnly(expected) ==
  /\ RuntimeAt(expected)
  /\ RuntimeTo("unknown")
  /\ IF ws.life = "open" THEN WorkstreamTo("recovery_required") ELSE UNCHANGED ws
  /\ UNCHANGED binding

MarkRecoveryRequired(expected) ==
  /\ RuntimeAt(expected)
  /\ RuntimeTo("unknown")
  /\ IF ws.life \in {"open", "parked"}
     THEN WorkstreamTo("recovery_required")
     ELSE UNCHANGED ws
  /\ UNCHANGED binding

\* Mutant: the lifecycle of the Workstream is written to its Runtime too.
ParkRuntimeAsParked(expected) ==
  /\ RuntimeAt(expected)
  /\ RuntimeTo("parked")
  /\ WorkstreamTo("parked")
  /\ UNCHANGED binding

ParkRuntime(expected) ==
  /\ RuntimeAt(expected)
  /\ RuntimeTo("stopped")
  /\ WorkstreamTo("parked")
  /\ UNCHANGED binding

\* load_codex_recovery_binding: the rows are those of a recovery launch whose
\* session is not confirmed yet.
RecoveryBindingAt(expectedWs, expectedRt) ==
  /\ ws.life = "recovery_required" /\ ws.rev = expectedWs
  /\ rt.status = "starting" /\ rt.rev = expectedRt
  /\ binding.sess # NoSession
  /\ binding.gen # rt.gen

\* An exact live recovery moves the retained binding to the new generation.
\* The Runtime row is read, not written: it stays "starting".
ReconcileRecovery(expectedWs, expectedRt, retained) ==
  /\ RecoveryBindingAt(expectedWs, expectedRt)
  /\ binding = retained
  /\ binding' = BindingTo(binding.sess)
  /\ WorkstreamTo("open")
  /\ UNCHANGED rt

-----------------------------------------------------------------------------
(* Catalog visibility.                                                     *)

ArchiveWorkstream(expected) ==
  /\ WorkstreamAt(expected)
  /\ ~ws.archived
  /\ ws' = [life |-> ws.life, archived |-> TRUE, rev |-> ws.rev + 1]
  /\ UNCHANGED <<rt, binding>>

\* Mutant: every restored Workstream is opened.
RestoreAsOpen(expected) ==
  /\ WorkstreamAt(expected)
  /\ ws.archived
  /\ ws' = [life |-> "open", archived |-> FALSE, rev |-> ws.rev + 1]
  /\ UNCHANGED <<rt, binding>>

RestoreWorkstream(expected) ==
  /\ WorkstreamAt(expected)
  /\ ws.archived
  /\ ws' = [life |-> IF ws.life = "parked" THEN "open" ELSE ws.life,
            archived |-> FALSE, rev |-> ws.rev + 1]
  /\ UNCHANGED <<rt, binding>>

ForgetWorkstream(expected) ==
  /\ WorkstreamAt(expected)
  /\ ws.archived
  /\ WorkstreamTo("gone")
  /\ rt' = [rt EXCEPT !.status = "none"]
  /\ binding' = NoBinding

-----------------------------------------------------------------------------
(* Codex lifecycle hooks.  gen is the generation that the hook process     *)
(* corroborated before its transaction; sess and source are what the       *)
(* provider reported.  Every accepted event also touches the Workstream.   *)

\* Mutant: the event of an earlier generation is accepted.
HookFenceAnyGeneration(gen) == rt.status # "none"

HookFence(gen) == rt.status # "none" /\ rt.gen = gen

MatchingBinding(sess, gen) == binding.sess = sess /\ binding.gen = gen

\* A binding completes at "starting": it is inserted, or rotated to the
\* current generation.  A recovering Workstream reopens only on "resume".
CompleteSessionStart(source, completed) ==
  /\ rt.status = "starting"
  /\ ws.life = "recovery_required" => source = "resume"
  /\ binding' = completed
  /\ RuntimeTo("idle")
  /\ IF ws.life = "recovery_required"
     THEN ws' = [life |-> "open", archived |-> ws.archived, rev |-> ws.rev + 2]
     ELSE TouchWorkstream

InsertInitialBinding(sess, source) ==
  /\ binding.sess = NoSession
  /\ source \in {"startup", "resume"}
  /\ CompleteSessionStart(source, [sess |-> sess, gen |-> rt.gen, rev |-> 1])

\* Mutant: the binding keeps the generation it was made in.
RotateBindingKeepsGeneration(sess, source) ==
  /\ binding.sess = sess
  /\ CompleteSessionStart(source, binding)

RotateBinding(sess, source) ==
  /\ binding.sess = sess
  /\ CompleteSessionStart(source,
       IF binding.gen = rt.gen THEN binding
       ELSE BindingTo(sess))

\* Mutant: a clear is accepted in any state and from any generation.
ClearSessionAnytime(sess, source) ==
  /\ binding.sess \notin {NoSession, sess}
  /\ source = "clear"
  /\ binding' = BindingTo(sess)
  /\ RuntimeTo("idle")
  /\ TouchWorkstream

ClearSession(sess, source) ==
  /\ binding.sess \notin {NoSession, sess}
  /\ binding.gen = rt.gen
  /\ source = "clear"
  /\ rt.status \in {"idle", "attention"}
  /\ binding' = BindingTo(sess)
  /\ RuntimeTo("idle")
  /\ TouchWorkstream

HookSessionStart(gen, sess, source) ==
  /\ HookFence(gen)
  /\ \/ InsertInitialBinding(sess, source)
     \/ RotateBinding(sess, source)
     \/ ClearSession(sess, source)

HookUserPromptSubmit(gen, sess) ==
  /\ HookFence(gen)
  /\ MatchingBinding(sess, gen)
  /\ RuntimeTo("working")
  /\ TouchWorkstream
  /\ UNCHANGED binding

HookStop(gen, sess) ==
  /\ HookFence(gen)
  /\ MatchingBinding(sess, gen)
  /\ binding' = BindingTo(sess)
  /\ RuntimeTo("attention")
  /\ TouchWorkstream

HookSessionEnd(gen, sess) ==
  /\ HookFence(gen)
  /\ MatchingBinding(sess, gen)
  /\ RuntimeTo("stopped")
  /\ TouchWorkstream
  /\ UNCHANGED binding

Sources == {"startup", "resume", "clear", "compact"}

Hook(gen) ==
  \E sess \in Sessions :
    \/ \E source \in Sources : HookSessionStart(gen, sess, source)
    \/ HookUserPromptSubmit(gen, sess)
    \/ HookStop(gen, sess)
    \/ HookSessionEnd(gen, sess)

-----------------------------------------------------------------------------
(* Any transaction by any process in any order.  A transaction with a      *)
(* stale revision, generation or binding is refused, so only the current   *)
(* values are worth trying; RuntimeControl passes the stale ones.          *)

Next ==
  \/ ReserveRuntime
  \/ ReserveRecovery
  \/ \E proc \in 1 .. rt.gen : RecordIdentity(rt.rev, proc)
  \/ MarkStopped(rt.rev)
  \/ MarkRecoveryRequired(rt.rev)
  \/ ParkRuntime(rt.rev)
  \/ ReconcileRecovery(ws.rev, rt.rev, binding)
  \/ ArchiveWorkstream(ws.rev)
  \/ RestoreWorkstream(ws.rev)
  \/ ForgetWorkstream(ws.rev)
  \/ Hook(rt.gen)

Spec == Init /\ [][Next]_registryVars

-----------------------------------------------------------------------------
(* Properties.                                                             *)

\* A Runtime whose state is unknown always leaves its Workstream in
\* recovery_required: no plain Resume can replace it (ReserveRuntime takes
\* "unknown" rows too, and relies on this).
UnknownNeedsRecovery == rt.status = "unknown" => ws.life = "recovery_required"

\* A Runtime that hooks report as idle, working or attention is bound: the
\* binding names a session and the current generation, across relaunches,
\* recoveries and late hooks.
ActiveIsBound ==
  rt.status \in {"idle", "working", "attention"} => binding.sess # NoSession /\ binding.gen = rt.gen

\* No row outlives the row it belongs to, and a binding never names a
\* generation that was not reserved.
RowsBelong == /\ ws.life = "gone" => rt.status = "none"
              /\ rt.status = "none" => binding = NoBinding
              /\ binding.gen <= rt.gen /\ rt.proc <= rt.gen

\* The three rows of a Workstream never contradict each other, in whatever
\* order hooks, launches, stops and forgets write them.
RowsAgree == ActiveIsBound /\ RowsBelong

\* Optimistic revisions are sound: whoever changes a row moves its revision
\* past every revision read before, so no stale compare-and-set can hit.
RevisionsGrow == /\ ws' # ws => ws'.rev > ws.rev
                 /\ rt' # rt => rt'.rev > rt.rev \/ rt'.status = "none"

RevisionFence == [][RevisionsGrow]_registryVars

\* recovery_required is left for "open" only with proof that the provider of
\* the current generation resumed the session: the binding then names that
\* generation and, if one was retained, the retained session.
RecoveryIsProved ==
  ws.life = "recovery_required" /\ ws'.life = "open"
    => /\ binding'.sess # NoSession /\ binding'.gen = rt'.gen
       /\ binding.sess \in {NoSession, binding'.sess}

RecoveryNeedsProof == [][RecoveryIsProved]_registryVars

\* A retained session is replaced only by its own live generation: neither a
\* resume, a recovery nor a park loses the conversation of a Workstream.
SessionReplaced ==
  binding.sess # NoSession /\ binding'.sess # binding.sess
    => \/ ws'.life = "gone"
       \/ binding.gen = rt.gen /\ rt'.gen = rt.gen /\ rt.status \in LiveStatus

SessionKept == [][SessionReplaced]_registryVars
=============================================================================
