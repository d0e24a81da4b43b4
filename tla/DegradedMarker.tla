---------------------------- MODULE DegradedMarker ----------------------------
(***************************************************************************)
(* The degraded marker of one Runtime generation                           *)
(* (state/current/observer.rs).                                            *)
(*                                                                         *)
(* A Codex hook is a process of its own.  It writes the event, and after a *)
(* session start or a stop the name of the thread, to the registry.  A     *)
(* write that commits removes the marker of the generation.  One that      *)
(* fails leaves a marker with its reason, except where a statement of the  *)
(* event fails: its error is returned as it is, at once.  The marker is a  *)
(* final file and a temporary one; a file is named here by the hook that   *)
(* created it.                                                             *)
(*                                                                         *)
(* Each file is read, created, filled, renamed and removed in a step of    *)
(* its own.  A hook may be killed between two steps, and a hook that marks *)
(* gives up when the time for it is over.                                  *)
(***************************************************************************)
EXTENDS Naturals

CONSTANT LastHook   \* bound: hooks, numbered in the order in which they start

ASSUME LastHookAssumption == LastHook \in Nat

VARIABLES
  final, temp,   \* the two candidates of the marker
  filled,        \* the files whose body is written
  hook,          \* what each hook is doing
  missed,        \* history: what writes that failed since the last commit left
  lapses         \* history: hooks that overlap, stop early or go unreported

markerVars == <<final, temp, filled, hook, missed, lapses>>

Hooks == 1..LastHook
NoFile == 0

(* observer_write drops the reason of the last retry: "locked" is never used. *)
Reasons == {"busy", "commit"}
Unborn == [at |-> "idle", named |-> FALSE, reason |-> "none", final |-> "none"]

MarkerInit ==
  /\ final = NoFile /\ temp = NoFile
  /\ filled = {}
  /\ hook = [h \in Hooks |-> Unborn]
  /\ missed = "none"
  /\ lapses = {}

(* read_observer_degraded_marker_candidate: a file without its body is no  *)
(* marker and no error-free absence either.                                *)
ReasonIn(file) ==
  CASE file = NoFile -> "none"
    [] file \in filled -> hook[file].reason
    [] file \in Hooks \ filled -> "invalid"

-----------------------------------------------------------------------------

HookAt(h, step) == hook[h].at = step
HookWith(h, state) == hook' = [hook EXCEPT ![h] = state]
HookTo(h, step) == HookWith(h, [hook[h] EXCEPT !.at = step])
HookEnds(h) == HookWith(h, [Unborn EXCEPT !.at = "done", !.reason = hook[h].reason])
FilesKept == UNCHANGED <<final, temp, filled>>
Recorded == UNCHANGED <<missed, lapses>>

Active(h) == hook[h].at \notin {"idle", "done"}

HookStarts(h, named) ==
  /\ HookAt(h, "idle") /\ \A earlier \in 1..(h - 1) : ~HookAt(earlier, "idle")
  /\ HookWith(h, [Unborn EXCEPT !.at = "writeEvent", !.named = named])
  /\ lapses' = IF \E other \in Hooks : Active(other) THEN lapses \union {"overlapped"} ELSE lapses
  /\ FilesKept /\ UNCHANGED missed

AtWrite(h) == HookAt(h, "writeEvent") \/ HookAt(h, "writeName")

WriteCommits(h) ==
  /\ AtWrite(h)
  /\ HookTo(h, "readToClear")
  /\ missed' = "none"
  /\ FilesKept /\ UNCHANGED lapses

(* The transaction of the event does not begin or commit, or any step of   *)
(* the name's fails.                                                       *)
WriteFails(h, reason) ==
  /\ AtWrite(h)
  /\ HookWith(h, [hook[h] EXCEPT !.at = "read", !.reason = reason])
  /\ missed' = "marked"
  /\ FilesKept /\ UNCHANGED lapses

(* A statement of the event's transaction fails, be it for a busy or       *)
(* locked database: state_error_as_sqlite hides the error from the retry   *)
(* and from the marker.                                                    *)
WriteFailsUnmarked(h) ==
  /\ HookAt(h, "writeEvent")
  /\ HookEnds(h)
  /\ missed' = IF missed = "none" THEN "unmarked" ELSE missed
  /\ FilesKept /\ UNCHANGED lapses

(* A stale generation or evidence that does not match: nothing to write.   *)
WriteRefused(h) ==
  /\ AtWrite(h)
  /\ HookEnds(h)
  /\ FilesKept /\ Recorded

-----------------------------------------------------------------------------
(* write_observer_degraded_marker_with_deadline                            *)

(* A read of both candidates is two steps; the first keeps what it found.  *)
ReadFinal(h, step, next) ==
  /\ HookAt(h, step)
  /\ IF ReasonIn(final) = "invalid" THEN HookEnds(h)
     ELSE HookWith(h, [hook[h] EXCEPT !.at = next, !.final = ReasonIn(final)])
  /\ FilesKept

ReadFinalToMark(h) == ReadFinal(h, "read", "readTemp") /\ Recorded

ReadTempToMark(h) ==
  LET found == <<hook[h].final, ReasonIn(temp)>> IN
  /\ HookAt(h, "readTemp")
  /\ CASE found = <<"none", "none">> -> HookTo(h, "create")
       [] found = <<"none", hook[h].reason>> -> HookTo(h, "rename")
       [] found \notin {<<"none", "none">>, <<"none", hook[h].reason>>} -> HookEnds(h)
  /\ FilesKept /\ Recorded

CreateTemp(h) ==
  /\ HookAt(h, "create")
  /\ IF temp = NoFile THEN temp' = h /\ HookTo(h, "fill") ELSE UNCHANGED temp /\ HookTo(h, "verify")
  /\ UNCHANGED <<final, filled>> /\ Recorded

FillTemp(h) ==
  /\ HookAt(h, "fill")
  /\ filled' = filled \union {h}
  /\ HookTo(h, "rename")
  /\ UNCHANGED <<final, temp>> /\ Recorded

(* Whichever file the temporary one is by now, it replaces the final one.  *)
RenameTemp(h) ==
  /\ HookAt(h, "rename")
  /\ IF temp = NoFile THEN HookEnds(h) /\ UNCHANGED <<final, temp>>
     ELSE final' = temp /\ temp' = NoFile /\ HookTo(h, "verify")
  /\ UNCHANGED filled /\ Recorded

(* The verdict on the marker that is there now changes nothing.            *)
VerifyMark(h) == HookAt(h, "verify") /\ HookEnds(h) /\ FilesKept /\ Recorded

-----------------------------------------------------------------------------
(* clear_observer_degraded_marker                                          *)

\* An error of the clear is the result of a write that has committed.
ClearRefused(h) == HookEnds(h) /\ lapses' = lapses \union {"unreported"}

(* The thread name is written under the same deadline, once.               *)
Cleared(h) == HookWith(h, [Unborn EXCEPT !.at = IF hook[h].named THEN "writeName" ELSE "done"]) /\ UNCHANGED lapses

ReadFinalToClear(h) ==
  /\ ReadFinal(h, "readToClear", "readTempToClear")
  /\ lapses' = IF ReasonIn(final) = "invalid" THEN lapses \union {"unreported"} ELSE lapses
  /\ UNCHANGED missed

ReadTempToClear(h) ==
  LET found == {hook[h].final, ReasonIn(temp)} \ {"none"} IN
  /\ HookAt(h, "readTempToClear")
  /\ CASE found = {} -> Cleared(h)
       [] \E reason \in Reasons : found = {reason} -> HookTo(h, "removeFinal") /\ UNCHANGED lapses
       [] "invalid" \in found \/ found = Reasons -> ClearRefused(h)
  /\ FilesKept /\ UNCHANGED missed

RemoveFinal(h) ==
  /\ HookAt(h, "removeFinal")
  /\ IF ReasonIn(final) = "invalid" THEN ClearRefused(h) /\ UNCHANGED final
     ELSE final' = NoFile /\ HookTo(h, "removeTemp") /\ UNCHANGED lapses
  /\ UNCHANGED <<temp, filled, missed>>

\* Mutant: only the final file is removed.
RemoveFinalOnly(h) ==
  /\ HookAt(h, "removeTemp")
  /\ Cleared(h)
  /\ FilesKept /\ UNCHANGED missed

RemoveTemp(h) ==
  /\ HookAt(h, "removeTemp")
  /\ IF ReasonIn(temp) = "invalid" THEN ClearRefused(h) /\ UNCHANGED temp
     ELSE temp' = NoFile /\ Cleared(h)
  /\ UNCHANGED <<final, filled, missed>>

-----------------------------------------------------------------------------

\* A hook that stops at these steps leaves the marker as it has to be.
Harmless == {"writeEvent", "writeName", "rename", "verify"}

(* Killed by the provider, or out of the time for the marker.              *)
HookStopsEarly(h) ==
  /\ Active(h)
  /\ HookEnds(h)
  /\ lapses' = CASE HookAt(h, "fill") -> lapses \union {"torn"}
                 [] hook[h].at \in Harmless -> lapses
                 [] hook[h].at \notin {"fill"} \union Harmless -> lapses \union {"cut"}
  /\ FilesKept /\ UNCHANGED missed

Mark(h) == ReadFinalToMark(h) \/ ReadTempToMark(h) \/ CreateTemp(h) \/ FillTemp(h) \/ RenameTemp(h) \/ VerifyMark(h)
Clear(h) == ReadFinalToClear(h) \/ ReadTempToClear(h) \/ RemoveFinal(h) \/ RemoveTemp(h)

MarkerNext ==
  \E h \in Hooks :
    \/ \E named \in BOOLEAN : HookStarts(h, named)
    \/ WriteCommits(h) \/ WriteRefused(h) \/ WriteFailsUnmarked(h)
    \/ \E reason \in Reasons : WriteFails(h, reason)
    \/ Mark(h) \/ Clear(h) \/ HookStopsEarly(h)

MarkerSpec == MarkerInit /\ [][MarkerNext]_markerVars

-----------------------------------------------------------------------------

(* Every variable keeps its type.                                          *)
MarkerTypeOK ==
  /\ final \in Hooks \union {NoFile} /\ temp \in Hooks \union {NoFile}
  /\ filled \subseteq Hooks
  /\ hook \in [Hooks ->
       [at : {"idle", "writeEvent", "writeName", "read", "readTemp", "create", "fill", "rename", "verify",
              "readToClear", "readTempToClear", "removeFinal", "removeTemp", "done"},
        named : BOOLEAN, reason : Reasons \union {"none"}, final : Reasons \union {"none"}]]
  /\ missed \in {"none", "unmarked", "marked"}
  /\ lapses \subseteq {"overlapped", "torn", "cut", "unreported"}

AtRest == \A h \in Hooks : ~Active(h)

(* A marker is there exactly if a write has failed since the last commit,  *)
(* other than by a statement of an event: such a failure leaves no marker  *)
(* where none is, and neither removes nor replaces one that is there.      *)
MarkerIsCurrent ==
  AtRest /\ lapses \intersect {"overlapped", "torn", "cut"} = {}
    => ({final, temp} # {NoFile} <=> missed = "marked")

(* A write that committed is reported as such.                             *)
CommitIsReported == "unreported" \in lapses => lapses \intersect {"overlapped", "torn"} # {}

(* However hooks overlap, no file is left that is not a marker unless one  *)
(* stopped between the creation of a file and its body.                    *)
RestIsReadable == AtRest /\ "torn" \notin lapses => {final, temp} \subseteq filled \union {NoFile}

MarkerIsSound == MarkerIsCurrent /\ CommitIsReported /\ RestIsReadable
=============================================================================
