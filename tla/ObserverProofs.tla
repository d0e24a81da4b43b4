--------------------------- MODULE ObserverProofs ---------------------------
(***************************************************************************)
(* The files around the Codex observer, for any number of processes and    *)
(* wherever each of them dies: the degraded marker, the folders of its     *)
(* reviews, and its profile with the trust that reviews gave it.           *)
(***************************************************************************)
EXTENDS DegradedMarker, ReviewFiles, ObserverSetup, TLAPS

-----------------------------------------------------------------------------
(* The degraded marker.                                                    *)

WriteSteps == {"writeEvent", "writeName"}
MarkSteps == {"read", "readTemp", "create", "fill", "rename", "verify"}
ClearSteps == {"readToClear", "readTempToClear", "removeFinal", "removeTemp"}
MarkerPresent == final # NoFile \/ temp # NoFile

\* Neither another hook nor a torn file interferes.
HooksAlone == "overlapped" \notin lapses /\ "torn" \notin lapses

\* A hook that marks has a reason, which its file keeps; it fills one file.
ReasonsKept ==
  \A h \in Hooks : /\ hook[h].at \in MarkSteps => hook[h].reason \in Reasons
                   /\ h \in filled => hook[h].reason \in Reasons /\ hook[h].at \in {"rename", "verify", "done"}

\* Whoever has to fill a file is at it, unless it stopped there.
UnfilledIsAtWork ==
  "torn" \notin lapses => \A f \in Hooks \ filled : f \in {final, temp} => hook[f].at = "fill"

OneByOne == "overlapped" \notin lapses => \A g, h \in Hooks : Active(g) /\ Active(h) => g = h

\* Without interference there is one file, and a hook knows what is there.
StepKnows(h) ==
  /\ hook[h].at \in {"readTemp", "readTempToClear"} => hook[h].final = ReasonIn(final)
  /\ hook[h].at = "create" => final = NoFile /\ temp = NoFile
  /\ hook[h].at = "fill" => final = NoFile /\ temp = h
  /\ hook[h].at = "rename" => final = NoFile /\ temp # NoFile
  /\ hook[h].at = "verify" => MarkerPresent
  /\ hook[h].at = "removeTemp" => final = NoFile

AloneIsKnown == HooksAlone => (final = NoFile \/ temp = NoFile) /\ \A h \in Hooks : StepKnows(h)

\* Without an early stop the marker tells of what failed since the last commit.
StepFollows(h) ==
  /\ hook[h].at \in WriteSteps => (MarkerPresent <=> missed = "marked")
  /\ hook[h].at \in MarkSteps => missed = "marked"
  /\ hook[h].at \in ClearSteps => missed = "none"

MarkerFollows ==
  HooksAlone /\ "cut" \notin lapses =>
    /\ \A h \in Hooks : StepFollows(h)
    /\ AtRest => (MarkerPresent <=> missed = "marked")

\* The inductive invariant.
MarkerInv == /\ MarkerTypeOK /\ ReasonsKept /\ UnfilledIsAtWork /\ OneByOne
             /\ AloneIsKnown /\ MarkerFollows /\ CommitIsReported

-----------------------------------------------------------------------------

HookSteps == {"idle", "done"} \union WriteSteps \union MarkSteps \union ClearSteps
HookRecord == [at : HookSteps, named : BOOLEAN, reason : Reasons \union {"none"},
               final : Reasons \union {"none"}]
Lapses == {"overlapped", "torn", "cut", "unreported"}

\* A hook is not NoFile.
LEMMA HooksArePositive == NoFile \notin Hooks /\ Hooks \subseteq Nat
BY LastHookAssumption DEF NoFile, Hooks

\* The types with each record set under a name, so that it can stay folded.
LEMMA MarkerTyped == MarkerTypeOK <=> /\ final \in Hooks \union {NoFile} /\ temp \in Hooks \union {NoFile}
                                      /\ filled \subseteq Hooks
                                      /\ hook \in [Hooks -> HookRecord]
                                      /\ missed \in {"none", "unmarked", "marked"}
                                      /\ lapses \subseteq Lapses
<1>1. HookSteps = {"idle", "writeEvent", "writeName", "read", "readTemp", "create", "fill", "rename", "verify", "readToClear",
                   "readTempToClear", "removeFinal", "removeTemp", "done"}
  BY DEF HookSteps, WriteSteps, MarkSteps, ClearSteps
<1> QED BY <1>1 DEF MarkerTypeOK, HookRecord, Lapses

\* What a reader of a candidate finds.
LEMMA ReasonFound ==
  ASSUME MarkerInv, NEW f \in {final, temp}
  PROVE  /\ f = NoFile => ReasonIn(f) = "none"
         /\ f # NoFile => ReasonIn(f) \in Reasons \union {"invalid"}
         /\ \/ f = NoFile
            \/ f \in filled /\ ReasonIn(f) = hook[f].reason /\ hook[f].reason \in Reasons
            \/ f \in Hooks \ filled /\ ReasonIn(f) = "invalid"
BY HooksArePositive, MarkerTyped DEF MarkerInv, ReasonsKept, ReasonIn, Reasons

\* A hook that is alone and does not write a file itself reads no torn file.
LEMMA AloneReads ==
  ASSUME MarkerInv, HooksAlone, NEW h \in Hooks, Active(h), hook[h].at # "fill", NEW f \in {final, temp}
  PROVE  ReasonIn(f) # "invalid"
<1>1. SUFFICES ASSUME f \in Hooks \ filled PROVE FALSE
  BY ReasonFound DEF Reasons
<1>2. hook[f].at = "fill" /\ Active(f)
  BY <1>1 DEF MarkerInv, UnfilledIsAtWork, HooksAlone, Active
<1> QED BY <1>1, <1>2 DEF MarkerInv, OneByOne, HooksAlone

\* Nobody but h moves.
OnlyHook(h) == /\ hook' \in [Hooks -> HookRecord]
               /\ \A g \in Hooks : g # h => hook'[g] = hook[g]

\* A step of one hook keeps the invariant if it leaves to the others what is
\* theirs and to itself what it has to know.
LEMMA ActKeeps ==
  ASSUME MarkerInv, NEW h \in Hooks, Active(h), OnlyHook(h),
         final' \in Hooks \union {NoFile}, temp' \in Hooks \union {NoFile},
         filled' \in {filled, filled \union {h}}, missed' \in {"none", "unmarked", "marked"},
         lapses \subseteq lapses', lapses' \subseteq Lapses, "overlapped" \in lapses' => "overlapped" \in lapses,
         hook'[h].at \in MarkSteps => hook'[h].reason \in Reasons,
         h \in filled' => hook'[h].reason \in Reasons /\ hook'[h].at \in {"rename", "verify", "done"},
         "torn" \notin lapses' => \A f \in Hooks \ filled' :
           f \in {final', temp'} => IF f = h THEN hook'[h].at = "fill" ELSE f \in {final, temp},
         HooksAlone' => (final' = NoFile \/ temp' = NoFile) /\ StepKnows(h)',
         HooksAlone' /\ "cut" \notin lapses' =>
           StepFollows(h)' /\ (hook'[h].at = "done" => (MarkerPresent' <=> missed' = "marked")),
         hook'[h].at # "idle", CommitIsReported'
  PROVE  MarkerInv'
<1>1. hook' \in [Hooks -> HookRecord] /\ \A g \in Hooks : g # h => hook'[g] = hook[g]
  BY DEF OnlyHook
<1>2. MarkerTypeOK'
  <2>1. filled' \subseteq Hooks /\ hook' \in [Hooks -> HookRecord]
    BY <1>1, MarkerTyped DEF MarkerInv
  <2> QED
    BY <2>1 DEF MarkerTypeOK, HookRecord, HookSteps, WriteSteps, MarkSteps, ClearSteps, Lapses
<1>3. ReasonsKept'
  BY <1>1 DEF MarkerInv, ReasonsKept
<1>4. UnfilledIsAtWork'
  <2>1. SUFFICES ASSUME "torn" \notin lapses', NEW f \in Hooks \ filled', f \in {final', temp'}
                 PROVE  hook'[f].at = "fill"
    BY DEF UnfilledIsAtWork
  <2>2. CASE f = h
    BY <1>1, <2>1, <2>2
  <2>3. CASE f # h
    BY <1>1, <2>1, <2>3 DEF MarkerInv, UnfilledIsAtWork
  <2> QED BY <2>2, <2>3
<1>5. \A g \in Hooks : Active(g)' => Active(g)
  BY <1>1 DEF Active
<1>6. OneByOne'
  BY <1>5 DEF MarkerInv, OneByOne
<1>7. HooksAlone' => HooksAlone
  BY DEF HooksAlone
<1>8. HooksAlone' => \A g \in Hooks : g # h => hook'[g].at \in {"idle", "done"}
  BY <1>1, <1>7 DEF MarkerInv, OneByOne, Active, HooksAlone
<1>9. AloneIsKnown'
  <2>1. HooksAlone' => \A g \in Hooks : g # h => StepKnows(g)'
    BY <1>8 DEF StepKnows
  <2> QED BY <2>1 DEF AloneIsKnown
<1>10. MarkerFollows'
  <2>1. HooksAlone' => \A g \in Hooks : g # h => StepFollows(g)'
    BY <1>8 DEF StepFollows, WriteSteps, MarkSteps, ClearSteps
  <2>2. AtRest' => hook'[h].at = "done"
    BY <1>1 DEF AtRest, Active
  <2> QED BY <2>1, <2>2 DEF MarkerFollows
<1> QED BY <1>2, <1>3, <1>4, <1>6, <1>9, <1>10 DEF MarkerInv

-----------------------------------------------------------------------------
(* Actions, with what the acting hook may rely on.                         *)

\* What holds of the hook that acts.
LEMMA Acting ==
  ASSUME MarkerInv, NEW h \in Hooks
  PROVE  /\ hook[h] \in HookRecord
         /\ hook[h].at \in MarkSteps => hook[h].reason \in Reasons
         /\ h \in filled => hook[h].reason \in Reasons /\ hook[h].at \in {"rename", "verify", "done"}
         /\ HooksAlone => (final = NoFile \/ temp = NoFile) /\ StepKnows(h)
         /\ HooksAlone /\ "cut" \notin lapses => StepFollows(h)
         /\ "torn" \notin lapses => \A f \in Hooks \ filled : f \in {final, temp} => hook[f].at = "fill"
         /\ final \in Hooks \union {NoFile} /\ temp \in Hooks \union {NoFile} /\ filled \subseteq Hooks
         /\ missed \in {"none", "unmarked", "marked"} /\ lapses \subseteq Lapses /\ CommitIsReported
BY MarkerTyped DEF MarkerInv, ReasonsKept, UnfilledIsAtWork, AloneIsKnown, MarkerFollows

\* Only the acting hook moves, to record r.
LEMMA HookIsWith ==
  ASSUME MarkerInv, NEW h \in Hooks, NEW r \in HookRecord, HookWith(h, r)
  PROVE  OnlyHook(h) /\ hook'[h] = r
BY MarkerTyped DEF MarkerInv, HookWith, OnlyHook

\* Only the acting hook moves, and keeps what it knows.
LEMMA HookIsTo ==
  ASSUME MarkerInv, NEW h \in Hooks, NEW step \in HookSteps, HookTo(h, step)
  PROVE  /\ OnlyHook(h) /\ hook'[h].at = step
         /\ hook'[h].reason = hook[h].reason /\ hook'[h].final = hook[h].final
<1>1. [hook[h] EXCEPT !.at = step] \in HookRecord
  BY Acting DEF HookRecord
<1> QED BY <1>1, HookIsWith, Acting DEF HookTo, HookRecord

\* Only the acting hook moves, and is done.
LEMMA HookIsEnded ==
  ASSUME MarkerInv, NEW h \in Hooks, HookEnds(h)
  PROVE  OnlyHook(h) /\ hook'[h].at = "done" /\ hook'[h].reason = hook[h].reason
<1>1. [Unborn EXCEPT !.at = "done", !.reason = hook[h].reason] \in HookRecord
  BY Acting DEF HookRecord, Unborn, HookSteps
<1> QED BY <1>1, HookIsWith DEF HookEnds, Unborn

\* A step that leaves both files alone.
LEMMA FilesKeptKeeps ==
  ASSUME MarkerInv, NEW h \in Hooks, Active(h), OnlyHook(h), FilesKept,
         missed' \in {"none", "unmarked", "marked"},
         lapses \subseteq lapses', lapses' \subseteq Lapses, "overlapped" \in lapses' => "overlapped" \in lapses,
         hook'[h].at \in MarkSteps => hook'[h].reason \in Reasons,
         h \in filled => hook'[h].reason \in Reasons /\ hook'[h].at \in {"rename", "verify", "done"},
         hook[h].at = "fill" => "torn" \in lapses',
         hook'[h].at # "idle", CommitIsReported',
         HooksAlone' => StepKnows(h)',
         HooksAlone' /\ "cut" \notin lapses' =>
           StepFollows(h)' /\ (hook'[h].at = "done" => (MarkerPresent <=> missed' = "marked"))
  PROVE  MarkerInv'
<1> USE DEF FilesKept
<1>1. "torn" \notin lapses' => \A f \in Hooks \ filled' :
        f \in {final', temp'} => IF f = h THEN hook'[h].at = "fill" ELSE f \in {final, temp}
  <2>1. SUFFICES ASSUME "torn" \notin lapses', h \notin filled, h \in {final, temp} PROVE FALSE
    OBVIOUS
  <2> QED BY <2>1, Acting
<1>2. HooksAlone' => HooksAlone /\ (final' = NoFile \/ temp' = NoFile)
  BY Acting DEF HooksAlone
<1>3. MarkerPresent' <=> MarkerPresent
  BY DEF MarkerPresent
<1> QED BY <1>1, <1>2, <1>3, ActKeeps, Acting

\* A hook that starts finds the files as they are, or overlaps another.
LEMMA StartKeeps ==
  ASSUME MarkerInv, NEW h \in Hooks, NEW named \in BOOLEAN, HookStarts(h, named)
  PROVE  MarkerInv'
<1> USE DEF HookStarts, FilesKept
<1>1. [Unborn EXCEPT !.at = "writeEvent", !.named = named] \in HookRecord
  BY DEF Unborn, HookRecord, HookSteps, WriteSteps
<1>2. /\ hook \in [Hooks -> HookRecord] /\ hook'[h].at = "writeEvent" /\ hook[h].at = "idle"
      /\ hook' \in [Hooks -> HookRecord] /\ \A g \in Hooks : g # h => hook'[g] = hook[g]
  BY <1>1, MarkerTyped DEF MarkerInv, HookWith, HookAt, Unborn
<1>3. MarkerTypeOK'
  BY <1>2, MarkerTyped
     DEF MarkerInv, MarkerTypeOK, HookRecord, HookSteps, WriteSteps, MarkSteps, ClearSteps, Lapses
<1>4. ReasonsKept' /\ UnfilledIsAtWork' /\ CommitIsReported'
  BY <1>2 DEF MarkerInv, ReasonsKept, UnfilledIsAtWork, CommitIsReported, MarkSteps
<1>5. "overlapped" \notin lapses' => \A g \in Hooks : ~Active(g) /\ lapses' = lapses
  BY <1>2
<1>6. OneByOne'
  BY <1>2, <1>5 DEF OneByOne, Active
<1>7. AloneIsKnown' /\ MarkerFollows'
  <2>1. HooksAlone' => HooksAlone /\ \A g \in Hooks : g # h => hook'[g].at \in {"idle", "done"}
    BY <1>2, <1>5 DEF HooksAlone, Active
  <2>2. AloneIsKnown'
    BY <1>2, <2>1 DEF MarkerInv, AloneIsKnown, StepKnows
  <2>3. HooksAlone' => AtRest
    BY <1>5 DEF AtRest, HooksAlone
  <2>4. Active(h)'
    BY <1>2 DEF Active
  <2>5. HooksAlone' /\ "cut" \notin lapses' => \A g \in Hooks : StepFollows(g)'
    BY <1>2, <1>5, <2>1, <2>3 DEF MarkerInv, MarkerFollows, StepFollows, WriteSteps, MarkSteps, ClearSteps, MarkerPresent, HooksAlone
  <2> QED BY <2>2, <2>4, <2>5 DEF MarkerFollows, AtRest
<1> QED BY <1>3, <1>4, <1>6, <1>7 DEF MarkerInv

\* A hook that ends, or moves to another step, and leaves no trace.
LEMMA QuietKeeps ==
  ASSUME MarkerInv, NEW h \in Hooks, Active(h), FilesKept, Recorded, OnlyHook(h),
         hook'[h].reason = hook[h].reason, hook[h].at # "fill", hook'[h].at # "idle",
         h \in filled => hook'[h].at \in {"rename", "verify", "done"},
         hook'[h].at \in MarkSteps => hook[h].at \in MarkSteps,
         hook'[h].at \in ClearSteps => hook[h].at \in ClearSteps,
         hook'[h].at \notin WriteSteps,
         HooksAlone => StepKnows(h)',
         HooksAlone /\ "cut" \notin lapses /\ hook'[h].at = "done" => (MarkerPresent <=> missed = "marked")
  PROVE  MarkerInv'
<1>1. StepFollows(h) /\ hook'[h].at \notin WriteSteps => StepFollows(h)'
  BY DEF StepFollows, WriteSteps, Recorded
<1>2. CommitIsReported' /\ (HooksAlone' <=> HooksAlone)
  BY Acting DEF CommitIsReported, Recorded, HooksAlone
<1> QED BY <1>1, <1>2, Acting, FilesKeptKeeps DEF Recorded

\* The reason that a reader finds does not depend on what the hook does next.
LEMMA ReasonStays ==
  ASSUME MarkerInv, NEW h \in Hooks, OnlyHook(h), FilesKept,
         hook'[h].reason = hook[h].reason \/ h \notin filled
  PROVE  ReasonIn(final)' = ReasonIn(final)
<1>1. final \in filled => hook'[final].reason = hook[final].reason
  BY MarkerTyped DEF MarkerInv, OnlyHook
<1> QED BY <1>1 DEF ReasonIn, FilesKept

\* The outcome of a write decides whether the hook clears, marks or just ends.
LEMMA WriteKeeps ==
  ASSUME MarkerInv, NEW h \in Hooks,
         \/ WriteCommits(h) \/ WriteRefused(h) \/ WriteFailsUnmarked(h)
         \/ \E reason \in Reasons : WriteFails(h, reason)
  PROVE  MarkerInv'
<1>0. /\ Active(h) /\ hook[h].at \in WriteSteps /\ h \notin filled /\ hook[h] \in HookRecord
      /\ FilesKept /\ UNCHANGED lapses
  BY Acting
     DEF AtWrite, WriteCommits, WriteRefused, WriteFailsUnmarked, WriteFails, HookAt, Active, Recorded, WriteSteps
<1>1. CASE WriteCommits(h)
  <2>1. OnlyHook(h) /\ hook'[h].at = "readToClear" /\ missed' = "none"
    BY <1>1, HookIsTo DEF WriteCommits, HookSteps, ClearSteps
  <2>2. StepKnows(h)' /\ StepFollows(h)' /\ CommitIsReported'
    BY <1>0, <2>1, Acting DEF StepKnows, StepFollows, WriteSteps, MarkSteps, ClearSteps, CommitIsReported
  <2> QED BY <1>0, <2>1, <2>2, Acting, FilesKeptKeeps DEF MarkSteps, WriteSteps
<1>2. CASE WriteRefused(h)
  <2>1. OnlyHook(h) /\ hook'[h].at = "done" /\ hook'[h].reason = hook[h].reason /\ Recorded
    BY <1>2, HookIsEnded DEF WriteRefused
  <2>2. StepKnows(h)'
    BY <2>1 DEF StepKnows
  <2>3. HooksAlone /\ "cut" \notin lapses => (MarkerPresent <=> missed = "marked")
    BY <1>0, Acting DEF StepFollows, WriteSteps
  <2> QED BY <1>0, <2>1, <2>2, <2>3, QuietKeeps DEF MarkSteps, ClearSteps, WriteSteps
<1>3. ASSUME NEW reason \in Reasons, WriteFails(h, reason) PROVE MarkerInv'
  <2> DEFINE r == [hook[h] EXCEPT !.at = "read", !.reason = reason]
  <2>1. r \in HookRecord /\ r.at = "read" /\ r.reason = reason
    BY <1>0 DEF HookRecord, HookSteps, MarkSteps
  <2>2. HookWith(h, r) /\ missed' = "marked"
    BY <1>3 DEF WriteFails
  <2> HIDE DEF r
  <2>3. OnlyHook(h) /\ hook'[h].at = "read" /\ hook'[h].reason = reason
    BY <2>1, <2>2, HookIsWith
  <2>4. StepKnows(h)' /\ StepFollows(h)' /\ CommitIsReported'
    BY <1>0, <2>2, <2>3, Acting DEF StepKnows, StepFollows, WriteSteps, MarkSteps, ClearSteps, CommitIsReported
  <2> QED BY <1>0, <2>2, <2>3, <2>4, Acting, FilesKeptKeeps DEF WriteSteps
<1>4. CASE WriteFailsUnmarked(h)
  <2>1. /\ OnlyHook(h) /\ hook'[h].at = "done" /\ hook'[h].reason = hook[h].reason
        /\ missed' = IF missed = "none" THEN "unmarked" ELSE missed
    BY <1>4, HookIsEnded DEF WriteFailsUnmarked
  <2>2. StepKnows(h)' /\ StepFollows(h)' /\ CommitIsReported'
    BY <1>0, <2>1, Acting DEF StepKnows, StepFollows, WriteSteps, MarkSteps, ClearSteps, CommitIsReported
  <2>3. HooksAlone' /\ "cut" \notin lapses' => (MarkerPresent <=> missed' = "marked")
    BY <1>0, <2>1, Acting DEF StepFollows, HooksAlone
  <2> QED BY <1>0, <2>1, <2>2, <2>3, Acting, FilesKeptKeeps DEF MarkSteps, WriteSteps
<1> QED BY <1>1, <1>2, <1>3, <1>4

\* The steps of a mark that only read.
LEMMA MarkReadsKeep ==
  ASSUME MarkerInv, NEW h \in Hooks,
         ReadFinalToMark(h) \/ ReadTempToMark(h) \/ VerifyMark(h)
  PROVE  MarkerInv'
<1>0. /\ Active(h) /\ hook[h].at \in {"read", "readTemp", "verify"} /\ hook[h] \in HookRecord
      /\ FilesKept /\ Recorded
  BY Acting
     DEF ReadFinalToMark, ReadTempToMark, VerifyMark, ReadFinal, HookAt, Active
<1>1. /\ hook[h].at \in MarkSteps /\ hook[h].reason \in Reasons /\ (h \in filled => hook[h].at = "verify")
      /\ HooksAlone /\ "cut" \notin lapses => missed = "marked"
  BY <1>0, Acting DEF MarkSteps, StepFollows, WriteSteps
<1>2. ASSUME HookEnds(h), HooksAlone => MarkerPresent
      PROVE  MarkerInv'
  <2>1. OnlyHook(h) /\ hook'[h].at = "done" /\ hook'[h].reason = hook[h].reason
    BY <1>2, HookIsEnded
  <2>2. StepKnows(h)'
    BY <2>1 DEF StepKnows
  <2> QED BY <1>0, <1>1, <1>2, <2>1, <2>2, QuietKeeps DEF MarkSteps, ClearSteps, WriteSteps
<1>3. CASE ReadFinalToMark(h)
  <2>0. hook[h].at = "read"
    BY <1>3 DEF ReadFinalToMark, ReadFinal, HookAt
  <2>1. CASE ReasonIn(final) = "invalid"
    BY <1>0, <1>2, <1>3, <2>0, <2>1, AloneReads DEF ReadFinalToMark, ReadFinal
  <2>2. CASE ReasonIn(final) # "invalid"
    <3>1. ReasonIn(final) \in Reasons \union {"none"}
      BY <2>2, ReasonFound
    <3> DEFINE r == [hook[h] EXCEPT !.at = "readTemp", !.final = ReasonIn(final)]
    <3>2. /\ r \in HookRecord /\ r.at = "readTemp" /\ r.reason = hook[h].reason
          /\ r.final = ReasonIn(final) /\ HookWith(h, r)
      BY <1>0, <1>3, <2>2, <3>1 DEF ReadFinalToMark, ReadFinal, HookRecord, HookSteps, MarkSteps
    <3> HIDE DEF r
    <3>3. /\ OnlyHook(h) /\ hook'[h].at = "readTemp" /\ hook'[h].reason = hook[h].reason
          /\ hook'[h].final = ReasonIn(final)
      BY <3>2, HookIsWith
    <3>4. StepKnows(h)'
      BY <1>0, <3>3, ReasonStays DEF StepKnows
    <3> QED BY <1>0, <1>1, <2>0, <3>3, <3>4, QuietKeeps DEF MarkSteps, ClearSteps, WriteSteps
  <2> QED BY <2>1, <2>2
<1>4. CASE ReadTempToMark(h)
  <2> DEFINE found == <<hook[h].final, ReasonIn(temp)>>
  <2>0. hook[h].at = "readTemp" /\ (HooksAlone => hook[h].final = ReasonIn(final))
    BY <1>4, Acting DEF ReadTempToMark, HookAt, StepKnows
  <2>1. CASE found = <<"none", "none">> /\ HookTo(h, "create")
    <3>1. OnlyHook(h) /\ hook'[h].at = "create" /\ hook'[h].reason = hook[h].reason
      BY <2>1, HookIsTo DEF HookSteps, MarkSteps
    <3>2. HooksAlone => final = NoFile /\ temp = NoFile
      BY <2>0, <2>1, ReasonFound DEF Reasons
    <3>3. HooksAlone => StepKnows(h)'
      BY <1>0, <3>1, <3>2 DEF StepKnows, FilesKept
    <3> QED BY <1>0, <1>1, <2>0, <3>1, <3>3, QuietKeeps DEF MarkSteps, ClearSteps, WriteSteps
  <2>2. CASE found = <<"none", hook[h].reason>> /\ HookTo(h, "rename")
    <3>1. OnlyHook(h) /\ hook'[h].at = "rename" /\ hook'[h].reason = hook[h].reason
      BY <2>2, HookIsTo DEF HookSteps, MarkSteps
    <3>2. (HooksAlone => final = NoFile) /\ temp # NoFile
      BY <1>1, <2>0, <2>2, ReasonFound DEF Reasons
    <3>3. HooksAlone => StepKnows(h)'
      BY <1>0, <3>1, <3>2 DEF StepKnows, FilesKept
    <3> QED BY <1>0, <1>1, <2>0, <3>1, <3>3, QuietKeeps DEF MarkSteps, ClearSteps, WriteSteps
  <2>3. CASE found # <<"none", "none">> /\ HookEnds(h)
    <3>1. HooksAlone => final # NoFile \/ temp # NoFile
      BY <2>0, <2>3, ReasonFound
    <3> QED BY <1>2, <2>3, <3>1 DEF MarkerPresent
  <2> QED BY <1>4, <2>1, <2>2, <2>3 DEF ReadTempToMark
<1>5. CASE VerifyMark(h)
  BY <1>2, <1>5, Acting DEF VerifyMark, HookAt, StepKnows
<1> QED BY <1>3, <1>4, <1>5

\* The steps of a mark that write.
LEMMA MarkWritesKeep ==
  ASSUME MarkerInv, NEW h \in Hooks, CreateTemp(h) \/ FillTemp(h) \/ RenameTemp(h)
  PROVE  MarkerInv'
<1>0. /\ Active(h) /\ hook[h].at \in {"create", "fill", "rename"} /\ hook[h].reason \in Reasons /\ Recorded
      /\ HooksAlone /\ "cut" \notin lapses => missed = "marked"
  BY Acting DEF CreateTemp, FillTemp, RenameTemp, HookAt, Active, MarkSteps, StepFollows, WriteSteps
<1>1. CommitIsReported' /\ (HooksAlone' <=> HooksAlone)
  BY <1>0, Acting DEF CommitIsReported, Recorded, HooksAlone
<1>2. CASE CreateTemp(h)
  <2>0. hook[h].at = "create" /\ h \notin filled /\ UNCHANGED <<final, filled>> /\ Active(h)
    BY <1>0, <1>2, Acting DEF CreateTemp, HookAt
  <2>1. CASE temp = NoFile /\ temp' = h /\ HookTo(h, "fill")
    <3>1. OnlyHook(h) /\ hook'[h].at = "fill" /\ hook'[h].reason = hook[h].reason
      BY <2>1, HookIsTo DEF HookSteps, MarkSteps
    <3>2. HooksAlone => final = NoFile /\ StepKnows(h)'
      BY <2>0, <2>1, <3>1, Acting DEF StepKnows
    <3>3. HooksAlone /\ "cut" \notin lapses => StepFollows(h)'
      BY <1>0, <3>1 DEF StepFollows, WriteSteps, MarkSteps, ClearSteps, Recorded
    <3>4. "torn" \notin lapses' => \A f \in Hooks \ filled' :
            f \in {final', temp'} => IF f = h THEN hook'[h].at = "fill" ELSE f \in {final, temp}
      BY <2>0, <2>1, <3>1
    <3> QED BY <1>0, <1>1, <2>0, <2>1, <3>1, <3>2, <3>3, <3>4, Acting, ActKeeps DEF Recorded
  <2>2. CASE temp # NoFile /\ UNCHANGED temp /\ HookTo(h, "verify")
    <3>1. OnlyHook(h) /\ hook'[h].at = "verify" /\ hook'[h].reason = hook[h].reason
      BY <2>2, HookIsTo DEF HookSteps, MarkSteps
    <3>2. StepKnows(h)'
      BY <2>2, <3>1 DEF StepKnows, MarkerPresent
    <3> QED BY <1>0, <2>0, <2>2, <3>1, <3>2, QuietKeeps DEF FilesKept, MarkSteps, ClearSteps, WriteSteps
  <2> QED BY <1>2, <2>1, <2>2 DEF CreateTemp
<1>3. CASE FillTemp(h)
  <2>1. /\ OnlyHook(h) /\ hook'[h].at = "rename" /\ hook'[h].reason = hook[h].reason
        /\ hook[h].at = "fill" /\ filled' = filled \union {h} /\ UNCHANGED <<final, temp>>
    BY <1>3, HookIsTo DEF FillTemp, HookAt, HookSteps, MarkSteps
  <2>2. HooksAlone => final = NoFile /\ StepKnows(h)'
    BY <2>1, Acting, HooksArePositive DEF StepKnows
  <2>3. HooksAlone /\ "cut" \notin lapses => StepFollows(h)'
    BY <1>0, <2>1 DEF StepFollows, WriteSteps, MarkSteps, ClearSteps, Recorded
  <2>4. "torn" \notin lapses' => \A f \in Hooks \ filled' :
          f \in {final', temp'} => IF f = h THEN hook'[h].at = "fill" ELSE f \in {final, temp}
    BY <2>1
  <2> QED BY <1>0, <1>1, <2>1, <2>2, <2>3, <2>4, Acting, ActKeeps DEF Recorded
<1>4. CASE RenameTemp(h)
  <2>0. hook[h].at = "rename" /\ UNCHANGED filled
    BY <1>4 DEF RenameTemp, HookAt
  <2>1. CASE temp = NoFile /\ HookEnds(h) /\ UNCHANGED <<final, temp>>
    <3>1. OnlyHook(h) /\ hook'[h].at = "done" /\ hook'[h].reason = hook[h].reason /\ ~HooksAlone
      BY <2>0, <2>1, HookIsEnded, Acting DEF StepKnows
    <3> QED BY <1>0, <2>0, <2>1, <3>1, QuietKeeps DEF FilesKept, MarkSteps, ClearSteps, WriteSteps
  <2>2. CASE temp # NoFile /\ final' = temp /\ temp' = NoFile /\ HookTo(h, "verify")
    <3>1. OnlyHook(h) /\ hook'[h].at = "verify" /\ hook'[h].reason = hook[h].reason
      BY <2>2, HookIsTo DEF HookSteps, MarkSteps
    <3>2. StepKnows(h)'
      BY <2>2, <3>1 DEF StepKnows, MarkerPresent
    <3>3. HooksAlone /\ "cut" \notin lapses => StepFollows(h)'
      BY <1>0, <3>1 DEF StepFollows, WriteSteps, MarkSteps, ClearSteps, Recorded
    <3>4. "torn" \notin lapses' => \A f \in Hooks \ filled' :
            f \in {final', temp'} => IF f = h THEN hook'[h].at = "fill" ELSE f \in {final, temp}
      <4>1. SUFFICES ASSUME "torn" \notin lapses, h \notin filled, h = temp PROVE FALSE
        BY <1>0, <2>0, <2>2, HooksArePositive DEF Recorded
      <4> QED BY <2>0, <4>1, Acting
    <3> QED BY <1>0, <1>1, <2>0, <2>2, <3>1, <3>2, <3>3, <3>4, Acting, ActKeeps DEF Recorded
  <2> QED BY <1>4, <2>1, <2>2 DEF RenameTemp
<1> QED BY <1>2, <1>3, <1>4

\* A clear that is refused has met another hook or a torn file.
LEMMA RefusalKeeps ==
  ASSUME MarkerInv, NEW h \in Hooks, Active(h), FilesKept, HookEnds(h), UNCHANGED missed,
         hook[h].at \in ClearSteps, lapses' = lapses \union {"unreported"}, ~HooksAlone
  PROVE  MarkerInv'
<1>1. OnlyHook(h) /\ hook'[h].at = "done" /\ h \notin filled /\ hook[h].at # "fill"
  BY HookIsEnded, Acting DEF ClearSteps
<1>2. CommitIsReported' /\ ~HooksAlone'
  BY Acting DEF CommitIsReported, HooksAlone, Lapses
<1>3. lapses \subseteq lapses' /\ lapses' \subseteq Lapses /\ ("overlapped" \in lapses' => "overlapped" \in lapses)
  BY Acting DEF Lapses
<1> QED BY <1>1, <1>2, <1>3, Acting, FilesKeptKeeps DEF MarkSteps

\* A clear that found nothing, or removed what it found.
LEMMA ClearedKeeps ==
  ASSUME MarkerInv, NEW h \in Hooks, Active(h), Cleared(h), UNCHANGED <<final, filled, missed>>,
         temp' \in {temp, NoFile}, hook[h].at \in ClearSteps, HooksAlone => final = NoFile /\ temp' = NoFile
  PROVE  MarkerInv'
<1>1. /\ OnlyHook(h) /\ hook'[h].at \in {"writeName", "done"} /\ h \notin filled /\ hook[h].at # "fill"
      /\ UNCHANGED lapses
  <2> DEFINE r == [Unborn EXCEPT !.at = IF hook[h].named THEN "writeName" ELSE "done"]
  <2>1. r \in HookRecord /\ r.at \in {"writeName", "done"} /\ HookWith(h, r) /\ UNCHANGED lapses
    BY DEF Cleared, Unborn, HookRecord, HookSteps, WriteSteps
  <2> HIDE DEF r
  <2> QED BY <2>1, HookIsWith, Acting DEF ClearSteps
<1>2. CommitIsReported' /\ (HooksAlone' <=> HooksAlone)
  BY <1>1, Acting DEF CommitIsReported, HooksAlone
<1>3. HooksAlone => (final' = NoFile \/ temp' = NoFile) /\ StepKnows(h)'
  BY <1>1 DEF StepKnows
<1>4. HooksAlone /\ "cut" \notin lapses => StepFollows(h)' /\ ~MarkerPresent' /\ missed' = "none"
  BY <1>1, Acting DEF StepFollows, WriteSteps, MarkerPresent, MarkSteps, ClearSteps
<1>5. "torn" \notin lapses' => \A f \in Hooks \ filled' :
        f \in {final', temp'} => IF f = h THEN hook'[h].at = "fill" ELSE f \in {final, temp}
  BY <1>1, Acting, HooksArePositive
<1>6. temp' \in Hooks \union {NoFile}
  BY Acting
<1> QED BY <1>1, <1>2, <1>3, <1>4, <1>5, <1>6, Acting, ActKeeps DEF MarkSteps

\* The steps of a clear.
LEMMA ClearKeeps ==
  ASSUME MarkerInv, NEW h \in Hooks, Clear(h)
  PROVE  MarkerInv'
<1>0. /\ Active(h) /\ hook[h].at \in ClearSteps /\ hook[h] \in HookRecord /\ h \notin filled
      /\ hook[h].at # "fill" /\ UNCHANGED <<filled, missed>>
  <2>1. Active(h) /\ hook[h].at \in ClearSteps /\ UNCHANGED <<filled, missed>>
    BY DEF Clear, ReadFinalToClear, ReadFinal, ReadTempToClear, RemoveFinal, RemoveTemp, HookAt, Active,
           ClearSteps, FilesKept
  <2> QED BY <2>1, Acting DEF ClearSteps
<1>1. CASE ReadFinalToClear(h)
  <2>0. hook[h].at = "readToClear" /\ FilesKept
    BY <1>1 DEF ReadFinalToClear, ReadFinal, HookAt
  <2>1. CASE ReasonIn(final) = "invalid"
    <3>1. ~HooksAlone
      BY <1>0, <2>1, AloneReads
    <3> QED BY <1>0, <1>1, <2>0, <2>1, <3>1, RefusalKeeps DEF ReadFinalToClear, ReadFinal
  <2>2. CASE ReasonIn(final) # "invalid"
    <3>1. ReasonIn(final) \in Reasons \union {"none"}
      BY <2>2, ReasonFound
    <3> DEFINE r == [hook[h] EXCEPT !.at = "readTempToClear", !.final = ReasonIn(final)]
    <3>2. /\ r \in HookRecord /\ r.at = "readTempToClear" /\ r.reason = hook[h].reason
          /\ r.final = ReasonIn(final) /\ HookWith(h, r) /\ Recorded
      BY <1>0, <1>1, <2>2, <3>1
         DEF ReadFinalToClear, ReadFinal, HookRecord, HookSteps, ClearSteps, Recorded
    <3> HIDE DEF r
    <3>3. /\ OnlyHook(h) /\ hook'[h].at = "readTempToClear" /\ hook'[h].reason = hook[h].reason
          /\ hook'[h].final = ReasonIn(final)
      BY <3>2, HookIsWith
    <3>4. StepKnows(h)'
      BY <2>0, <3>3, ReasonStays DEF StepKnows
    <3> QED BY <1>0, <2>0, <3>2, <3>3, <3>4, QuietKeeps DEF MarkSteps, ClearSteps, WriteSteps
  <2> QED BY <2>1, <2>2
<1>2. CASE ReadTempToClear(h)
  <2> DEFINE found == {hook[h].final, ReasonIn(temp)} \ {"none"}
  <2>0. /\ hook[h].at = "readTempToClear" /\ FilesKept /\ UNCHANGED missed
        /\ HooksAlone => /\ hook[h].final = ReasonIn(final)
                         /\ ReasonIn(temp) # "invalid" /\ (final = NoFile \/ temp = NoFile)
    BY <1>0, <1>2, Acting, AloneReads DEF ReadTempToClear, HookAt, StepKnows
  <2>1. ReasonIn(temp) \in Reasons \union {"none", "invalid"} /\ hook[h].final \in Reasons \union {"none"}
    BY <1>0, ReasonFound DEF HookRecord
  <2>2. CASE found = {} /\ Cleared(h)
    <3>1. HooksAlone => final = NoFile /\ temp = NoFile
      BY <2>0, <2>2, ReasonFound DEF Reasons
    <3> QED BY <1>0, <2>0, <2>2, <3>1, ClearedKeeps DEF FilesKept
  <2>3. CASE HookTo(h, "removeFinal") /\ UNCHANGED lapses
    <3>1. OnlyHook(h) /\ hook'[h].at = "removeFinal" /\ hook'[h].reason = hook[h].reason
      BY <2>3, HookIsTo DEF HookSteps, ClearSteps
    <3>2. StepKnows(h)'
      BY <3>1 DEF StepKnows
    <3> QED BY <1>0, <2>0, <2>3, <3>1, <3>2, QuietKeeps DEF Recorded, MarkSteps, ClearSteps, WriteSteps
  <2>4. CASE ("invalid" \in found \/ found = Reasons) /\ ClearRefused(h)
    <3>1. ~HooksAlone
      BY <2>0, <2>1, <2>4, ReasonFound DEF Reasons
    <3> QED BY <1>0, <2>0, <2>4, <3>1, RefusalKeeps DEF ClearRefused
  <2>5. \/ found = {} \/ (\E reason \in Reasons : found = {reason}) \/ "invalid" \in found \/ found = Reasons
    BY <2>1 DEF Reasons
  <2>6. /\ found = {} => Cleared(h)
        /\ (\E reason \in Reasons : found = {reason}) => HookTo(h, "removeFinal") /\ UNCHANGED lapses
        /\ "invalid" \in found \/ found = Reasons => ClearRefused(h)
    <3>1. /\ (\E reason \in Reasons : found = {reason}) => found # {} /\ "invalid" \notin found /\ found # Reasons
          /\ "invalid" \in found \/ found = Reasons => found # {}
      BY DEF Reasons
    <3> HIDE DEF found
    <3>2. CASE found = {}
      BY <1>2, <3>1, <3>2 DEF ReadTempToClear, found
    <3>3. CASE \E reason \in Reasons : found = {reason}
      BY <1>2, <3>1, <3>3 DEF ReadTempToClear, found
    <3>4. CASE "invalid" \in found \/ found = Reasons
      BY <1>2, <3>1, <3>4 DEF ReadTempToClear, found
    <3> QED BY <3>1, <3>2, <3>3, <3>4
  <2> HIDE DEF found
  <2> QED BY <2>2, <2>3, <2>4, <2>5, <2>6
<1>3. CASE RemoveFinal(h)
  <2>0. hook[h].at = "removeFinal" /\ UNCHANGED <<temp, filled, missed>>
    BY <1>3 DEF RemoveFinal, HookAt
  <2>1. CASE ReasonIn(final) = "invalid" /\ ClearRefused(h) /\ UNCHANGED final
    <3>1. ~HooksAlone
      BY <1>0, <2>1, AloneReads
    <3> QED BY <1>0, <2>0, <2>1, <3>1, RefusalKeeps DEF ClearRefused, FilesKept
  <2>2. CASE final' = NoFile /\ HookTo(h, "removeTemp") /\ UNCHANGED lapses
    <3>1. OnlyHook(h) /\ hook'[h].at = "removeTemp" /\ hook'[h].reason = hook[h].reason
      BY <2>2, HookIsTo DEF HookSteps, ClearSteps
    <3>2. StepKnows(h)'
      BY <2>2, <3>1 DEF StepKnows
    <3>3. HooksAlone /\ "cut" \notin lapses => StepFollows(h)'
      BY <1>0, <3>1, Acting DEF StepFollows, WriteSteps, MarkSteps, ClearSteps
    <3>4. CommitIsReported' /\ (HooksAlone' <=> HooksAlone)
      BY <2>2, Acting DEF CommitIsReported, HooksAlone
    <3>5. "torn" \notin lapses' => \A f \in Hooks \ filled' :
            f \in {final', temp'} => IF f = h THEN hook'[h].at = "fill" ELSE f \in {final, temp}
      BY <1>0, <2>0, <2>2, Acting, HooksArePositive
    <3> QED
      BY <1>0, <2>0, <2>2, <3>1, <3>2, <3>3, <3>4, <3>5, Acting, ActKeeps DEF MarkSteps
  <2> QED BY <1>3, <2>1, <2>2 DEF RemoveFinal
<1>4. CASE RemoveTemp(h)
  <2>0. hook[h].at = "removeTemp" /\ UNCHANGED <<final, filled, missed>> /\ (HooksAlone => final = NoFile)
    BY <1>4, Acting DEF RemoveTemp, HookAt, StepKnows
  <2>1. CASE ReasonIn(temp) = "invalid" /\ ClearRefused(h) /\ UNCHANGED temp
    <3>1. ~HooksAlone
      BY <1>0, <2>1, AloneReads
    <3> QED BY <1>0, <2>0, <2>1, <3>1, RefusalKeeps DEF ClearRefused, FilesKept
  <2>2. CASE temp' = NoFile /\ Cleared(h)
    BY <1>0, <2>0, <2>2, ClearedKeeps
  <2> QED BY <1>4, <2>1, <2>2 DEF RemoveTemp
<1> QED BY <1>1, <1>2, <1>3, <1>4 DEF Clear

\* A hook that stops early leaves what it wrote, and the history says so.
LEMMA StopKeeps ==
  ASSUME MarkerInv, NEW h \in Hooks, HookStopsEarly(h)
  PROVE  MarkerInv'
<1>0. /\ Active(h) /\ FilesKept /\ UNCHANGED missed /\ OnlyHook(h) /\ hook'[h].at = "done"
      /\ hook'[h].reason = hook[h].reason
  BY HookIsEnded DEF HookStopsEarly
<1>1. lapses' = CASE hook[h].at = "fill" -> lapses \union {"torn"}
                  [] hook[h].at \in Harmless -> lapses
                  [] hook[h].at \notin {"fill"} \union Harmless -> lapses \union {"cut"}
  BY DEF HookStopsEarly, HookAt
<1>2. /\ lapses \subseteq lapses' /\ lapses' \subseteq Lapses /\ (hook[h].at = "fill" => "torn" \in lapses')
      /\ "overlapped" \in lapses' => "overlapped" \in lapses
      /\ "unreported" \in lapses' => "unreported" \in lapses
      /\ "cut" \notin lapses' => hook[h].at \in {"fill"} \union Harmless
  BY <1>1, Acting DEF Lapses, Harmless
<1>3. CommitIsReported' /\ StepKnows(h)'
  BY <1>0, <1>2, Acting DEF CommitIsReported, StepKnows
<1>4. HooksAlone' /\ "cut" \notin lapses' => StepFollows(h)' /\ (MarkerPresent <=> missed' = "marked")
  <2>1. SUFFICES ASSUME HooksAlone', "cut" \notin lapses' PROVE MarkerPresent <=> missed = "marked"
    BY <1>0 DEF StepFollows, WriteSteps, MarkSteps, ClearSteps
  <2>2. HooksAlone /\ "cut" \notin lapses /\ hook[h].at \in Harmless
    BY <1>2, <2>1 DEF HooksAlone
  <2>3. StepKnows(h) /\ StepFollows(h)
    BY <2>2, Acting
  <2> QED BY <2>2, <2>3 DEF StepKnows, StepFollows, WriteSteps, Harmless, MarkSteps, MarkerPresent
<1> QED BY <1>0, <1>2, <1>3, <1>4, Acting, FilesKeptKeeps DEF MarkSteps

-----------------------------------------------------------------------------

\* Nothing is marked at first.
LEMMA MarkerStarts == MarkerInit => MarkerInv
<1> SUFFICES ASSUME MarkerInit PROVE MarkerInv
  OBVIOUS
<1>1. /\ \A h \in Hooks : hook[h] = Unborn
      /\ final = NoFile /\ temp = NoFile /\ filled = {} /\ lapses = {} /\ missed = "none"
  BY DEF MarkerInit
<1>2. Unborn \in HookRecord /\ Unborn.at = "idle"
  BY DEF Unborn, HookRecord, HookSteps
<1>3. MarkerTypeOK
  BY <1>1, <1>2, MarkerTyped DEF MarkerInit
<1>4. \A h \in Hooks : ~Active(h) /\ StepKnows(h) /\ StepFollows(h)
  BY <1>1, <1>2 DEF Active, StepKnows, StepFollows, WriteSteps, MarkSteps, ClearSteps
<1>5. ReasonsKept /\ UnfilledIsAtWork /\ CommitIsReported
  BY <1>1, <1>2, HooksArePositive DEF ReasonsKept, UnfilledIsAtWork, CommitIsReported, MarkSteps
<1> QED
  BY <1>1, <1>3, <1>4, <1>5 DEF MarkerInv, OneByOne, AloneIsKnown, MarkerFollows, MarkerPresent

\* A step of something else changes no part of the invariant.
LEMMA MarkerStutters == ASSUME MarkerInv, UNCHANGED markerVars PROVE MarkerInv'
BY DEF markerVars, MarkerInv, MarkerTypeOK, ReasonsKept, UnfilledIsAtWork, OneByOne, AloneIsKnown, MarkerFollows,
       CommitIsReported, HooksAlone, AtRest, Active, StepKnows, StepFollows, WriteSteps, MarkerPresent, ReasonIn

\* Every step of the hooks keeps the invariant.
LEMMA MarkerStep == MarkerInv /\ [MarkerNext]_markerVars => MarkerInv'
BY StartKeeps, WriteKeeps, MarkReadsKeep, MarkWritesKeep, ClearKeeps, StopKeeps, MarkerStutters
   DEF MarkerNext, Mark

\* The invariant, for any number of hooks.
THEOREM MarkerInvariant == MarkerSpec => []MarkerInv
BY MarkerStep, MarkerStarts, PTL DEF MarkerSpec

\* The files, the hooks and the history keep their types.
THEOREM MarkerTypeCorrect == MarkerSpec => []MarkerTypeOK
<1>1. MarkerInv => MarkerTypeOK
  BY DEF MarkerInv
<1> QED BY <1>1, MarkerInvariant, PTL

\* The invariant of the marker says what the property says.
LEMMA MarkerMeans == MarkerInv => MarkerIsSound
<1> SUFFICES ASSUME MarkerInv PROVE MarkerIsSound
  OBVIOUS
<1>1. MarkerIsCurrent
  BY HooksArePositive
     DEF MarkerInv, MarkerFollows, MarkerIsCurrent, HooksAlone, MarkerPresent
<1>2. RestIsReadable
  <2>1. SUFFICES ASSUME AtRest, "torn" \notin lapses, NEW f \in {final, temp}, f # NoFile, f \notin filled
                 PROVE  FALSE
    BY DEF RestIsReadable
  <2>2. f \in Hooks \ filled
    BY <2>1, MarkerTyped DEF MarkerInv
  <2>3. hook[f].at = "fill"
    BY <2>1, <2>2 DEF MarkerInv, UnfilledIsAtWork
  <2> QED BY <2>1, <2>2, <2>3 DEF AtRest, Active
<1> QED BY <1>1, <1>2 DEF MarkerInv, MarkerIsSound

\* However many hooks there are and wherever each is killed: a marker is there
\* exactly if a write failed since the last commit other than by a statement of
\* an event, a committed write is reported, and no unreadable file is left, as
\* far as no overlap, torn file or early stop interferes.
THEOREM MarkerIsSoundHolds == MarkerSpec => []MarkerIsSound
BY MarkerMeans, MarkerInvariant, PTL

-----------------------------------------------------------------------------
(* Reviews.                                                                *)

CleanupSteps == {"locate", "moveMarker", "moveFolder", "removeFolder", "removeMarker"}
Unmarking == {"idle", "make", "mark"}

\* A reviewer cleans up its own review, the closer another's, once the
\* presentation is stopped.
RecordsAreRight ==
  /\ \A r \in Reviewers : owner[r].record = r
  /\ owner[Closer].at \in CleanupSteps => owner[Closer].record \in Reviewers
  /\ owner[Closer].at \in CleanupSteps \union {"recover", "check", "closed"} => stopping

\* Who may own a marker, under which of its names.
MarkersAreOwned ==
  /\ Marked => reviewMarker.reviewer \in Reviewers
  /\ \A r \in Reviewers :
       /\ owner[r].at = "write" => reviewMarker = [reviewer |-> r, whole |-> FALSE]
       /\ owner[r].at \in Unmarking => reviewMarker.reviewer # r /\ r \notin retired
       /\ r \in retired => reviewMarker.reviewer # r

\* The closer follows a record that a reviewer left, and only moves a marker
\* that was written.
ClosesWritten ==
  LET c == owner[Closer] IN
  /\ c.at \in CleanupSteps => owner[c.record].at \notin {"idle", "make"}
  /\ c.at = "moveMarker" \/ (c.marked /\ c.at \in {"moveFolder", "removeFolder", "removeMarker"})
       => owner[c.record].at \notin Unmarking \union {"write"}

MovesMarked == \A x \in Everyone : owner[x].at = "moveMarker" => owner[x].marked

MakingHasFolder ==
  \A r \in Reviewers : /\ owner[r].at \in {"idle", "make"} => folder[r] = "none"
                       /\ owner[r].at \in {"mark", "write"} /\ ~stopping => folder[r] = "active"

Clean == "torn" \notin mishaps /\ "littered" \notin mishaps

CleanIsWhole ==
  /\ "littered" \notin mishaps => littered = {}
  /\ "torn" \notin mishaps => \A r \in Reviewers :
       reviewMarker = [reviewer |-> r, whole |-> FALSE] => owner[r].at = "write"

\* Without two creations at once there is never a trace of two reviewers.
Trace(r) == \/ folder[r] # "none" \/ reviewMarker.reviewer = r \/ r \in retired
            \/ owner[r].at \in MakingReview

OneTrace == "overlapped" \notin mishaps => \A r, s \in Reviewers : Trace(r) /\ Trace(s) => r = s

\* Where nothing is abandoned somebody is left to remove what there is.
AtWork(r) == reviewMarker = [reviewer |-> r, whole |-> TRUE] /\ r \notin retired
Retired(r) == reviewMarker.reviewer # r /\ r \in retired
Unmarked(r) == reviewMarker.reviewer # r /\ r \notin retired
Removed(r) == Unmarked(r) /\ folder[r] = "none"
ClosingOn(r) ==
  LET c == owner[Closer] IN
  /\ c.record = r /\ c.marked
  /\ c.at = "moveFolder" \/ (c.at = "removeFolder" /\ folder[r] = "retiring") \/ c.at = "removeMarker"

InCharge(r) ==
  LET o == owner[r] IN
  /\ o.at = "unmake" => Unmarked(r)
  /\ o.at \in {"review", "moveMarker"} \/ (o.at = "locate" /\ o.tries = 1)
       => AtWork(r) \/ (Retired(r) /\ ClosingOn(r)) \/ Removed(r)
  /\ o.at = "moveMarker" => o.tries = 1
  /\ o.at = "locate" => o.tries \in {1, 2}
  /\ o.at \in {"moveFolder", "removeFolder", "removeMarker"} => Removed(r) \/ (Retired(r) /\ o.marked)
  /\ o.at = "removeFolder" => folder[r] \in {"retiring", "none"}
  /\ o.at = "removeMarker" => folder[r] = "none"
  /\ o.at = "done" \/ (o.at = "locate" /\ o.tries = 2)
       => Removed(r) \/ (Retired(r) /\ (ClosingOn(r) \/ folder[r] = "none"))
  /\ r \in retired /\ (o.at \in {"locate", "done"} \/ (o.at = "removeFolder" /\ folder[r] = "none"))
       => owner[Closer].record = r

ClosingIsInOrder ==
  LET c == owner[Closer] IN
  /\ c.at = "removeFolder" => folder[c.record] \in {"retiring", "none"}
  /\ c.at = "removeMarker" => folder[c.record] = "none" /\ c.marked

ReviewersInCharge ==
  "abandoned" \notin mishaps /\ Clean => ClosingIsInOrder /\ \A r \in Reviewers : InCharge(r)

ReviewInv == /\ ReviewTypeOK /\ RecordsAreRight /\ MarkersAreOwned /\ ClosesWritten /\ MovesMarked /\ MakingHasFolder
             /\ ReviewIsOwned /\ CleanIsWhole /\ OneTrace /\ ReviewersInCharge

-----------------------------------------------------------------------------

OwnerSteps == {"idle", "make", "mark", "write", "unmake", "review", "locate", "moveMarker", "moveFolder",
               "removeFolder", "removeMarker", "kill", "recover", "check", "done", "closed"}
OwnerRecord == [at : OwnerSteps, record : Everyone, marked : BOOLEAN, tries : {0, 1, 2}]
OneMaking == \A r, s \in Reviewers : owner[r].at \in MakingReview /\ owner[s].at \in MakingReview => r = s

\* The types with the set of owner records under a name.
LEMMA ReviewTyped == ReviewTypeOK <=> /\ folder \in [Reviewers -> {"none", "active", "retiring"}]
                                     /\ littered \subseteq Reviewers
                                     /\ reviewMarker \in [reviewer : Everyone, whole : BOOLEAN]
                                     /\ retired \subseteq Reviewers
                                     /\ owner \in [Everyone -> OwnerRecord]
                                     /\ stopping \in BOOLEAN
                                     /\ mishaps \subseteq {"overlapped", "torn", "littered", "abandoned"}
BY DEF ReviewTypeOK, OwnerRecord, OwnerSteps

\* Process x alone moves, to the given step, record and so on.
Goes(x, step, record, marked, tries) ==
  /\ owner' \in [Everyone -> OwnerRecord]
  /\ owner'[x].at = step /\ owner'[x].record = record /\ owner'[x].marked = marked /\ owner'[x].tries = tries
  /\ \A y \in Everyone : y # x => owner'[y] = owner[y]

\* What that records in the history.
Overlaps ==
  /\ \A m \in {"torn", "littered", "abandoned"} : m \in mishaps' <=> m \in mishaps
  /\ "overlapped" \notin mishaps' => "overlapped" \notin mishaps /\ OneMaking'

\* A process that becomes o is the only one that moves.
LEMMA OwnerGoes ==
  ASSUME ReviewTypeOK, NEW x \in Everyone, NEW o \in OwnerRecord, OwnerBecomes(x, o)
  PROVE  /\ Goes(x, o.at, o.record, o.marked, o.tries) /\ Overlaps
         /\ mishaps' \subseteq {"overlapped", "torn", "littered", "abandoned"}
<1>1. owner' \in [Everyone -> OwnerRecord] /\ owner'[x] = o /\ \A y \in Everyone : y # x => owner'[y] = owner[y]
  BY ReviewTyped DEF OwnerBecomes
<1>2. Goes(x, o.at, o.record, o.marked, o.tries)
  BY <1>1 DEF Goes
<1>3. mishaps' \in {mishaps, mishaps \union {"overlapped"}}
  BY DEF OwnerBecomes
<1>4. "overlapped" \notin mishaps' => OneMaking'
  BY DEF OwnerBecomes, OneMaking
<1>5. "overlapped" \notin mishaps' => "overlapped" \notin mishaps
  BY <1>3
<1>6. \A m \in {"torn", "littered", "abandoned"} : m \in mishaps' <=> m \in mishaps
  BY <1>3
<1>7. mishaps' \subseteq {"overlapped", "torn", "littered", "abandoned"}
  BY <1>3, ReviewTyped
<1> QED BY <1>2, <1>4, <1>5, <1>6, <1>7 DEF Overlaps

\* The fields of an owner record.
LEMMA RecordFields ==
  ASSUME ReviewTypeOK, NEW x \in Everyone
  PROVE  /\ owner[x] \in OwnerRecord /\ owner[x].at \in OwnerSteps /\ owner[x].record \in Everyone
         /\ owner[x].marked \in BOOLEAN /\ owner[x].tries \in {0, 1, 2}
<1>1. owner[x] \in OwnerRecord
  BY ReviewTyped
<1> QED BY <1>1 DEF OwnerRecord

\* It goes to another step.
LEMMA StepGoes ==
  ASSUME ReviewTypeOK, NEW x \in Everyone, NEW step \in OwnerSteps, OwnerTo(x, step)
  PROVE  /\ Goes(x, step, owner[x].record, owner[x].marked, owner[x].tries) /\ Overlaps
         /\ mishaps' \subseteq {"overlapped", "torn", "littered", "abandoned"}
<1> DEFINE o == [owner[x] EXCEPT !.at = step]
<1>1. o \in OwnerRecord
  BY RecordFields DEF OwnerRecord
<1>2. o.at = step /\ o.record = owner[x].record /\ o.marked = owner[x].marked /\ o.tries = owner[x].tries
  BY RecordFields DEF OwnerRecord
<1>3. OwnerBecomes(x, o)
  BY DEF OwnerTo
<1> HIDE DEF o
<1> QED BY <1>1, <1>2, <1>3, OwnerGoes

\* The same, with what it knows of the marker.
LEMMA MarkedGoes ==
  ASSUME ReviewTypeOK, NEW x \in Everyone, NEW step \in OwnerSteps, NEW marked \in BOOLEAN,
         OwnerBecomes(x, [owner[x] EXCEPT !.at = step, !.marked = marked])
  PROVE  /\ Goes(x, step, owner[x].record, marked, owner[x].tries) /\ Overlaps
         /\ mishaps' \subseteq {"overlapped", "torn", "littered", "abandoned"}
<1> DEFINE o == [owner[x] EXCEPT !.at = step, !.marked = marked]
<1>1. o \in OwnerRecord
  BY RecordFields DEF OwnerRecord
<1>2. o.at = step /\ o.record = owner[x].record /\ o.marked = marked /\ o.tries = owner[x].tries
  BY RecordFields DEF OwnerRecord
<1>3. OwnerBecomes(x, o)
  BY DEF OwnerTo
<1> HIDE DEF o
<1> QED BY <1>1, <1>2, <1>3, OwnerGoes

\* The same, with the number of its attempts.
LEMMA TriesGoes ==
  ASSUME ReviewTypeOK, NEW x \in Everyone, NEW step \in OwnerSteps, NEW tries \in {0, 1, 2},
         OwnerBecomes(x, [owner[x] EXCEPT !.at = step, !.tries = tries])
  PROVE  /\ Goes(x, step, owner[x].record, owner[x].marked, tries) /\ Overlaps
         /\ mishaps' \subseteq {"overlapped", "torn", "littered", "abandoned"}
<1> DEFINE o == [owner[x] EXCEPT !.at = step, !.tries = tries]
<1>1. o \in OwnerRecord
  BY RecordFields DEF OwnerRecord
<1>2. o.at = step /\ o.record = owner[x].record /\ o.marked = owner[x].marked /\ o.tries = tries
  BY RecordFields DEF OwnerRecord
<1>3. OwnerBecomes(x, o)
  BY DEF OwnerTo
<1> HIDE DEF o
<1> QED BY <1>1, <1>2, <1>3, OwnerGoes

\* The same, with the record it follows.
LEMMA RecordGoes ==
  ASSUME ReviewTypeOK, NEW x \in Everyone, NEW step \in OwnerSteps, NEW record \in Everyone,
         OwnerBecomes(x, [owner[x] EXCEPT !.at = step, !.record = record])
  PROVE  /\ Goes(x, step, record, owner[x].marked, owner[x].tries) /\ Overlaps
         /\ mishaps' \subseteq {"overlapped", "torn", "littered", "abandoned"}
<1> DEFINE o == [owner[x] EXCEPT !.at = step, !.record = record]
<1>1. o \in OwnerRecord
  BY RecordFields DEF OwnerRecord
<1>2. o.at = step /\ o.record = record /\ o.marked = owner[x].marked /\ o.tries = owner[x].tries
  BY RecordFields DEF OwnerRecord
<1>3. OwnerBecomes(x, o)
  BY DEF OwnerTo
<1> HIDE DEF o
<1> QED BY <1>1, <1>2, <1>3, OwnerGoes

\* The same, with a record that has no marker.
LEMMA UnmarkedGoes ==
  ASSUME ReviewTypeOK, NEW x \in Everyone, NEW step \in OwnerSteps, NEW record \in Everyone,
         OwnerBecomes(x, [owner[x] EXCEPT !.at = step, !.record = record, !.marked = FALSE])
  PROVE  /\ Goes(x, step, record, FALSE, owner[x].tries) /\ Overlaps
         /\ mishaps' \subseteq {"overlapped", "torn", "littered", "abandoned"}
<1> DEFINE o == [owner[x] EXCEPT !.at = step, !.record = record, !.marked = FALSE]
<1>1. o \in OwnerRecord
  BY RecordFields DEF OwnerRecord
<1>2. o.at = step /\ o.record = record /\ o.marked = FALSE /\ o.tries = owner[x].tries
  BY RecordFields DEF OwnerRecord
<1>3. OwnerBecomes(x, o)
  BY DEF OwnerTo
<1> HIDE DEF o
<1> QED BY <1>1, <1>2, <1>3, OwnerGoes


-----------------------------------------------------------------------------

\* A creation starts; two of them at once are recorded.
LEMMA CreateReviewKeeps ==
  ASSUME ReviewInv, NEW r \in Reviewers, CreateReview(r)
  PROVE  ReviewInv'
<1>1. r \in Everyone /\ owner[r].at = "idle"
  BY DEF CreateReview, Everyone, OwnerAt
<1>2. /\ Goes(r, "make", owner[r].record, owner[r].marked, owner[r].tries) /\ Overlaps
      /\ mishaps' \subseteq {"overlapped", "torn", "littered", "abandoned"}
  BY <1>1, StepGoes DEF ReviewInv, CreateReview, OwnerSteps
<1>3. /\ folder' = folder /\ littered' = littered
      /\ reviewMarker' = reviewMarker /\ retired' = retired /\ stopping' = stopping
  BY ReviewTyped DEF ReviewInv, CreateReview, KeepFiles
<1>4. ReviewTypeOK
  BY DEF ReviewInv
<1>5. \A s \in Reviewers : folder[s] = "none" /\ reviewMarker.reviewer # s /\ s \notin retired
  BY CloserAssumption DEF CreateReview, NothingThere, Folders, Marked, NoMarker
<1>6. ReviewTypeOK'
  BY <1>1, <1>2, <1>3, <1>4, <1>5 DEF Goes, ReviewTypeOK, OwnerRecord, OwnerSteps
<1>7. RecordsAreRight' /\ MovesMarked'
  BY <1>1, <1>2, <1>3, <1>4, <1>5, CloserAssumption
  DEF ReviewInv, Goes, Overlaps, RecordsAreRight, MovesMarked, CleanupSteps, Everyone
<1>8. ClosesWritten'
  BY <1>1, <1>2, <1>3, <1>4, <1>5, CloserAssumption
  DEF ReviewInv, Goes, Overlaps, ClosesWritten, RecordsAreRight, MarkersAreOwned, MakingHasFolder, Unmarking,
      CleanupSteps, Everyone
<1>9. MarkersAreOwned' /\ CleanIsWhole'
  BY <1>1, <1>2, <1>3, <1>4, <1>5, CloserAssumption
  DEF ReviewInv, Goes, Overlaps, MarkersAreOwned, CleanIsWhole, ClosesWritten, RecordsAreRight, CleanupSteps,
      Unmarking, Marked, NoMarker, Everyone
<1>10. MakingHasFolder' /\ ReviewIsOwned'
  BY <1>1, <1>2, <1>3, <1>4, <1>5, CloserAssumption
  DEF ReviewInv, Goes, Overlaps, ReviewIsOwned, RecordsAreRight, MakingHasFolder, MarkersAreOwned, CleanupSteps,
      OwnerAt, Unmarking, Marked, NoMarker, Everyone
<1>11. OneTrace'
  BY <1>1, <1>2, <1>3, <1>4, <1>5, CloserAssumption
  DEF ReviewInv, Goes, Overlaps, OneTrace, OneMaking, Trace, MakingReview, RecordsAreRight, CleanupSteps, Everyone
<1>12. ReviewersInCharge'
  <2> USE CloserAssumption DEF ReviewInv, Clean, Goes, InCharge, AtWork, Retired, Unmarked, Removed, ClosingOn,
          RecordsAreRight, MarkersAreOwned, ClosesWritten, CleanupSteps, Unmarking, Marked, NoMarker, Everyone,
          ClosingIsInOrder, MakingHasFolder
  <2>1. SUFFICES ASSUME "abandoned" \notin mishaps', Clean' PROVE ClosingIsInOrder' /\ \A s \in Reviewers : InCharge(s)'
    BY DEF ReviewersInCharge
  <2>2. ClosingIsInOrder /\ (\A s \in Reviewers : InCharge(s)) /\ littered = {}
    BY <1>1, <1>2, <1>3, <1>4, <1>5, <2>1 DEF ReviewersInCharge, CleanIsWhole, Overlaps
  <2>3. ClosingIsInOrder'
    BY <1>1, <1>2, <1>3, <1>4, <1>5, <2>1, <2>2
  <2>4. InCharge(r)'
    BY <1>1, <1>2, <1>3, <1>4, <1>5, <2>1, <2>2
  <2>5. ASSUME NEW s \in Reviewers, s # r PROVE InCharge(s)'
    BY <1>1, <1>2, <1>3, <1>4, <1>5, <2>2, <2>5
  <2> QED BY <2>3, <2>4, <2>5
<1> QED
  BY <1>6, <1>7, <1>8, <1>9, <1>10, <1>11, <1>12 DEF ReviewInv

\* The folder is made.
LEMMA MakeFolderKeeps ==
  ASSUME ReviewInv, NEW r \in Reviewers, MakeFolder(r)
  PROVE  ReviewInv'
<1>1. r \in Everyone /\ owner[r].at = "make"
  BY DEF MakeFolder, Everyone, OwnerAt
<1>2. /\ Goes(r, "mark", owner[r].record, owner[r].marked, owner[r].tries) /\ Overlaps
      /\ mishaps' \subseteq {"overlapped", "torn", "littered", "abandoned"}
  BY <1>1, StepGoes DEF ReviewInv, MakeFolder, OwnerSteps
<1>3. /\ folder' \in [Reviewers -> {"none", "active", "retiring"}] /\ folder'[r] = "active"
      /\ \A s \in Reviewers : s # r => folder'[s] = folder[s]
      /\ littered' = littered /\ reviewMarker' = reviewMarker /\ retired' = retired /\ stopping' = stopping
  BY ReviewTyped DEF ReviewInv, MakeFolder, KeepFiles
<1>4. ReviewTypeOK
  BY DEF ReviewInv
<1>5. ReviewTypeOK'
  BY <1>1, <1>2, <1>3, <1>4 DEF Goes, ReviewTypeOK, OwnerRecord, OwnerSteps
<1>6. RecordsAreRight' /\ MovesMarked'
  BY <1>1, <1>2, <1>3, <1>4, CloserAssumption
  DEF ReviewInv, Goes, Overlaps, RecordsAreRight, MovesMarked, CleanupSteps, Everyone
<1>7. ClosesWritten'
  BY <1>1, <1>2, <1>3, <1>4, CloserAssumption
  DEF ReviewInv, Goes, Overlaps, ClosesWritten, RecordsAreRight, MarkersAreOwned, MakingHasFolder, Unmarking,
      CleanupSteps, Everyone
<1>8. MarkersAreOwned' /\ CleanIsWhole'
  BY <1>1, <1>2, <1>3, <1>4, CloserAssumption
  DEF ReviewInv, Goes, Overlaps, MarkersAreOwned, CleanIsWhole, ClosesWritten, RecordsAreRight, CleanupSteps,
      Unmarking, Marked, NoMarker, Everyone
<1>9. MakingHasFolder' /\ ReviewIsOwned'
  BY <1>1, <1>2, <1>3, <1>4, CloserAssumption
  DEF ReviewInv, Goes, Overlaps, ReviewIsOwned, RecordsAreRight, MakingHasFolder, MarkersAreOwned, CleanupSteps,
      OwnerAt, Unmarking, Marked, NoMarker, Everyone
<1>10. OneTrace'
  BY <1>1, <1>2, <1>3, <1>4, CloserAssumption
  DEF ReviewInv, Goes, Overlaps, OneTrace, OneMaking, Trace, MakingReview, RecordsAreRight, CleanupSteps, Everyone
<1>11. ReviewersInCharge'
  <2> USE CloserAssumption DEF ReviewInv, Clean, Goes, InCharge, AtWork, Retired, Unmarked, Removed, ClosingOn,
          RecordsAreRight, MarkersAreOwned, ClosesWritten, CleanupSteps, Unmarking, Marked, NoMarker, Everyone,
          ClosingIsInOrder, MakingHasFolder
  <2>1. SUFFICES ASSUME "abandoned" \notin mishaps', Clean' PROVE ClosingIsInOrder' /\ \A s \in Reviewers : InCharge(s)'
    BY DEF ReviewersInCharge
  <2>2. ClosingIsInOrder /\ (\A s \in Reviewers : InCharge(s)) /\ littered = {}
    BY <1>1, <1>2, <1>3, <1>4, <2>1 DEF ReviewersInCharge, CleanIsWhole, Overlaps
  <2>3. ClosingIsInOrder'
    BY <1>1, <1>2, <1>3, <1>4, <2>1, <2>2
  <2>4. InCharge(r)'
    BY <1>1, <1>2, <1>3, <1>4, <2>1, <2>2
  <2>5. ASSUME NEW s \in Reviewers, s # r PROVE InCharge(s)'
    BY <1>1, <1>2, <1>3, <1>4, <2>2, <2>5
  <2> QED BY <2>3, <2>4, <2>5
<1> QED
  BY <1>5, <1>6, <1>7, <1>8, <1>9, <1>10, <1>11 DEF ReviewInv

\* The folder of a creation that failed is removed.
LEMMA UnmakeFolderKeeps ==
  ASSUME ReviewInv, NEW r \in Reviewers, UnmakeFolder(r)
  PROVE  ReviewInv'
<1>1. r \in Everyone /\ owner[r].at = "unmake"
  BY DEF UnmakeFolder, Everyone, OwnerAt
<1>2. /\ Goes(r, "done", owner[r].record, owner[r].marked, owner[r].tries) /\ Overlaps
      /\ mishaps' \subseteq {"overlapped", "torn", "littered", "abandoned"}
  BY <1>1, StepGoes DEF ReviewInv, UnmakeFolder, OwnerSteps
<1>3. /\ folder' \in [Reviewers -> {"none", "active", "retiring"}] /\ folder'[r] = "none"
      /\ \A s \in Reviewers : s # r => folder'[s] = folder[s]
      /\ littered' = littered /\ reviewMarker' = reviewMarker /\ retired' = retired /\ stopping' = stopping
  BY ReviewTyped DEF ReviewInv, UnmakeFolder, KeepFiles
<1>4. ReviewTypeOK
  BY DEF ReviewInv
<1>5. ReviewTypeOK'
  BY <1>1, <1>2, <1>3, <1>4 DEF Goes, ReviewTypeOK, OwnerRecord, OwnerSteps
<1>6. RecordsAreRight' /\ MovesMarked'
  BY <1>1, <1>2, <1>3, <1>4, CloserAssumption
  DEF ReviewInv, Goes, Overlaps, RecordsAreRight, MovesMarked, CleanupSteps, Everyone
<1>7. ClosesWritten'
  BY <1>1, <1>2, <1>3, <1>4, CloserAssumption
  DEF ReviewInv, Goes, Overlaps, ClosesWritten, RecordsAreRight, MarkersAreOwned, MakingHasFolder, Unmarking,
      CleanupSteps, Everyone
<1>8. MarkersAreOwned' /\ CleanIsWhole'
  BY <1>1, <1>2, <1>3, <1>4, CloserAssumption
  DEF ReviewInv, Goes, Overlaps, MarkersAreOwned, CleanIsWhole, ClosesWritten, RecordsAreRight, CleanupSteps,
      Unmarking, Marked, NoMarker, Everyone
<1>9. MakingHasFolder' /\ ReviewIsOwned'
  BY <1>1, <1>2, <1>3, <1>4, CloserAssumption
  DEF ReviewInv, Goes, Overlaps, ReviewIsOwned, RecordsAreRight, MakingHasFolder, MarkersAreOwned, CleanupSteps,
      OwnerAt, Unmarking, Marked, NoMarker, Everyone
<1>10. OneTrace'
  BY <1>1, <1>2, <1>3, <1>4, CloserAssumption
  DEF ReviewInv, Goes, Overlaps, OneTrace, OneMaking, Trace, MakingReview, RecordsAreRight, CleanupSteps, Everyone
<1>11. ReviewersInCharge'
  <2> USE CloserAssumption DEF ReviewInv, Clean, Goes, InCharge, AtWork, Retired, Unmarked, Removed, ClosingOn,
          RecordsAreRight, MarkersAreOwned, ClosesWritten, CleanupSteps, Unmarking, Marked, NoMarker, Everyone,
          ClosingIsInOrder, MakingHasFolder
  <2>1. SUFFICES ASSUME "abandoned" \notin mishaps', Clean' PROVE ClosingIsInOrder' /\ \A s \in Reviewers : InCharge(s)'
    BY DEF ReviewersInCharge
  <2>2. ClosingIsInOrder /\ (\A s \in Reviewers : InCharge(s)) /\ littered = {}
    BY <1>1, <1>2, <1>3, <1>4, <2>1 DEF ReviewersInCharge, CleanIsWhole, Overlaps
  <2>3. ClosingIsInOrder'
    BY <1>1, <1>2, <1>3, <1>4, <2>1, <2>2
  <2>4. InCharge(r)'
    BY <1>1, <1>2, <1>3, <1>4, <2>1, <2>2
  <2>5. ASSUME NEW s \in Reviewers, s # r PROVE InCharge(s)'
    BY <1>1, <1>2, <1>3, <1>4, <2>2, <2>5
  <2> QED BY <2>3, <2>4, <2>5
<1> QED
  BY <1>5, <1>6, <1>7, <1>8, <1>9, <1>10, <1>11 DEF ReviewInv

\* A close begins with what it can read and recover.
LEMMA ValidateReviewKeeps ==
  ASSUME ReviewInv, ValidateReview
  PROVE  ReviewInv'
<1>1. Closer \in Everyone /\ owner[Closer].at = "idle"
  BY DEF ValidateReview, Everyone, OwnerAt
<1>2. /\ Goes(Closer, "kill", owner[Closer].record, owner[Closer].marked, owner[Closer].tries) /\ Overlaps
      /\ mishaps' \subseteq {"overlapped", "torn", "littered", "abandoned"}
  BY <1>1, StepGoes DEF ReviewInv, ValidateReview, OwnerSteps
<1>3. /\ folder' = folder /\ littered' = littered
      /\ reviewMarker' = reviewMarker /\ retired' = retired /\ stopping' = stopping
  BY ReviewTyped DEF ReviewInv, ValidateReview, KeepFiles
<1>4. ReviewTypeOK
  BY DEF ReviewInv
<1>5. ReviewTypeOK'
  BY <1>1, <1>2, <1>3, <1>4 DEF Goes, ReviewTypeOK, OwnerRecord, OwnerSteps
<1>6. RecordsAreRight' /\ MovesMarked'
  BY <1>1, <1>2, <1>3, <1>4, CloserAssumption
  DEF ReviewInv, Goes, Overlaps, RecordsAreRight, MovesMarked, CleanupSteps, Everyone
<1>7. ClosesWritten'
  BY <1>1, <1>2, <1>3, <1>4, CloserAssumption
  DEF ReviewInv, Goes, Overlaps, ClosesWritten, RecordsAreRight, MarkersAreOwned, MakingHasFolder, Unmarking,
      CleanupSteps, Everyone
<1>8. MarkersAreOwned' /\ CleanIsWhole'
  BY <1>1, <1>2, <1>3, <1>4, CloserAssumption
  DEF ReviewInv, Goes, Overlaps, MarkersAreOwned, CleanIsWhole, ClosesWritten, RecordsAreRight, CleanupSteps,
      Unmarking, Marked, NoMarker, Everyone
<1>9. MakingHasFolder' /\ ReviewIsOwned'
  BY <1>1, <1>2, <1>3, <1>4, CloserAssumption
  DEF ReviewInv, Goes, Overlaps, ReviewIsOwned, RecordsAreRight, MakingHasFolder, MarkersAreOwned, CleanupSteps,
      OwnerAt, Unmarking, Marked, NoMarker, Everyone
<1>10. OneTrace'
  BY <1>1, <1>2, <1>3, <1>4, CloserAssumption
  DEF ReviewInv, Goes, Overlaps, OneTrace, OneMaking, Trace, MakingReview, RecordsAreRight, CleanupSteps, Everyone
<1>11. ReviewersInCharge'
  <2> USE CloserAssumption DEF ReviewInv, Clean, Goes, InCharge, AtWork, Retired, Unmarked, Removed, ClosingOn,
          RecordsAreRight, MarkersAreOwned, ClosesWritten, CleanupSteps, Unmarking, Marked, NoMarker, Everyone,
          ClosingIsInOrder, MakingHasFolder
  <2>1. SUFFICES ASSUME "abandoned" \notin mishaps', Clean' PROVE ClosingIsInOrder' /\ \A s \in Reviewers : InCharge(s)'
    BY DEF ReviewersInCharge
  <2>2. ClosingIsInOrder /\ (\A s \in Reviewers : InCharge(s)) /\ littered = {}
    BY <1>1, <1>2, <1>3, <1>4, <2>1 DEF ReviewersInCharge, CleanIsWhole, Overlaps
  <2>3. ClosingIsInOrder'
    BY <1>1, <1>2, <1>3, <1>4, <2>1, <2>2
  <2>4. ASSUME NEW s \in Reviewers PROVE InCharge(s)'
    BY <1>1, <1>2, <1>3, <1>4, <2>1, <2>2
  <2> QED BY <2>3, <2>4
<1> QED
  BY <1>5, <1>6, <1>7, <1>8, <1>9, <1>10, <1>11 DEF ReviewInv

\* From the kill on no reviewer runs Codex.
LEMMA KillPresentationKeeps ==
  ASSUME ReviewInv, KillPresentation
  PROVE  ReviewInv'
<1>1. Closer \in Everyone /\ owner[Closer].at = "kill"
  BY DEF KillPresentation, Everyone, OwnerAt
<1>2. /\ Goes(Closer, "recover", owner[Closer].record, owner[Closer].marked, owner[Closer].tries) /\ Overlaps
      /\ mishaps' \subseteq {"overlapped", "torn", "littered", "abandoned"}
  BY <1>1, StepGoes DEF ReviewInv, KillPresentation, OwnerSteps
<1>3. /\ folder' = folder /\ littered' = littered
      /\ reviewMarker' = reviewMarker /\ retired' = retired /\ stopping' = TRUE
  BY ReviewTyped DEF ReviewInv, KillPresentation, KeepFiles
<1>4. ReviewTypeOK
  BY DEF ReviewInv
<1>5. ReviewTypeOK'
  BY <1>1, <1>2, <1>3, <1>4 DEF Goes, ReviewTypeOK, OwnerRecord, OwnerSteps
<1>6. RecordsAreRight' /\ MovesMarked'
  BY <1>1, <1>2, <1>3, <1>4, CloserAssumption
  DEF ReviewInv, Goes, Overlaps, RecordsAreRight, MovesMarked, CleanupSteps, Everyone
<1>7. ClosesWritten'
  BY <1>1, <1>2, <1>3, <1>4, CloserAssumption
  DEF ReviewInv, Goes, Overlaps, ClosesWritten, RecordsAreRight, MarkersAreOwned, MakingHasFolder, Unmarking,
      CleanupSteps, Everyone
<1>8. MarkersAreOwned' /\ CleanIsWhole'
  BY <1>1, <1>2, <1>3, <1>4, CloserAssumption
  DEF ReviewInv, Goes, Overlaps, MarkersAreOwned, CleanIsWhole, ClosesWritten, RecordsAreRight, CleanupSteps,
      Unmarking, Marked, NoMarker, Everyone
<1>9. MakingHasFolder' /\ ReviewIsOwned'
  BY <1>1, <1>2, <1>3, <1>4, CloserAssumption
  DEF ReviewInv, Goes, Overlaps, ReviewIsOwned, RecordsAreRight, MakingHasFolder, MarkersAreOwned, CleanupSteps,
      OwnerAt, Unmarking, Marked, NoMarker, Everyone
<1>10. OneTrace'
  BY <1>1, <1>2, <1>3, <1>4, CloserAssumption
  DEF ReviewInv, Goes, Overlaps, OneTrace, OneMaking, Trace, MakingReview, RecordsAreRight, CleanupSteps, Everyone
<1>11. ReviewersInCharge'
  <2> USE CloserAssumption DEF ReviewInv, Clean, Goes, InCharge, AtWork, Retired, Unmarked, Removed, ClosingOn,
          RecordsAreRight, MarkersAreOwned, ClosesWritten, CleanupSteps, Unmarking, Marked, NoMarker, Everyone,
          ClosingIsInOrder, MakingHasFolder
  <2>1. SUFFICES ASSUME "abandoned" \notin mishaps', Clean' PROVE ClosingIsInOrder' /\ \A s \in Reviewers : InCharge(s)'
    BY DEF ReviewersInCharge
  <2>2. ClosingIsInOrder /\ (\A s \in Reviewers : InCharge(s)) /\ littered = {}
    BY <1>1, <1>2, <1>3, <1>4, <2>1 DEF ReviewersInCharge, CleanIsWhole, Overlaps
  <2>3. ClosingIsInOrder'
    BY <1>1, <1>2, <1>3, <1>4, <2>1, <2>2
  <2>4. ASSUME NEW s \in Reviewers PROVE InCharge(s)'
    BY <1>1, <1>2, <1>3, <1>4, <2>1, <2>2
  <2> QED BY <2>3, <2>4
<1> QED
  BY <1>5, <1>6, <1>7, <1>8, <1>9, <1>10, <1>11 DEF ReviewInv

-----------------------------------------------------------------------------
\* What the steps with several outcomes come to.

\* Another marker is in the way.
LEMMA MarkerIsTaken ==
  ASSUME ReviewInv, NEW r \in Reviewers, Goes(r, "unmake", owner[r].record, owner[r].marked, owner[r].tries),
         Overlaps, mishaps' \subseteq {"overlapped", "torn", "littered", "abandoned"},
         owner[r].at = "mark",
         Marked,
         folder' = folder,
         littered' = littered,
         reviewMarker' = reviewMarker,
         retired' = retired,
         stopping' = stopping
  PROVE  ReviewInv'
<1>1. r \in Everyone /\ ReviewTypeOK
  BY DEF Everyone, ReviewInv
<1>2. Goes(r, "unmake", owner[r].record, owner[r].marked, owner[r].tries)
  OBVIOUS
<1>3. ReviewTypeOK'
  BY <1>1, <1>2 DEF Goes, ReviewTypeOK, OwnerRecord, OwnerSteps
<1>4. RecordsAreRight' /\ MovesMarked'
  BY <1>1, <1>2, CloserAssumption DEF ReviewInv, Goes, Overlaps, RecordsAreRight, MovesMarked, CleanupSteps, Everyone
<1>5. ClosesWritten'
  BY <1>1, <1>2, CloserAssumption
  DEF ReviewInv, Goes, Overlaps, ClosesWritten, RecordsAreRight, MarkersAreOwned, MakingHasFolder, Unmarking,
      CleanupSteps, Everyone
<1>6. MarkersAreOwned' /\ CleanIsWhole'
  BY <1>1, <1>2, CloserAssumption
  DEF ReviewInv, Goes, Overlaps, MarkersAreOwned, CleanIsWhole, ClosesWritten, RecordsAreRight, CleanupSteps,
      Unmarking, Marked, NoMarker, Everyone
<1>7. MakingHasFolder' /\ ReviewIsOwned'
  BY <1>1, <1>2, CloserAssumption
  DEF ReviewInv, Goes, Overlaps, ReviewIsOwned, RecordsAreRight, MakingHasFolder, MarkersAreOwned, CleanupSteps,
      OwnerAt, Unmarking, Marked, NoMarker, Everyone
<1>8. OneTrace'
  BY <1>1, <1>2, CloserAssumption
  DEF ReviewInv, Goes, Overlaps, OneTrace, OneMaking, Trace, MakingReview, RecordsAreRight, CleanupSteps, Everyone
<1>9. ReviewersInCharge'
  <2> USE CloserAssumption DEF ReviewInv, Clean, Goes, InCharge, AtWork, Retired, Unmarked, Removed, ClosingOn,
          RecordsAreRight, MarkersAreOwned, ClosesWritten, CleanupSteps, Unmarking, Marked, NoMarker, Everyone,
          ClosingIsInOrder, MakingHasFolder
  <2>1. SUFFICES ASSUME "abandoned" \notin mishaps', Clean' PROVE ClosingIsInOrder' /\ \A s \in Reviewers : InCharge(s)'
    BY DEF ReviewersInCharge
  <2>2. ClosingIsInOrder /\ (\A s \in Reviewers : InCharge(s)) /\ littered = {}
    BY <1>1, <1>2, <2>1 DEF ReviewersInCharge, CleanIsWhole, Overlaps
  <2>3. ClosingIsInOrder'
    BY <1>1, <1>2, <2>1, <2>2
  <2>4. InCharge(r)'
    BY <1>1, <1>2, <2>1, <2>2
  <2>5. ASSUME NEW s \in Reviewers, s # r PROVE InCharge(s)'
    BY <1>1, <1>2, <2>2, <2>5
  <2> QED BY <2>3, <2>4, <2>5
<1> QED
  BY <1>3, <1>4, <1>5, <1>6, <1>7, <1>8, <1>9 DEF ReviewInv

\* The marker is created, and is torn until it is written.
LEMMA MarkerIsCreated ==
  ASSUME ReviewInv, NEW r \in Reviewers, Goes(r, "write", owner[r].record, owner[r].marked, owner[r].tries),
         Overlaps, mishaps' \subseteq {"overlapped", "torn", "littered", "abandoned"},
         owner[r].at = "mark",
         ~Marked,
         folder' = folder,
         littered' = littered,
         retired' = retired,
         stopping' = stopping,
         reviewMarker' = [reviewer |-> r, whole |-> FALSE]
  PROVE  ReviewInv'
<1>1. r \in Everyone /\ ReviewTypeOK
  BY DEF Everyone, ReviewInv
<1>2. Goes(r, "write", owner[r].record, owner[r].marked, owner[r].tries)
  OBVIOUS
<1>3. reviewMarker'.reviewer = r
  OBVIOUS
<1>4. \A s \in Reviewers : owner[s].at # "write"
  BY CloserAssumption DEF ReviewInv, MarkersAreOwned, Marked, NoMarker
<1>5. ReviewTypeOK'
  BY <1>1, <1>2, <1>3, <1>4 DEF Goes, ReviewTypeOK, OwnerRecord, OwnerSteps
<1>6. RecordsAreRight' /\ MovesMarked'
  BY <1>1, <1>2, <1>3, <1>4, CloserAssumption
  DEF ReviewInv, Goes, Overlaps, RecordsAreRight, MovesMarked, CleanupSteps, Everyone
<1>7. ClosesWritten'
  BY <1>1, <1>2, <1>3, <1>4, CloserAssumption
  DEF ReviewInv, Goes, Overlaps, ClosesWritten, RecordsAreRight, MarkersAreOwned, MakingHasFolder, Unmarking,
      CleanupSteps, Everyone
<1>8. MarkersAreOwned' /\ CleanIsWhole'
  <2>1. MarkersAreOwned'
    BY <1>1, <1>2, <1>3, <1>4, CloserAssumption
    DEF ReviewInv, Goes, MarkersAreOwned, Unmarking, Marked, NoMarker, Everyone
  <2>2. CleanIsWhole'
    BY <1>1, <1>2, <1>3, <1>4, CloserAssumption DEF ReviewInv, Goes, Overlaps, CleanIsWhole, Everyone
  <2> QED BY <2>1, <2>2
<1>9. MakingHasFolder' /\ ReviewIsOwned'
  BY <1>1, <1>2, <1>3, <1>4, CloserAssumption
  DEF ReviewInv, Goes, Overlaps, ReviewIsOwned, RecordsAreRight, MakingHasFolder, MarkersAreOwned, CleanupSteps,
      OwnerAt, Unmarking, Marked, NoMarker, Everyone
<1>10. OneTrace'
  BY <1>1, <1>2, <1>3, <1>4, CloserAssumption
  DEF ReviewInv, Goes, Overlaps, OneTrace, OneMaking, Trace, MakingReview, RecordsAreRight, CleanupSteps, Everyone
<1>11. ReviewersInCharge'
  <2> USE CloserAssumption DEF ReviewInv, Clean, Goes, InCharge, AtWork, Retired, Unmarked, Removed, ClosingOn,
          RecordsAreRight, MarkersAreOwned, ClosesWritten, CleanupSteps, Unmarking, Marked, NoMarker, Everyone,
          ClosingIsInOrder, MakingHasFolder
  <2>1. SUFFICES ASSUME "abandoned" \notin mishaps', Clean' PROVE ClosingIsInOrder' /\ \A s \in Reviewers : InCharge(s)'
    BY DEF ReviewersInCharge
  <2>2. ClosingIsInOrder /\ (\A s \in Reviewers : InCharge(s)) /\ littered = {}
    BY <1>1, <1>2, <1>3, <1>4, <2>1 DEF ReviewersInCharge, CleanIsWhole, Overlaps
  <2>3. ClosingIsInOrder'
    BY <1>1, <1>2, <1>3, <1>4, <2>1, <2>2
  <2>4. InCharge(r)'
    BY <1>1, <1>2, <1>3, <1>4, <2>1, <2>2
  <2>5. ASSUME NEW s \in Reviewers, s # r PROVE InCharge(s)'
    BY <1>1, <1>2, <1>3, <1>4, <2>2, <2>5
  <2> QED BY <2>3, <2>4, <2>5
<1> QED
  BY <1>5, <1>6, <1>7, <1>8, <1>9, <1>10, <1>11 DEF ReviewInv

\* The marker is whole.
LEMMA MarkerIsWritten ==
  ASSUME ReviewInv, NEW r \in Reviewers, Goes(r, "review", owner[r].record, owner[r].marked, owner[r].tries),
         Overlaps, mishaps' \subseteq {"overlapped", "torn", "littered", "abandoned"},
         owner[r].at = "write",
         folder' = folder,
         littered' = littered,
         retired' = retired,
         stopping' = stopping,
         reviewMarker' = [reviewer |-> r, whole |-> TRUE]
  PROVE  ReviewInv'
<1>1. r \in Everyone /\ ReviewTypeOK
  BY DEF Everyone, ReviewInv
<1>2. Goes(r, "review", owner[r].record, owner[r].marked, owner[r].tries)
  OBVIOUS
<1>3. reviewMarker.reviewer = r /\ ~reviewMarker.whole
  BY DEF ReviewInv, MarkersAreOwned
<1>4. \A s \in Reviewers : reviewMarker # [reviewer |-> s, whole |-> TRUE]
  BY <1>3
<1>5. \A s \in Reviewers : owner'[s].at = "review" /\ ~stopping => s = r
  BY <1>2, <1>4 DEF ReviewInv, ReviewIsOwned, Goes, OwnerAt, Everyone
<1>6. ReviewTypeOK'
  BY <1>1, <1>2, <1>3, <1>4, <1>5 DEF Goes, ReviewTypeOK, OwnerRecord, OwnerSteps
<1>7. RecordsAreRight' /\ MovesMarked'
  BY <1>1, <1>2, <1>3, <1>4, <1>5, CloserAssumption
  DEF ReviewInv, Goes, Overlaps, RecordsAreRight, MovesMarked, CleanupSteps, Everyone
<1>8. ClosesWritten'
  BY <1>1, <1>2, <1>3, <1>4, <1>5, CloserAssumption
  DEF ReviewInv, Goes, Overlaps, ClosesWritten, RecordsAreRight, MarkersAreOwned, MakingHasFolder, Unmarking,
      CleanupSteps, Everyone
<1>9. MarkersAreOwned' /\ CleanIsWhole'
  BY <1>1, <1>2, <1>3, <1>4, <1>5, CloserAssumption
  DEF ReviewInv, Goes, Overlaps, MarkersAreOwned, CleanIsWhole, ClosesWritten, RecordsAreRight, CleanupSteps,
      Unmarking, Marked, NoMarker, Everyone
<1>10. MakingHasFolder' /\ ReviewIsOwned'
  BY <1>1, <1>2, <1>3, <1>4, <1>5, CloserAssumption
  DEF ReviewInv, Goes, Overlaps, ReviewIsOwned, RecordsAreRight, MakingHasFolder, MarkersAreOwned, CleanupSteps,
      OwnerAt, Unmarking, Marked, NoMarker, Everyone
<1>11. OneTrace'
  BY <1>1, <1>2, <1>3, <1>4, <1>5, CloserAssumption
  DEF ReviewInv, Goes, Overlaps, OneTrace, OneMaking, Trace, MakingReview, RecordsAreRight, CleanupSteps, Everyone
<1>12. ReviewersInCharge'
  <2> USE CloserAssumption DEF ReviewInv, Clean, Goes, InCharge, AtWork, Retired, Unmarked, Removed, ClosingOn,
          RecordsAreRight, MarkersAreOwned, ClosesWritten, CleanupSteps, Unmarking, Marked, NoMarker, Everyone,
          ClosingIsInOrder, MakingHasFolder
  <2>1. SUFFICES ASSUME "abandoned" \notin mishaps', Clean' PROVE ClosingIsInOrder' /\ \A s \in Reviewers : InCharge(s)'
    BY DEF ReviewersInCharge
  <2>2. ClosingIsInOrder /\ (\A s \in Reviewers : InCharge(s)) /\ littered = {}
    BY <1>1, <1>2, <1>3, <1>4, <1>5, <2>1 DEF ReviewersInCharge, CleanIsWhole, Overlaps
  <2>3. ClosingIsInOrder'
    BY <1>1, <1>2, <1>3, <1>4, <1>5, <2>1, <2>2
  <2>4. InCharge(r)'
    BY <1>1, <1>2, <1>3, <1>4, <1>5, <2>1, <2>2
  <2>5. ASSUME NEW s \in Reviewers, s # r PROVE InCharge(s)'
    BY <1>1, <1>2, <1>3, <1>4, <1>5, <2>2, <2>5
  <2> QED BY <2>3, <2>4, <2>5
<1> QED
  BY <1>6, <1>7, <1>8, <1>9, <1>10, <1>11, <1>12 DEF ReviewInv

\* A reviewer ends its review or its creation, for good or for the clean-up.
LEMMA ReviewStops ==
  ASSUME ReviewInv, NEW r \in Reviewers, NEW step, NEW tries \in {0, 1, 2}, Goes(r, step, owner[r].record,
         owner[r].marked, tries),
         mishaps \subseteq mishaps',
         mishaps' \subseteq {"overlapped", "torn", "littered", "abandoned"},
         owner[r].at \notin {"idle", "done"},
         step \in {"unmake", "locate", "done"},
         step = "unmake" => "torn" \in mishaps',
         owner[r].at = "write" => "torn" \in mishaps',
         step = "done" => "abandoned" \in mishaps',
         step = "locate" => owner[r].at = "review" /\ tries = 1,
         folder' = folder,
         littered' = littered,
         reviewMarker' = reviewMarker,
         retired' = retired,
         stopping' = stopping
  PROVE  ReviewInv'
<1>1. r \in Everyone /\ ReviewTypeOK
  BY DEF Everyone, ReviewInv
<1>2. Goes(r, step, owner[r].record, owner[r].marked, tries)
  OBVIOUS
<1>3. ReviewTypeOK'
  BY <1>1, <1>2 DEF Goes, ReviewTypeOK, OwnerRecord, OwnerSteps
<1>4. RecordsAreRight' /\ MovesMarked'
  BY <1>1, <1>2, CloserAssumption DEF ReviewInv, Goes, RecordsAreRight, MovesMarked, CleanupSteps, Everyone
<1>5. ClosesWritten'
  BY <1>1, <1>2, CloserAssumption
  DEF ReviewInv, Goes, ClosesWritten, RecordsAreRight, MarkersAreOwned, MakingHasFolder, Unmarking, CleanupSteps,
      Everyone
<1>6. MarkersAreOwned' /\ CleanIsWhole'
  BY <1>1, <1>2, CloserAssumption
  DEF ReviewInv, Goes, MarkersAreOwned, CleanIsWhole, ClosesWritten, RecordsAreRight, CleanupSteps, Unmarking,
      Marked, NoMarker, Everyone
<1>7. MakingHasFolder' /\ ReviewIsOwned'
  BY <1>1, <1>2, CloserAssumption
  DEF ReviewInv, Goes, ReviewIsOwned, RecordsAreRight, MakingHasFolder, MarkersAreOwned, CleanupSteps, OwnerAt,
      Unmarking, Marked, NoMarker, Everyone
<1>8. OneTrace'
  BY <1>1, <1>2, CloserAssumption
  DEF ReviewInv, Goes, OneTrace, OneMaking, Trace, MakingReview, RecordsAreRight, CleanupSteps, Everyone
<1>9. ReviewersInCharge'
  <2> USE CloserAssumption DEF ReviewInv, Clean, Goes, InCharge, AtWork, Retired, Unmarked, Removed, ClosingOn,
          RecordsAreRight, MarkersAreOwned, ClosesWritten, CleanupSteps, Unmarking, Marked, NoMarker, Everyone,
          ClosingIsInOrder, MakingHasFolder
  <2>1. SUFFICES ASSUME "abandoned" \notin mishaps', Clean' PROVE ClosingIsInOrder' /\ \A s \in Reviewers : InCharge(s)'
    BY DEF ReviewersInCharge
  <2>2. ClosingIsInOrder /\ (\A s \in Reviewers : InCharge(s)) /\ littered = {}
    BY <1>1, <1>2, <2>1 DEF ReviewersInCharge, CleanIsWhole
  <2>3. ClosingIsInOrder'
    BY <1>1, <1>2, <2>1, <2>2
  <2>4. InCharge(r)'
    BY <1>1, <1>2, <2>1, <2>2
  <2>5. ASSUME NEW s \in Reviewers, s # r PROVE InCharge(s)'
    BY <1>1, <1>2, <2>2, <2>5
  <2> QED BY <2>3, <2>4, <2>5
<1> QED
  BY <1>3, <1>4, <1>5, <1>6, <1>7, <1>8, <1>9 DEF ReviewInv

\* A reviewer looks for its folder and its marker again.
LEMMA ReviewerGoesOn ==
  ASSUME ReviewInv, NEW r \in Reviewers, NEW step, NEW marked \in BOOLEAN, NEW tries \in {0, 1, 2}, Goes(r, step,
         owner[r].record, marked, tries),
         Overlaps, mishaps' \subseteq {"overlapped", "torn", "littered", "abandoned"},
         owner[r].at \in CleanupSteps,
         step \in CleanupSteps \union {"done"},
         step = "moveMarker" => marked,
         "abandoned" \notin mishaps' /\ Clean' /\ (\A s \in Reviewers : InCharge(s)) => InCharge(r)',
         folder' = folder,
         littered' = littered,
         reviewMarker' = reviewMarker,
         retired' = retired,
         stopping' = stopping
  PROVE  ReviewInv'
<1>1. r \in Everyone /\ ReviewTypeOK
  BY DEF Everyone, ReviewInv
<1>2. Goes(r, step, owner[r].record, marked, tries)
  OBVIOUS
<1>3. ReviewTypeOK'
  BY <1>1, <1>2 DEF Goes, ReviewTypeOK, OwnerRecord, OwnerSteps
<1>4. RecordsAreRight' /\ MovesMarked'
  BY <1>1, <1>2, CloserAssumption DEF ReviewInv, Goes, Overlaps, RecordsAreRight, MovesMarked, CleanupSteps, Everyone
<1>5. ClosesWritten'
  BY <1>1, <1>2, CloserAssumption
  DEF ReviewInv, Goes, Overlaps, ClosesWritten, RecordsAreRight, MarkersAreOwned, MakingHasFolder, Unmarking,
      CleanupSteps, Everyone
<1>6. MarkersAreOwned' /\ CleanIsWhole'
  BY <1>1, <1>2, CloserAssumption
  DEF ReviewInv, Goes, Overlaps, MarkersAreOwned, CleanIsWhole, ClosesWritten, RecordsAreRight, CleanupSteps,
      Unmarking, Marked, NoMarker, Everyone
<1>7. MakingHasFolder' /\ ReviewIsOwned'
  BY <1>1, <1>2, CloserAssumption
  DEF ReviewInv, Goes, Overlaps, ReviewIsOwned, RecordsAreRight, MakingHasFolder, MarkersAreOwned, CleanupSteps,
      OwnerAt, Unmarking, Marked, NoMarker, Everyone
<1>8. OneTrace'
  BY <1>1, <1>2, CloserAssumption
  DEF ReviewInv, Goes, Overlaps, OneTrace, OneMaking, Trace, MakingReview, RecordsAreRight, CleanupSteps, Everyone
<1>9. ReviewersInCharge'
  <2> USE CloserAssumption DEF ReviewInv, Clean, Goes, InCharge, AtWork, Retired, Unmarked, Removed, ClosingOn,
          RecordsAreRight, MarkersAreOwned, ClosesWritten, CleanupSteps, Unmarking, Marked, NoMarker, Everyone,
          ClosingIsInOrder, MakingHasFolder
  <2>1. SUFFICES ASSUME "abandoned" \notin mishaps', Clean' PROVE ClosingIsInOrder' /\ \A s \in Reviewers : InCharge(s)'
    BY DEF ReviewersInCharge
  <2>2. ClosingIsInOrder /\ (\A s \in Reviewers : InCharge(s)) /\ littered = {}
    BY <1>1, <1>2, <2>1 DEF ReviewersInCharge, CleanIsWhole, Overlaps
  <2>3. ClosingIsInOrder'
    BY <1>1, <1>2, <2>1, <2>2
  <2>4. InCharge(r)'
    BY <1>1, <1>2, <2>1, <2>2
  <2>5. ASSUME NEW s \in Reviewers, s # r PROVE InCharge(s)'
    BY <1>1, <1>2, <2>2, <2>5
  <2> QED BY <2>3, <2>4, <2>5
<1> QED
  BY <1>3, <1>4, <1>5, <1>6, <1>7, <1>8, <1>9 DEF ReviewInv

\* A reviewer renames its marker.
LEMMA ReviewerMovesMarker ==
  ASSUME ReviewInv, NEW r \in Reviewers, Goes(r, "moveFolder", owner[r].record, owner[r].marked, owner[r].tries),
         Overlaps, mishaps' \subseteq {"overlapped", "torn", "littered", "abandoned"},
         owner[r].at = "moveMarker",
         owner[r].marked,
         r \notin retired,
         reviewMarker.reviewer = r,
         folder' = folder,
         littered' = littered,
         stopping' = stopping,
         reviewMarker' = NoMarker,
         retired' = retired \union {r}
  PROVE  ReviewInv'
<1>1. r \in Everyone /\ ReviewTypeOK
  BY DEF Everyone, ReviewInv
<1>2. Goes(r, "moveFolder", owner[r].record, owner[r].marked, owner[r].tries)
  OBVIOUS
<1>3. /\ reviewMarker' \in [reviewer : Everyone, whole : BOOLEAN]
      /\ reviewMarker'.reviewer = Closer /\ ~reviewMarker'.whole
  BY DEF NoMarker, Everyone
<1>4. ReviewTypeOK'
  BY <1>1, <1>2, <1>3 DEF Goes, ReviewTypeOK, OwnerRecord, OwnerSteps
<1>5. RecordsAreRight' /\ MovesMarked'
  BY <1>1, <1>2, <1>3, CloserAssumption
  DEF ReviewInv, Goes, Overlaps, RecordsAreRight, MovesMarked, CleanupSteps, Everyone
<1>6. ClosesWritten'
  BY <1>1, <1>2, <1>3, CloserAssumption
  DEF ReviewInv, Goes, Overlaps, ClosesWritten, RecordsAreRight, MarkersAreOwned, MakingHasFolder, Unmarking,
      CleanupSteps, Everyone
<1>7. MarkersAreOwned' /\ CleanIsWhole'
  BY <1>1, <1>2, <1>3, CloserAssumption
  DEF ReviewInv, Goes, Overlaps, MarkersAreOwned, CleanIsWhole, ClosesWritten, RecordsAreRight, CleanupSteps,
      Unmarking, Marked, NoMarker, Everyone
<1>8. MakingHasFolder' /\ ReviewIsOwned'
  BY <1>1, <1>2, <1>3, CloserAssumption
  DEF ReviewInv, Goes, Overlaps, ReviewIsOwned, RecordsAreRight, MakingHasFolder, MarkersAreOwned, CleanupSteps,
      OwnerAt, Unmarking, Marked, NoMarker, Everyone
<1>9. OneTrace'
  BY <1>1, <1>2, <1>3, CloserAssumption
  DEF ReviewInv, Goes, Overlaps, OneTrace, OneMaking, Trace, MakingReview, RecordsAreRight, CleanupSteps, Everyone
<1>10. ReviewersInCharge'
  <2> USE CloserAssumption DEF ReviewInv, Clean, Goes, InCharge, AtWork, Retired, Unmarked, Removed, ClosingOn,
          RecordsAreRight, MarkersAreOwned, ClosesWritten, CleanupSteps, Unmarking, Marked, NoMarker, Everyone,
          ClosingIsInOrder, MakingHasFolder
  <2>1. SUFFICES ASSUME "abandoned" \notin mishaps', Clean' PROVE ClosingIsInOrder' /\ \A s \in Reviewers : InCharge(s)'
    BY DEF ReviewersInCharge
  <2>2. ClosingIsInOrder /\ (\A s \in Reviewers : InCharge(s)) /\ littered = {}
    BY <1>1, <1>2, <1>3, <2>1 DEF ReviewersInCharge, CleanIsWhole, Overlaps
  <2>3. ClosingIsInOrder'
    BY <1>1, <1>2, <1>3, <2>1, <2>2
  <2>4. InCharge(r)'
    BY <1>1, <1>2, <1>3, <2>1, <2>2
  <2>5. ASSUME NEW s \in Reviewers, s # r PROVE InCharge(s)'
    BY <1>1, <1>2, <1>3, <2>2, <2>5
  <2> QED BY <2>3, <2>4, <2>5
<1> QED
  BY <1>4, <1>5, <1>6, <1>7, <1>8, <1>9, <1>10 DEF ReviewInv

\* A reviewer renames its folder.
LEMMA ReviewerMovesFolder ==
  ASSUME ReviewInv, NEW r \in Reviewers, Goes(r, "removeFolder", owner[r].record, owner[r].marked, owner[r].tries),
         Overlaps, mishaps' \subseteq {"overlapped", "torn", "littered", "abandoned"},
         owner[r].at = "moveFolder",
         folder[r] # "none",
         folder' \in [Reviewers -> {"none", "active", "retiring"}],
         folder'[r] = "retiring",
         \A s \in Reviewers : s # r => folder'[s] = folder[s],
         littered' = littered,
         reviewMarker' = reviewMarker,
         retired' = retired,
         stopping' = stopping
  PROVE  ReviewInv'
<1>1. r \in Everyone /\ ReviewTypeOK
  BY DEF Everyone, ReviewInv
<1>2. Goes(r, "removeFolder", owner[r].record, owner[r].marked, owner[r].tries)
  OBVIOUS
<1>3. ReviewTypeOK'
  BY <1>1, <1>2 DEF Goes, ReviewTypeOK, OwnerRecord, OwnerSteps
<1>4. RecordsAreRight' /\ MovesMarked'
  BY <1>1, <1>2, CloserAssumption DEF ReviewInv, Goes, Overlaps, RecordsAreRight, MovesMarked, CleanupSteps, Everyone
<1>5. ClosesWritten'
  BY <1>1, <1>2, CloserAssumption
  DEF ReviewInv, Goes, Overlaps, ClosesWritten, RecordsAreRight, MarkersAreOwned, MakingHasFolder, Unmarking,
      CleanupSteps, Everyone
<1>6. MarkersAreOwned' /\ CleanIsWhole'
  BY <1>1, <1>2, CloserAssumption
  DEF ReviewInv, Goes, Overlaps, MarkersAreOwned, CleanIsWhole, ClosesWritten, RecordsAreRight, CleanupSteps,
      Unmarking, Marked, NoMarker, Everyone
<1>7. MakingHasFolder' /\ ReviewIsOwned'
  BY <1>1, <1>2, CloserAssumption
  DEF ReviewInv, Goes, Overlaps, ReviewIsOwned, RecordsAreRight, MakingHasFolder, MarkersAreOwned, CleanupSteps,
      OwnerAt, Unmarking, Marked, NoMarker, Everyone
<1>8. OneTrace'
  BY <1>1, <1>2, CloserAssumption
  DEF ReviewInv, Goes, Overlaps, OneTrace, OneMaking, Trace, MakingReview, RecordsAreRight, CleanupSteps, Everyone
<1>9. ReviewersInCharge'
  <2> USE CloserAssumption DEF ReviewInv, Clean, Goes, InCharge, AtWork, Retired, Unmarked, Removed, ClosingOn,
          RecordsAreRight, MarkersAreOwned, ClosesWritten, CleanupSteps, Unmarking, Marked, NoMarker, Everyone,
          ClosingIsInOrder, MakingHasFolder
  <2>1. SUFFICES ASSUME "abandoned" \notin mishaps', Clean' PROVE ClosingIsInOrder' /\ \A s \in Reviewers : InCharge(s)'
    BY DEF ReviewersInCharge
  <2>2. ClosingIsInOrder /\ (\A s \in Reviewers : InCharge(s)) /\ littered = {}
    BY <1>1, <1>2, <2>1 DEF ReviewersInCharge, CleanIsWhole, Overlaps
  <2>3. ClosingIsInOrder'
    BY <1>1, <1>2, <2>1, <2>2
  <2>4. InCharge(r)'
    BY <1>1, <1>2, <2>1, <2>2
  <2>5. ASSUME NEW s \in Reviewers, s # r PROVE InCharge(s)'
    BY <1>1, <1>2, <2>2, <2>5
  <2> QED BY <2>3, <2>4, <2>5
<1> QED
  BY <1>3, <1>4, <1>5, <1>6, <1>7, <1>8, <1>9 DEF ReviewInv

\* A reviewer removes its renamed folder.
LEMMA ReviewerRemovesFolder ==
  ASSUME ReviewInv, NEW r \in Reviewers, NEW step, Goes(r, step, owner[r].record, owner[r].marked, owner[r].tries),
         Overlaps, mishaps' \subseteq {"overlapped", "torn", "littered", "abandoned"},
         owner[r].at = "removeFolder",
         folder[r] = "retiring",
         step = IF owner[r].marked THEN "removeMarker" ELSE "done",
         folder' \in [Reviewers -> {"none", "active", "retiring"}],
         folder'[r] = "none",
         \A s \in Reviewers : s # r => folder'[s] = folder[s],
         littered' = littered,
         reviewMarker' = reviewMarker,
         retired' = retired,
         stopping' = stopping
  PROVE  ReviewInv'
<1>1. r \in Everyone /\ ReviewTypeOK
  BY DEF Everyone, ReviewInv
<1>2. Goes(r, step, owner[r].record, owner[r].marked, owner[r].tries)
  OBVIOUS
<1>3. ReviewTypeOK'
  BY <1>1, <1>2 DEF Goes, ReviewTypeOK, OwnerRecord, OwnerSteps
<1>4. RecordsAreRight' /\ MovesMarked'
  BY <1>1, <1>2, CloserAssumption DEF ReviewInv, Goes, Overlaps, RecordsAreRight, MovesMarked, CleanupSteps, Everyone
<1>5. ClosesWritten'
  BY <1>1, <1>2, CloserAssumption
  DEF ReviewInv, Goes, Overlaps, ClosesWritten, RecordsAreRight, MarkersAreOwned, MakingHasFolder, Unmarking,
      CleanupSteps, Everyone
<1>6. MarkersAreOwned' /\ CleanIsWhole'
  BY <1>1, <1>2, CloserAssumption
  DEF ReviewInv, Goes, Overlaps, MarkersAreOwned, CleanIsWhole, ClosesWritten, RecordsAreRight, CleanupSteps,
      Unmarking, Marked, NoMarker, Everyone
<1>7. MakingHasFolder' /\ ReviewIsOwned'
  BY <1>1, <1>2, CloserAssumption
  DEF ReviewInv, Goes, Overlaps, ReviewIsOwned, RecordsAreRight, MakingHasFolder, MarkersAreOwned, CleanupSteps,
      OwnerAt, Unmarking, Marked, NoMarker, Everyone
<1>8. OneTrace'
  BY <1>1, <1>2, CloserAssumption
  DEF ReviewInv, Goes, Overlaps, OneTrace, OneMaking, Trace, MakingReview, RecordsAreRight, CleanupSteps, Everyone
<1>9. ReviewersInCharge'
  <2> USE CloserAssumption DEF ReviewInv, Clean, Goes, InCharge, AtWork, Retired, Unmarked, Removed, ClosingOn,
          RecordsAreRight, MarkersAreOwned, ClosesWritten, CleanupSteps, Unmarking, Marked, NoMarker, Everyone,
          ClosingIsInOrder, MakingHasFolder
  <2>1. SUFFICES ASSUME "abandoned" \notin mishaps', Clean' PROVE ClosingIsInOrder' /\ \A s \in Reviewers : InCharge(s)'
    BY DEF ReviewersInCharge
  <2>2. ClosingIsInOrder /\ (\A s \in Reviewers : InCharge(s)) /\ littered = {}
    BY <1>1, <1>2, <2>1 DEF ReviewersInCharge, CleanIsWhole, Overlaps
  <2>3. ClosingIsInOrder'
    BY <1>1, <1>2, <2>1, <2>2
  <2>4. InCharge(r)'
    BY <1>1, <1>2, <2>1, <2>2
  <2>5. ASSUME NEW s \in Reviewers, s # r PROVE InCharge(s)'
    BY <1>1, <1>2, <2>2, <2>5
  <2> QED BY <2>3, <2>4, <2>5
<1> QED
  BY <1>3, <1>4, <1>5, <1>6, <1>7, <1>8, <1>9 DEF ReviewInv

\* A reviewer removes its renamed marker and is done.
LEMMA ReviewerRemovesMarker ==
  ASSUME ReviewInv, NEW r \in Reviewers, Goes(r, "done", owner[r].record, owner[r].marked, owner[r].tries),
         Overlaps, mishaps' \subseteq {"overlapped", "torn", "littered", "abandoned"},
         owner[r].at = "removeMarker",
         r \in retired,
         folder' = folder,
         littered' = littered,
         reviewMarker' = reviewMarker,
         stopping' = stopping,
         retired' = retired \ {r}
  PROVE  ReviewInv'
<1>1. r \in Everyone /\ ReviewTypeOK
  BY DEF Everyone, ReviewInv
<1>2. Goes(r, "done", owner[r].record, owner[r].marked, owner[r].tries)
  OBVIOUS
<1>3. ReviewTypeOK'
  BY <1>1, <1>2 DEF Goes, ReviewTypeOK, OwnerRecord, OwnerSteps
<1>4. RecordsAreRight' /\ MovesMarked'
  BY <1>1, <1>2, CloserAssumption DEF ReviewInv, Goes, Overlaps, RecordsAreRight, MovesMarked, CleanupSteps, Everyone
<1>5. ClosesWritten'
  BY <1>1, <1>2, CloserAssumption
  DEF ReviewInv, Goes, Overlaps, ClosesWritten, RecordsAreRight, MarkersAreOwned, MakingHasFolder, Unmarking,
      CleanupSteps, Everyone
<1>6. MarkersAreOwned' /\ CleanIsWhole'
  BY <1>1, <1>2, CloserAssumption
  DEF ReviewInv, Goes, Overlaps, MarkersAreOwned, CleanIsWhole, ClosesWritten, RecordsAreRight, CleanupSteps,
      Unmarking, Marked, NoMarker, Everyone
<1>7. MakingHasFolder' /\ ReviewIsOwned'
  BY <1>1, <1>2, CloserAssumption
  DEF ReviewInv, Goes, Overlaps, ReviewIsOwned, RecordsAreRight, MakingHasFolder, MarkersAreOwned, CleanupSteps,
      OwnerAt, Unmarking, Marked, NoMarker, Everyone
<1>8. OneTrace'
  BY <1>1, <1>2, CloserAssumption
  DEF ReviewInv, Goes, Overlaps, OneTrace, OneMaking, Trace, MakingReview, RecordsAreRight, CleanupSteps, Everyone
<1>9. ReviewersInCharge'
  <2> USE CloserAssumption DEF ReviewInv, Clean, Goes, InCharge, AtWork, Retired, Unmarked, Removed, ClosingOn,
          RecordsAreRight, MarkersAreOwned, ClosesWritten, CleanupSteps, Unmarking, Marked, NoMarker, Everyone,
          ClosingIsInOrder, MakingHasFolder
  <2>1. SUFFICES ASSUME "abandoned" \notin mishaps', Clean' PROVE ClosingIsInOrder' /\ \A s \in Reviewers : InCharge(s)'
    BY DEF ReviewersInCharge
  <2>2. ClosingIsInOrder /\ (\A s \in Reviewers : InCharge(s)) /\ littered = {}
    BY <1>1, <1>2, <2>1 DEF ReviewersInCharge, CleanIsWhole, Overlaps
  <2>3. ClosingIsInOrder'
    BY <1>1, <1>2, <2>1, <2>2
  <2>4. InCharge(r)'
    BY <1>1, <1>2, <2>1, <2>2
  <2>5. ASSUME NEW s \in Reviewers, s # r PROVE InCharge(s)'
    BY <1>1, <1>2, <2>2, <2>5
  <2> QED BY <2>3, <2>4, <2>5
<1> QED
  BY <1>3, <1>4, <1>5, <1>6, <1>7, <1>8, <1>9 DEF ReviewInv

\* The closer goes on to what it finds recorded.
LEMMA CloserGoesOn ==
  ASSUME ReviewInv, NEW step, NEW record \in Everyone, NEW marked \in BOOLEAN, NEW tries \in {0, 1, 2}, Goes(Closer,
         step, record, marked, tries),
         Overlaps, mishaps' \subseteq {"overlapped", "torn", "littered", "abandoned"},
         step \in CleanupSteps => record \in Reviewers /\ owner[record].at \notin {"idle", "make"},
         step = "moveMarker" \/ (marked /\ step \in {"moveFolder", "removeFolder", "removeMarker"})
           => owner[record].at \notin Unmarking \union {"write"},
         step \in CleanupSteps \union {"recover", "check", "closed"} => stopping,
         step = "moveMarker" => marked,
         "abandoned" \notin mishaps' /\ Clean' /\ ClosingIsInOrder /\ (\A s \in Reviewers : InCharge(s)) /\ littered = {} =>
           /\ ClosingIsInOrder'
           /\ \A s \in retired : (ClosingOn(s) => ClosingOn(s)') /\ (owner[Closer].record = s => record = s),
         folder' = folder,
         littered' = littered,
         reviewMarker' = reviewMarker,
         retired' = retired,
         stopping' = stopping
  PROVE  ReviewInv'
<1>1. Closer \in Everyone /\ ReviewTypeOK
  BY DEF Everyone, ReviewInv
<1>2. Goes(Closer, step, record, marked, tries)
  OBVIOUS
<1>3. ReviewTypeOK'
  BY <1>1, <1>2 DEF Goes, ReviewTypeOK, OwnerRecord, OwnerSteps
<1>4. RecordsAreRight' /\ MovesMarked'
  BY <1>1, <1>2, CloserAssumption DEF ReviewInv, Goes, Overlaps, RecordsAreRight, MovesMarked, CleanupSteps, Everyone
<1>5. ClosesWritten'
  BY <1>1, <1>2, CloserAssumption
  DEF ReviewInv, Goes, Overlaps, ClosesWritten, RecordsAreRight, MarkersAreOwned, MakingHasFolder, Unmarking,
      CleanupSteps, Everyone
<1>6. MarkersAreOwned' /\ CleanIsWhole'
  BY <1>1, <1>2, CloserAssumption
  DEF ReviewInv, Goes, Overlaps, MarkersAreOwned, CleanIsWhole, ClosesWritten, RecordsAreRight, CleanupSteps,
      Unmarking, Marked, NoMarker, Everyone
<1>7. MakingHasFolder' /\ ReviewIsOwned'
  BY <1>1, <1>2, CloserAssumption
  DEF ReviewInv, Goes, Overlaps, ReviewIsOwned, RecordsAreRight, MakingHasFolder, MarkersAreOwned, CleanupSteps,
      OwnerAt, Unmarking, Marked, NoMarker, Everyone
<1>8. OneTrace'
  BY <1>1, <1>2, CloserAssumption
  DEF ReviewInv, Goes, Overlaps, OneTrace, OneMaking, Trace, MakingReview, RecordsAreRight, CleanupSteps, Everyone
<1>9. ReviewersInCharge'
  <2> USE CloserAssumption DEF ReviewInv, Clean, Goes, InCharge, AtWork, Retired, Unmarked, Removed, ClosingOn,
          RecordsAreRight, MarkersAreOwned, ClosesWritten, CleanupSteps, Unmarking, Marked, NoMarker, Everyone,
          ClosingIsInOrder, MakingHasFolder
  <2>1. SUFFICES ASSUME "abandoned" \notin mishaps', Clean' PROVE ClosingIsInOrder' /\ \A s \in Reviewers : InCharge(s)'
    BY DEF ReviewersInCharge
  <2>2. ClosingIsInOrder /\ (\A s \in Reviewers : InCharge(s)) /\ littered = {}
    BY <1>1, <1>2, <2>1 DEF ReviewersInCharge, CleanIsWhole, Overlaps
  <2>3. ClosingIsInOrder'
    BY <1>1, <1>2, <2>1, <2>2
  <2>4. ASSUME NEW s \in Reviewers PROVE InCharge(s)'
    BY <1>1, <1>2, <2>1, <2>2
  <2> QED BY <2>3, <2>4
<1> QED
  BY <1>3, <1>4, <1>5, <1>6, <1>7, <1>8, <1>9 DEF ReviewInv

\* The closer renames the marker of r.
LEMMA CloserMovesMarker ==
  ASSUME ReviewInv, NEW r \in Reviewers, NEW tries \in {0, 1, 2}, Goes(Closer, "moveFolder", r, TRUE, tries),
         Overlaps, mishaps' \subseteq {"overlapped", "torn", "littered", "abandoned"},
         owner[Closer].record = r,
         owner[Closer].at = "moveMarker",
         r \notin retired,
         reviewMarker.reviewer = r,
         folder' = folder,
         littered' = littered,
         stopping' = stopping,
         reviewMarker' = NoMarker,
         retired' = retired \union {r}
  PROVE  ReviewInv'
<1>1. Closer \in Everyone /\ ReviewTypeOK
  BY DEF Everyone, ReviewInv
<1>2. Goes(Closer, "moveFolder", r, TRUE, tries)
  OBVIOUS
<1>3. /\ reviewMarker' \in [reviewer : Everyone, whole : BOOLEAN]
      /\ reviewMarker'.reviewer = Closer /\ ~reviewMarker'.whole
  BY DEF NoMarker, Everyone
<1>4. ReviewTypeOK'
  BY <1>1, <1>2, <1>3 DEF Goes, ReviewTypeOK, OwnerRecord, OwnerSteps
<1>5. RecordsAreRight' /\ MovesMarked'
  BY <1>1, <1>2, <1>3, CloserAssumption
  DEF ReviewInv, Goes, Overlaps, RecordsAreRight, MovesMarked, CleanupSteps, Everyone
<1>6. ClosesWritten'
  BY <1>1, <1>2, <1>3, CloserAssumption
  DEF ReviewInv, Goes, Overlaps, ClosesWritten, RecordsAreRight, MarkersAreOwned, MakingHasFolder, Unmarking,
      CleanupSteps, Everyone
<1>7. MarkersAreOwned' /\ CleanIsWhole'
  BY <1>1, <1>2, <1>3, CloserAssumption
  DEF ReviewInv, Goes, Overlaps, MarkersAreOwned, CleanIsWhole, ClosesWritten, RecordsAreRight, CleanupSteps,
      Unmarking, Marked, NoMarker, Everyone
<1>8. MakingHasFolder' /\ ReviewIsOwned'
  BY <1>1, <1>2, <1>3, CloserAssumption
  DEF ReviewInv, Goes, Overlaps, ReviewIsOwned, RecordsAreRight, MakingHasFolder, MarkersAreOwned, CleanupSteps,
      OwnerAt, Unmarking, Marked, NoMarker, Everyone
<1>9. OneTrace'
  BY <1>1, <1>2, <1>3, CloserAssumption
  DEF ReviewInv, Goes, Overlaps, OneTrace, OneMaking, Trace, MakingReview, RecordsAreRight, CleanupSteps, Everyone
<1>10. ReviewersInCharge'
  <2> USE CloserAssumption DEF ReviewInv, Clean, Goes, InCharge, AtWork, Retired, Unmarked, Removed, ClosingOn,
          RecordsAreRight, MarkersAreOwned, ClosesWritten, CleanupSteps, Unmarking, Marked, NoMarker, Everyone,
          ClosingIsInOrder, MakingHasFolder
  <2>1. SUFFICES ASSUME "abandoned" \notin mishaps', Clean' PROVE ClosingIsInOrder' /\ \A s \in Reviewers : InCharge(s)'
    BY DEF ReviewersInCharge
  <2>2. ClosingIsInOrder /\ (\A s \in Reviewers : InCharge(s)) /\ littered = {}
    BY <1>1, <1>2, <1>3, <2>1 DEF ReviewersInCharge, CleanIsWhole, Overlaps
  <2>3. ClosingIsInOrder'
    BY <1>1, <1>2, <1>3, <2>1, <2>2
  <2>4. ASSUME NEW s \in Reviewers PROVE InCharge(s)'
    BY <1>1, <1>2, <1>3, <2>1, <2>2
  <2> QED BY <2>3, <2>4
<1> QED
  BY <1>4, <1>5, <1>6, <1>7, <1>8, <1>9, <1>10 DEF ReviewInv

\* The closer renames the folder of r.
LEMMA CloserMovesFolder ==
  ASSUME ReviewInv, NEW r \in Reviewers, NEW marked \in BOOLEAN, NEW tries \in {0, 1, 2}, Goes(Closer,
         "removeFolder", r, marked, tries),
         Overlaps, mishaps' \subseteq {"overlapped", "torn", "littered", "abandoned"},
         owner[Closer].record = r,
         owner[Closer].at = "moveFolder",
         owner[Closer].marked = marked,
         folder[r] # "none",
         folder' \in [Reviewers -> {"none", "active", "retiring"}],
         folder'[r] = "retiring",
         \A s \in Reviewers : s # r => folder'[s] = folder[s],
         littered' = littered,
         reviewMarker' = reviewMarker,
         retired' = retired,
         stopping' = stopping
  PROVE  ReviewInv'
<1>1. Closer \in Everyone /\ ReviewTypeOK
  BY DEF Everyone, ReviewInv
<1>2. Goes(Closer, "removeFolder", r, marked, tries)
  OBVIOUS
<1>3. ReviewTypeOK'
  BY <1>1, <1>2 DEF Goes, ReviewTypeOK, OwnerRecord, OwnerSteps
<1>4. RecordsAreRight' /\ MovesMarked'
  BY <1>1, <1>2, CloserAssumption DEF ReviewInv, Goes, Overlaps, RecordsAreRight, MovesMarked, CleanupSteps, Everyone
<1>5. ClosesWritten'
  BY <1>1, <1>2, CloserAssumption
  DEF ReviewInv, Goes, Overlaps, ClosesWritten, RecordsAreRight, MarkersAreOwned, MakingHasFolder, Unmarking,
      CleanupSteps, Everyone
<1>6. MarkersAreOwned' /\ CleanIsWhole'
  BY <1>1, <1>2, CloserAssumption
  DEF ReviewInv, Goes, Overlaps, MarkersAreOwned, CleanIsWhole, ClosesWritten, RecordsAreRight, CleanupSteps,
      Unmarking, Marked, NoMarker, Everyone
<1>7. MakingHasFolder' /\ ReviewIsOwned'
  BY <1>1, <1>2, CloserAssumption
  DEF ReviewInv, Goes, Overlaps, ReviewIsOwned, RecordsAreRight, MakingHasFolder, MarkersAreOwned, CleanupSteps,
      OwnerAt, Unmarking, Marked, NoMarker, Everyone
<1>8. OneTrace'
  BY <1>1, <1>2, CloserAssumption
  DEF ReviewInv, Goes, Overlaps, OneTrace, OneMaking, Trace, MakingReview, RecordsAreRight, CleanupSteps, Everyone
<1>9. ReviewersInCharge'
  <2> USE CloserAssumption DEF ReviewInv, Clean, Goes, InCharge, AtWork, Retired, Unmarked, Removed, ClosingOn,
          RecordsAreRight, MarkersAreOwned, ClosesWritten, CleanupSteps, Unmarking, Marked, NoMarker, Everyone,
          ClosingIsInOrder, MakingHasFolder
  <2>1. SUFFICES ASSUME "abandoned" \notin mishaps', Clean' PROVE ClosingIsInOrder' /\ \A s \in Reviewers : InCharge(s)'
    BY DEF ReviewersInCharge
  <2>2. ClosingIsInOrder /\ (\A s \in Reviewers : InCharge(s)) /\ littered = {}
    BY <1>1, <1>2, <2>1 DEF ReviewersInCharge, CleanIsWhole, Overlaps
  <2>3. ClosingIsInOrder'
    BY <1>1, <1>2, <2>1, <2>2
  <2>4. ASSUME NEW s \in Reviewers PROVE InCharge(s)'
    BY <1>1, <1>2, <2>1, <2>2
  <2> QED BY <2>3, <2>4
<1> QED
  BY <1>3, <1>4, <1>5, <1>6, <1>7, <1>8, <1>9 DEF ReviewInv

\* The closer removes the renamed folder of r.
LEMMA CloserRemovesFolder ==
  ASSUME ReviewInv, NEW r \in Reviewers, NEW step, NEW marked \in BOOLEAN, NEW tries \in {0, 1, 2}, Goes(Closer,
         step, r, marked, tries),
         Overlaps, mishaps' \subseteq {"overlapped", "torn", "littered", "abandoned"},
         owner[Closer].record = r,
         owner[Closer].at = "removeFolder",
         owner[Closer].marked = marked,
         folder[r] = "retiring",
         step = IF marked THEN "removeMarker" ELSE "check",
         folder' \in [Reviewers -> {"none", "active", "retiring"}],
         folder'[r] = "none",
         \A s \in Reviewers : s # r => folder'[s] = folder[s],
         littered' = littered,
         reviewMarker' = reviewMarker,
         retired' = retired,
         stopping' = stopping
  PROVE  ReviewInv'
<1>1. Closer \in Everyone /\ ReviewTypeOK
  BY DEF Everyone, ReviewInv
<1>2. Goes(Closer, step, r, marked, tries)
  OBVIOUS
<1>3. ReviewTypeOK'
  BY <1>1, <1>2 DEF Goes, ReviewTypeOK, OwnerRecord, OwnerSteps
<1>4. RecordsAreRight' /\ MovesMarked'
  BY <1>1, <1>2, CloserAssumption DEF ReviewInv, Goes, Overlaps, RecordsAreRight, MovesMarked, CleanupSteps, Everyone
<1>5. ClosesWritten'
  BY <1>1, <1>2, CloserAssumption
  DEF ReviewInv, Goes, Overlaps, ClosesWritten, RecordsAreRight, MarkersAreOwned, MakingHasFolder, Unmarking,
      CleanupSteps, Everyone
<1>6. MarkersAreOwned' /\ CleanIsWhole'
  BY <1>1, <1>2, CloserAssumption
  DEF ReviewInv, Goes, Overlaps, MarkersAreOwned, CleanIsWhole, ClosesWritten, RecordsAreRight, CleanupSteps,
      Unmarking, Marked, NoMarker, Everyone
<1>7. MakingHasFolder' /\ ReviewIsOwned'
  BY <1>1, <1>2, CloserAssumption
  DEF ReviewInv, Goes, Overlaps, ReviewIsOwned, RecordsAreRight, MakingHasFolder, MarkersAreOwned, CleanupSteps,
      OwnerAt, Unmarking, Marked, NoMarker, Everyone
<1>8. OneTrace'
  BY <1>1, <1>2, CloserAssumption
  DEF ReviewInv, Goes, Overlaps, OneTrace, OneMaking, Trace, MakingReview, RecordsAreRight, CleanupSteps, Everyone
<1>9. ReviewersInCharge'
  <2> USE CloserAssumption DEF ReviewInv, Clean, Goes, InCharge, AtWork, Retired, Unmarked, Removed, ClosingOn,
          RecordsAreRight, MarkersAreOwned, ClosesWritten, CleanupSteps, Unmarking, Marked, NoMarker, Everyone,
          ClosingIsInOrder, MakingHasFolder
  <2>1. SUFFICES ASSUME "abandoned" \notin mishaps', Clean' PROVE ClosingIsInOrder' /\ \A s \in Reviewers : InCharge(s)'
    BY DEF ReviewersInCharge
  <2>2. ClosingIsInOrder /\ (\A s \in Reviewers : InCharge(s)) /\ littered = {}
    BY <1>1, <1>2, <2>1 DEF ReviewersInCharge, CleanIsWhole, Overlaps
  <2>3. ClosingIsInOrder'
    BY <1>1, <1>2, <2>1, <2>2
  <2>4. ASSUME NEW s \in Reviewers PROVE InCharge(s)'
    BY <1>1, <1>2, <2>1, <2>2
  <2> QED BY <2>3, <2>4
<1> QED
  BY <1>3, <1>4, <1>5, <1>6, <1>7, <1>8, <1>9 DEF ReviewInv

\* The closer removes the renamed marker of r.
LEMMA CloserRemovesMarker ==
  ASSUME ReviewInv, NEW r \in Reviewers, NEW marked \in BOOLEAN, NEW tries \in {0, 1, 2}, Goes(Closer, "check", r,
         marked, tries),
         Overlaps, mishaps' \subseteq {"overlapped", "torn", "littered", "abandoned"},
         owner[Closer].record = r,
         owner[Closer].at = "removeMarker",
         owner[Closer].marked = marked,
         r \in retired,
         folder' = folder,
         littered' = littered,
         reviewMarker' = reviewMarker,
         stopping' = stopping,
         retired' = retired \ {r}
  PROVE  ReviewInv'
<1>1. Closer \in Everyone /\ ReviewTypeOK
  BY DEF Everyone, ReviewInv
<1>2. Goes(Closer, "check", r, marked, tries)
  OBVIOUS
<1>3. ReviewTypeOK'
  BY <1>1, <1>2 DEF Goes, ReviewTypeOK, OwnerRecord, OwnerSteps
<1>4. RecordsAreRight' /\ MovesMarked'
  BY <1>1, <1>2, CloserAssumption DEF ReviewInv, Goes, Overlaps, RecordsAreRight, MovesMarked, CleanupSteps, Everyone
<1>5. ClosesWritten'
  BY <1>1, <1>2, CloserAssumption
  DEF ReviewInv, Goes, Overlaps, ClosesWritten, RecordsAreRight, MarkersAreOwned, MakingHasFolder, Unmarking,
      CleanupSteps, Everyone
<1>6. MarkersAreOwned' /\ CleanIsWhole'
  BY <1>1, <1>2, CloserAssumption
  DEF ReviewInv, Goes, Overlaps, MarkersAreOwned, CleanIsWhole, ClosesWritten, RecordsAreRight, CleanupSteps,
      Unmarking, Marked, NoMarker, Everyone
<1>7. MakingHasFolder' /\ ReviewIsOwned'
  BY <1>1, <1>2, CloserAssumption
  DEF ReviewInv, Goes, Overlaps, ReviewIsOwned, RecordsAreRight, MakingHasFolder, MarkersAreOwned, CleanupSteps,
      OwnerAt, Unmarking, Marked, NoMarker, Everyone
<1>8. OneTrace'
  BY <1>1, <1>2, CloserAssumption
  DEF ReviewInv, Goes, Overlaps, OneTrace, OneMaking, Trace, MakingReview, RecordsAreRight, CleanupSteps, Everyone
<1>9. ReviewersInCharge'
  <2> USE CloserAssumption DEF ReviewInv, Clean, Goes, InCharge, AtWork, Retired, Unmarked, Removed, ClosingOn,
          RecordsAreRight, MarkersAreOwned, ClosesWritten, CleanupSteps, Unmarking, Marked, NoMarker, Everyone,
          ClosingIsInOrder, MakingHasFolder
  <2>1. SUFFICES ASSUME "abandoned" \notin mishaps', Clean' PROVE ClosingIsInOrder' /\ \A s \in Reviewers : InCharge(s)'
    BY DEF ReviewersInCharge
  <2>2. ClosingIsInOrder /\ (\A s \in Reviewers : InCharge(s)) /\ littered = {}
    BY <1>1, <1>2, <2>1 DEF ReviewersInCharge, CleanIsWhole, Overlaps
  <2>3. ClosingIsInOrder'
    BY <1>1, <1>2, <2>1, <2>2
  <2>4. ASSUME NEW s \in Reviewers PROVE InCharge(s)'
    BY <1>1, <1>2, <2>1, <2>2
  <2> QED BY <2>3, <2>4
<1> QED
  BY <1>3, <1>4, <1>5, <1>6, <1>7, <1>8, <1>9 DEF ReviewInv

\* The closer stops for good and leaves what it did not remove.
LEMMA CloserStops ==
  ASSUME ReviewInv, Goes(Closer, "idle", owner[Closer].record, owner[Closer].marked, owner[Closer].tries),
         mishaps \subseteq mishaps',
         mishaps' \subseteq {"overlapped", "torn", "littered", "abandoned"},
         "abandoned" \in mishaps',
         folder' = folder,
         littered' = littered,
         reviewMarker' = reviewMarker,
         retired' = retired,
         stopping' = stopping
  PROVE  ReviewInv'
<1>1. Closer \in Everyone /\ ReviewTypeOK
  BY DEF Everyone, ReviewInv
<1>2. Goes(Closer, "idle", owner[Closer].record, owner[Closer].marked, owner[Closer].tries)
  OBVIOUS
<1>3. ReviewTypeOK'
  BY <1>1, <1>2 DEF Goes, ReviewTypeOK, OwnerRecord, OwnerSteps
<1>4. RecordsAreRight' /\ MovesMarked'
  BY <1>1, <1>2, CloserAssumption DEF ReviewInv, Goes, RecordsAreRight, MovesMarked, CleanupSteps, Everyone
<1>5. ClosesWritten'
  BY <1>1, <1>2, CloserAssumption
  DEF ReviewInv, Goes, ClosesWritten, RecordsAreRight, MarkersAreOwned, MakingHasFolder, Unmarking, CleanupSteps,
      Everyone
<1>6. MarkersAreOwned' /\ CleanIsWhole'
  BY <1>1, <1>2, CloserAssumption
  DEF ReviewInv, Goes, MarkersAreOwned, CleanIsWhole, ClosesWritten, RecordsAreRight, CleanupSteps, Unmarking,
      Marked, NoMarker, Everyone
<1>7. MakingHasFolder' /\ ReviewIsOwned'
  BY <1>1, <1>2, CloserAssumption
  DEF ReviewInv, Goes, ReviewIsOwned, RecordsAreRight, MakingHasFolder, MarkersAreOwned, CleanupSteps, OwnerAt,
      Unmarking, Marked, NoMarker, Everyone
<1>8. OneTrace'
  BY <1>1, <1>2, CloserAssumption
  DEF ReviewInv, Goes, OneTrace, OneMaking, Trace, MakingReview, RecordsAreRight, CleanupSteps, Everyone
<1>9. ReviewersInCharge'
  <2> USE CloserAssumption DEF ReviewInv, Clean, Goes, InCharge, AtWork, Retired, Unmarked, Removed, ClosingOn,
          RecordsAreRight, MarkersAreOwned, ClosesWritten, CleanupSteps, Unmarking, Marked, NoMarker, Everyone,
          ClosingIsInOrder, MakingHasFolder
  <2>1. SUFFICES ASSUME "abandoned" \notin mishaps', Clean' PROVE ClosingIsInOrder' /\ \A s \in Reviewers : InCharge(s)'
    BY DEF ReviewersInCharge
  <2>2. ClosingIsInOrder /\ (\A s \in Reviewers : InCharge(s)) /\ littered = {}
    BY <1>1, <1>2, <2>1 DEF ReviewersInCharge, CleanIsWhole
  <2>3. ClosingIsInOrder'
    BY <1>1, <1>2, <2>1, <2>2
  <2>4. ASSUME NEW s \in Reviewers PROVE InCharge(s)'
    BY <1>1, <1>2, <2>1, <2>2
  <2> QED BY <2>3, <2>4
<1> QED
  BY <1>3, <1>4, <1>5, <1>6, <1>7, <1>8, <1>9 DEF ReviewInv

-----------------------------------------------------------------------------
\* The actions.

\* A reviewer creates its marker, unless another is in the way.
LEMMA CreateReviewMarkerKeeps ==
  ASSUME ReviewInv, NEW r \in Reviewers, CreateReviewMarker(r)
  PROVE  ReviewInv'
<1>1. owner[r].at = "mark" /\ r \in Everyone /\ ReviewTypeOK
  BY DEF CreateReviewMarker, OwnerAt, Everyone, ReviewInv
<1>2. CASE Marked
  <2>1. OwnerTo(r, "unmake") /\ KeepFiles /\ stopping' = stopping
    BY <1>2 DEF CreateReviewMarker, KeepFiles
  <2> QED BY <1>1, <1>2, <2>1, StepGoes, MarkerIsTaken DEF KeepFiles, OwnerSteps
<1>3. CASE ~Marked
  <2>1. OwnerTo(r, "write") /\ reviewMarker' = [reviewer |-> r, whole |-> FALSE]
    BY <1>3 DEF CreateReviewMarker
  <2>2. folder' = folder /\ littered' = littered /\ retired' = retired /\ stopping' = stopping
    BY DEF CreateReviewMarker
  <2> QED BY <1>1, <1>3, <2>1, <2>2, StepGoes, MarkerIsCreated DEF OwnerSteps
<1> QED BY <1>2, <1>3

\* A step of x that is not a step of a creation, with what it adds to the history.
LEMMA PlainGoes ==
  ASSUME ReviewTypeOK, NEW x \in Everyone, NEW step \in OwnerSteps, NEW more,
         more \subseteq {"torn", "littered", "abandoned"},
         owner' = [owner EXCEPT ![x].at = step], mishaps' = mishaps \union more
  PROVE  /\ Goes(x, step, owner[x].record, owner[x].marked, owner[x].tries)
         /\ mishaps \subseteq mishaps' /\ more \subseteq mishaps'
         /\ mishaps' \subseteq {"overlapped", "torn", "littered", "abandoned"}
<1>1. owner \in [Everyone -> OwnerRecord] /\ owner[x] \in OwnerRecord
  BY ReviewTyped
<1>2. Goes(x, step, owner[x].record, owner[x].marked, owner[x].tries)
  BY <1>1 DEF Goes, OwnerRecord
<1> QED BY <1>2, ReviewTyped

\* A reviewer writes its marker.
LEMMA WriteReviewMarkerKeeps ==
  ASSUME ReviewInv, NEW r \in Reviewers, WriteReviewMarker(r)
  PROVE  ReviewInv'
<1>1. /\ owner[r].at = "write" /\ r \in Everyone /\ ReviewTypeOK
      /\ folder' = folder /\ littered' = littered /\ retired' = retired /\ stopping' = stopping
  BY DEF WriteReviewMarker, OwnerAt, Everyone, ReviewInv
<1>2. CASE reviewMarker' = [reviewMarker EXCEPT !.whole = TRUE] /\ OwnerTo(r, "review")
  <2>1. reviewMarker = [reviewer |-> r, whole |-> FALSE]
    BY <1>1 DEF ReviewInv, MarkersAreOwned
  <2>2. reviewMarker' = [reviewer |-> r, whole |-> TRUE]
    BY <1>2, <2>1
  <2> QED BY <1>1, <1>2, <2>2, StepGoes, MarkerIsWritten DEF OwnerSteps
<1>3. CASE /\ owner' = [owner EXCEPT ![r].at = "unmake"]
           /\ mishaps' = mishaps \union {"torn"} /\ UNCHANGED reviewMarker
  <2>1. /\ Goes(r, "unmake", owner[r].record, owner[r].marked, owner[r].tries)
        /\ mishaps \subseteq mishaps' /\ "torn" \in mishaps'
        /\ mishaps' \subseteq {"overlapped", "torn", "littered", "abandoned"}
    BY <1>1, <1>3, PlainGoes DEF OwnerSteps
  <2> QED BY <1>1, <1>3, <2>1, RecordFields, ReviewStops
<1> QED BY <1>2, <1>3 DEF WriteReviewMarker

\* A review ends; its reviewer cleans up, or leaves what was created.
LEMMA ReviewOverKeeps ==
  ASSUME ReviewInv, NEW r \in Reviewers, ReviewOver(r)
  PROVE  ReviewInv'
<1>1. owner[r].at = "review" /\ r \in Everyone /\ ReviewTypeOK /\ KeepFiles /\ stopping' = stopping
  BY DEF ReviewOver, OwnerAt, Everyone, ReviewInv
<1>2. CASE OwnerBecomes(r, [owner[r] EXCEPT !.at = "locate", !.tries = 1])
  <2>1. Goes(r, "locate", owner[r].record, owner[r].marked, 1)
    BY <1>1, <1>2, TriesGoes DEF OwnerSteps
  <2>2. mishaps' \subseteq {"overlapped", "torn", "littered", "abandoned"} /\ mishaps \subseteq mishaps'
    BY <1>2, ReviewTyped, <1>1 DEF OwnerBecomes
  <2>3. folder' = folder /\ littered' = littered /\ reviewMarker' = reviewMarker /\ retired' = retired
    BY <1>1 DEF KeepFiles
  <2>4. PICK step \in OwnerSteps, tries \in {0, 1, 2} :
          step = "locate" /\ tries = 1 /\ Goes(r, step, owner[r].record, owner[r].marked, tries)
    BY <2>1 DEF OwnerSteps
  <2>5. owner[r].at \notin {"idle", "done"} /\ owner[r].at # "write" /\ step \in {"unmake", "locate", "done"}
    BY <1>1, <2>4
  <2>6. step # "unmake" /\ step # "done" /\ (step = "locate" => owner[r].at = "review" /\ tries = 1)
    BY <1>1, <2>4
  <2> QED BY <1>1, <2>2, <2>3, <2>4, <2>5, <2>6, ReviewStops
<1>3. CASE owner' = [owner EXCEPT ![r].at = "done"] /\ mishaps' = mishaps \union {"abandoned"}
  <2>1. /\ Goes(r, "done", owner[r].record, owner[r].marked, owner[r].tries)
        /\ mishaps \subseteq mishaps' /\ "abandoned" \in mishaps'
        /\ mishaps' \subseteq {"overlapped", "torn", "littered", "abandoned"}
    BY <1>1, <1>3, PlainGoes DEF OwnerSteps
  <2> QED BY <1>1, <2>1, RecordFields, ReviewStops DEF KeepFiles
<1> QED BY <1>2, <1>3 DEF ReviewOver

\* A review writes into its folder, which the history records.
LEMMA LitterKeeps ==
  ASSUME ReviewInv, NEW r \in Reviewers, Litter(r)
  PROVE  ReviewInv'
<1>1. /\ owner' = owner /\ folder' = folder /\ reviewMarker' = reviewMarker
      /\ retired' = retired /\ stopping' = stopping /\ littered' \subseteq Reviewers
      /\ mishaps' = mishaps \union {"littered"}
  BY ReviewTyped DEF Litter, ReviewInv
<1>2. ReviewTypeOK'
  BY <1>1 DEF ReviewInv, ReviewTypeOK
<1>3. RecordsAreRight' /\ MarkersAreOwned' /\ ClosesWritten' /\ MovesMarked'
  BY <1>1 DEF ReviewInv, MovesMarked, RecordsAreRight, MarkersAreOwned, ClosesWritten, Marked
<1>4. MakingHasFolder' /\ ReviewIsOwned' /\ CleanIsWhole'
  BY <1>1 DEF ReviewInv, MakingHasFolder, ReviewIsOwned, CleanIsWhole, OwnerAt
<1>5. OneTrace'
  BY <1>1 DEF ReviewInv, OneTrace, Trace
<1>6. ReviewersInCharge'
  BY <1>1 DEF ReviewersInCharge, Clean
<1> QED BY <1>2, <1>3, <1>4, <1>5, <1>6 DEF ReviewInv

\* A process that dies in its clean-up abandons it.
LEMMA DeathKeeps ==
  ASSUME ReviewInv, NEW x \in Everyone, OwnerDies(x)
  PROVE  ReviewInv'
<1> DEFINE more == {"abandoned"} \union (IF OwnerAt(x, "write") THEN {"torn"} ELSE {})
           step == IF x = Closer THEN "idle" ELSE "done"
<1>1. owner[x].at \notin {"idle", "done"} /\ ReviewTypeOK /\ KeepFiles /\ stopping' = stopping
  BY DEF OwnerDies, OwnerAt, ReviewInv
<1>2. /\ Goes(x, step, owner[x].record, owner[x].marked, owner[x].tries)
      /\ mishaps \subseteq mishaps' /\ more \subseteq mishaps'
      /\ mishaps' \subseteq {"overlapped", "torn", "littered", "abandoned"}
  <2>1. more \subseteq {"torn", "littered", "abandoned"} /\ step \in OwnerSteps
    BY DEF OwnerSteps
  <2>2. owner' = [owner EXCEPT ![x].at = step] /\ mishaps' = mishaps \union more
    BY DEF OwnerDies
  <2> HIDE DEF more, step
  <2> QED BY <1>1, <2>1, <2>2, PlainGoes
<1>3. "abandoned" \in mishaps' /\ (owner[x].at = "write" => "torn" \in mishaps')
  BY <1>2 DEF OwnerAt
<1>4. CASE x \in Reviewers
  <2>1. step = "done"
    BY <1>4, CloserAssumption
  <2> HIDE DEF step, more
  <2> QED BY <1>1, <1>2, <1>3, <1>4, <2>1, RecordFields, ReviewStops DEF KeepFiles
<1>5. CASE x = Closer
  <2>1. step = "idle"
    BY <1>5
  <2> HIDE DEF step, more
  <2> QED BY <1>1, <1>2, <1>3, <1>5, <2>1, RecordFields, CloserStops DEF KeepFiles
<1> QED BY <1>4, <1>5 DEF Everyone

-----------------------------------------------------------------------------
\* A cleanup that does not go on.

Tidying == "abandoned" \notin mishaps /\ Clean
AllInCharge == ClosingIsInOrder /\ (\A s \in Reviewers : InCharge(s)) /\ littered = {}

\* Where no clean-up is abandoned everybody is in charge of what is left.
LEMMA CalmIsInCharge == ASSUME ReviewInv, Tidying PROVE AllInCharge
BY DEF ReviewInv, ReviewersInCharge, CleanIsWhole, Tidying, Clean, AllInCharge

\* What a reviewer leaves when its cleanup fails for good.
ReviewerLeftInOrder(r) ==
  /\ Removed(r) \/ (Retired(r) /\ (ClosingOn(r) \/ folder[r] = "none"))
  /\ r \in retired => owner[Closer].record = r

\* The owner x goes on with files as they are.
LEMMA ReviewerKeepsOn ==
  ASSUME ReviewInv, NEW r \in Reviewers, owner[r].at \in CleanupSteps, NEW step \in CleanupSteps \union {"done"},
         NEW marked \in BOOLEAN, Goes(r, step, owner[r].record, marked, owner[r].tries), Overlaps,
         mishaps' \subseteq {"overlapped", "torn", "littered", "abandoned"},
         KeepFiles, stopping' = stopping, step = "moveMarker" => marked, Tidying => InCharge(r)'
  PROVE  ReviewInv'
<1>1. ReviewTypeOK /\ r \in Everyone
  BY DEF ReviewInv, Everyone
<1>2. "abandoned" \notin mishaps' /\ Clean' => Tidying
  BY DEF Overlaps, Clean, Tidying
<1> QED
  BY <1>1, <1>2, RecordFields, ReviewerGoesOn DEF KeepFiles

\* A step of the closer that touches no file.
LEMMA CloserKeepsOn ==
  ASSUME ReviewInv, NEW step \in OwnerSteps, NEW record \in Everyone, NEW marked \in BOOLEAN,
         Goes(Closer, step, record, marked, owner[Closer].tries), Overlaps,
         mishaps' \subseteq {"overlapped", "torn", "littered", "abandoned"},
         KeepFiles, stopping' = stopping,
         step \in CleanupSteps => record \in Reviewers /\ owner[record].at \notin {"idle", "make"},
         step = "moveMarker" \/ (marked /\ step \in {"moveFolder", "removeFolder", "removeMarker"})
           => owner[record].at \notin Unmarking \union {"write"},
         step \in CleanupSteps \union {"recover", "check", "closed"} => stopping, step = "moveMarker" => marked,
         Tidying => /\ ClosingIsInOrder'
                 /\ \A s \in retired : (ClosingOn(s) => ClosingOn(s)') /\ (owner[Closer].record = s => record = s)
  PROVE  ReviewInv'
<1>1. ReviewTypeOK /\ Closer \in Everyone
  BY DEF ReviewInv, Everyone
<1>2. "abandoned" \notin mishaps' /\ Clean' => Tidying
  BY DEF Overlaps, Clean, Tidying
<1> QED
  BY <1>1, <1>2, RecordFields, CloserGoesOn DEF KeepFiles

\* A reviewer whose clean-up cannot go on abandons it only out of order.
LEMMA ReviewerFails ==
  ASSUME ReviewInv, NEW r \in Reviewers, owner[r].at \in CleanupSteps, CleanupFails(r),
         KeepFiles, stopping' = stopping, Tidying => ReviewerLeftInOrder(r)
  PROVE  ReviewInv'
<1>1. r \in Everyone /\ r # Closer /\ ReviewTypeOK
  BY CloserAssumption DEF Everyone, ReviewInv
<1>2. \/ Goes(r, "locate", owner[r].record, owner[r].marked, 2)
      \/ Goes(r, "done", owner[r].record, owner[r].marked, owner[r].tries)
  BY <1>1, StepGoes, TriesGoes DEF CleanupFails, OwnerSteps
<1>3. Overlaps /\ mishaps' \subseteq {"overlapped", "torn", "littered", "abandoned"}
  BY <1>1, StepGoes, TriesGoes DEF CleanupFails, OwnerSteps
<1>4. "abandoned" \notin mishaps' /\ Clean' => Tidying
  BY <1>3 DEF Overlaps, Clean, Tidying
<1>5. PICK step \in {"locate", "done"}, tries \in {0, 1, 2} :
        Goes(r, step, owner[r].record, owner[r].marked, tries) /\ (step = "locate" => tries = 2)
  BY <1>1, <1>2, RecordFields
<1>6. "abandoned" \notin mishaps' /\ Clean' => InCharge(r)'
  BY <1>1, <1>4, <1>5 DEF ReviewerLeftInOrder, KeepFiles, InCharge, Removed, Retired, Unmarked, ClosingOn, Goes, Everyone
<1> QED
  BY <1>1, <1>3, <1>5, <1>6, RecordFields, ReviewerGoesOn DEF KeepFiles, CleanupSteps

\* A closer that cannot go on abandons a review only if it was at it.
LEMMA CloserFails ==
  ASSUME ReviewInv, OwnerTo(Closer, "idle"), KeepFiles, stopping' = stopping,
         Tidying => \A s \in retired : ~ClosingOn(s)
  PROVE  ReviewInv'
<1>1. Closer \in Everyone /\ ReviewTypeOK
  BY DEF Everyone, ReviewInv
<1>2. /\ Goes(Closer, "idle", owner[Closer].record, owner[Closer].marked, owner[Closer].tries) /\ Overlaps
      /\ mishaps' \subseteq {"overlapped", "torn", "littered", "abandoned"}
  BY <1>1, StepGoes DEF OwnerSteps
<1>3. ClosingIsInOrder'
  BY <1>2 DEF ClosingIsInOrder, Goes
<1>4. PICK step \in OwnerSteps :
        step = "idle" /\ Goes(Closer, step, owner[Closer].record, owner[Closer].marked, owner[Closer].tries)
  BY <1>2 DEF OwnerSteps
<1> QED
  BY <1>1, <1>2, <1>3, <1>4, RecordFields, CloserKeepsOn DEF CleanupSteps

\* What the closer at its cleanup relies on.
LEMMA CloserCleans ==
  ASSUME ReviewInv, owner[Closer].at \in CleanupSteps
  PROVE  /\ owner[Closer].record \in Reviewers /\ stopping
         /\ owner[owner[Closer].record].at \notin {"idle", "make"}
BY DEF ReviewInv, RecordsAreRight, ClosesWritten

\* A clean-up looks for the folder and the marker of its record.
LEMMA LocateKeeps ==
  ASSUME ReviewInv, NEW x \in Everyone, Locate(x)
  PROVE  ReviewInv'
<1> DEFINE r == owner[x].record
<1>1. /\ owner[x].at = "locate" /\ ReviewTypeOK /\ KeepFiles /\ stopping' = stopping
      /\ owner[x].at \in CleanupSteps /\ Overlaps
      /\ mishaps' \subseteq {"overlapped", "torn", "littered", "abandoned"}
  <2>1. \/ CleanupFails(x)
        \/ OwnerBecomes(x, [owner[x] EXCEPT !.at = "moveMarker", !.marked = TRUE])
        \/ \E b \in BOOLEAN : OwnerBecomes(x, [owner[x] EXCEPT !.at = "moveFolder", !.marked = b])
    BY DEF Locate, MarkerOf
  <2>2. owner[x].at = "locate" /\ ReviewTypeOK /\ KeepFiles /\ stopping' = stopping
    BY DEF Locate, OwnerAt, ReviewInv
  <2>3. Overlaps /\ mishaps' \subseteq {"overlapped", "torn", "littered", "abandoned"}
    BY <2>1, <2>2, MarkedGoes, StepGoes, TriesGoes DEF CleanupFails, OwnerSteps
  <2> QED BY <2>2, <2>3 DEF CleanupSteps
<1>2. CASE x \in Reviewers
  <2>1. r = x /\ x # Closer
    BY <1>2, CloserAssumption DEF ReviewInv, RecordsAreRight
  <2>2. Tidying => InCharge(x)
    BY <1>2, CalmIsInCharge DEF AllInCharge
  <2>3. CASE MarkerOf(x) = "active"
    <3>1. OwnerBecomes(x, [owner[x] EXCEPT !.at = "moveMarker", !.marked = TRUE])
      BY <2>1, <2>3 DEF Locate
    <3>2. Goes(x, "moveMarker", owner[x].record, TRUE, owner[x].tries)
      BY <1>1, <3>1, MarkedGoes DEF OwnerSteps
    <3>3. Marked /\ x \notin retired /\ reviewMarker = [reviewer |-> x, whole |-> TRUE]
      BY <2>3 DEF MarkerOf
    <3>4. reviewMarker.reviewer = x
      BY <3>3
    <3>5. Tidying => InCharge(x)'
      BY <1>1, <1>2, <2>1, <2>2, <3>2, <3>3, <3>4
      DEF KeepFiles, Goes, InCharge, AtWork, Retired, Removed, Unmarked, ClosingOn, Everyone
    <3> QED BY <1>1, <1>2, <3>2, <3>5, ReviewerKeepsOn DEF CleanupSteps
  <2>4. CASE MarkerOf(x) = "retiring"
    <3>1. OwnerBecomes(x, [owner[x] EXCEPT !.at = "moveFolder", !.marked = TRUE])
      BY <2>1, <2>4 DEF Locate
    <3>2. Goes(x, "moveFolder", owner[x].record, TRUE, owner[x].tries)
      BY <1>1, <3>1, MarkedGoes DEF OwnerSteps
    <3>3. ~Marked /\ x \in retired
      BY <2>4 DEF MarkerOf
    <3>4. reviewMarker.reviewer # x
      BY <1>2, <3>3 DEF ReviewInv, MarkersAreOwned
    <3>5. Tidying => InCharge(x)'
      BY <1>1, <1>2, <2>1, <2>2, <3>2, <3>3, <3>4
      DEF KeepFiles, Goes, InCharge, AtWork, Retired, Removed, Unmarked, ClosingOn, Everyone
    <3> QED BY <1>1, <1>2, <3>2, <3>5, ReviewerKeepsOn DEF CleanupSteps
  <2>5. CASE MarkerOf(x) = "absent" /\ retired = {} /\ Folders \subseteq {x}
    <3>1. OwnerBecomes(x, [owner[x] EXCEPT !.at = "moveFolder", !.marked = FALSE])
      BY <2>1, <2>5 DEF Locate
    <3>2. Goes(x, "moveFolder", owner[x].record, FALSE, owner[x].tries)
      BY <1>1, <3>1, MarkedGoes DEF OwnerSteps
    <3>3. x \notin retired /\ reviewMarker.reviewer # x
      BY <1>2, <2>1, <2>5 DEF MarkerOf, Marked, NoMarker
    <3>4. Tidying => InCharge(x)'
      BY <1>1, <1>2, <2>1, <2>2, <3>2, <3>3
      DEF KeepFiles, Goes, InCharge, AtWork, Retired, Removed, Unmarked, ClosingOn, Everyone
    <3>5. PICK marked \in BOOLEAN, step \in CleanupSteps :
            ~marked /\ step = "moveFolder" /\ Goes(x, step, owner[x].record, marked, owner[x].tries)
      BY <3>2 DEF CleanupSteps
    <3> QED BY <1>1, <1>2, <3>4, <3>5, ReviewerKeepsOn
  <2>6. CASE \/ MarkerOf(x) = "ambiguous"
             \/ MarkerOf(x) = "absent" /\ ~(retired = {} /\ Folders \subseteq {x})
    <3>1. CleanupFails(x)
      BY <2>1, <2>6 DEF Locate
    <3>2. Tidying => ReviewerLeftInOrder(x)
      <4>1. ~AtWork(x)
        <5>1. ASSUME AtWork(x) PROVE FALSE
          <6>1. Marked
            BY <5>1, <2>1 DEF AtWork, Marked, NoMarker
          <6> QED BY <2>6, <5>1, <6>1 DEF AtWork, MarkerOf
        <5> QED BY <5>1
      <4> QED BY <1>1, <1>2, <2>2, <4>1 DEF InCharge, ReviewerLeftInOrder, Removed, Unmarked, Retired, ClosingOn
    <3> QED BY <1>1, <1>2, <3>1, <3>2, ReviewerFails
  <2> QED BY <2>3, <2>4, <2>5, <2>6 DEF MarkerOf
<1>3. CASE x = Closer
  <2>1. r \in Reviewers /\ stopping /\ owner[r].at \notin {"idle", "make"}
    BY <1>1, <1>3, CloserCleans
  <2>2. \A s \in Reviewers : ~ClosingOn(s)
    BY <1>1, <1>3 DEF ClosingOn
  <2>3. CASE MarkerOf(r) = "active"
    <3>1. OwnerBecomes(x, [owner[x] EXCEPT !.at = "moveMarker", !.marked = TRUE])
      BY <2>3 DEF Locate
    <3>2. Goes(x, "moveMarker", r, TRUE, owner[x].tries)
      BY <1>1, <3>1, MarkedGoes DEF OwnerSteps
    <3>3. reviewMarker = [reviewer |-> r, whole |-> TRUE]
      BY <2>3 DEF MarkerOf
    <3>4. reviewMarker.reviewer = r /\ reviewMarker.whole
      BY <3>3
    <3>5. owner[r].at \notin Unmarking \union {"write"}
      BY <2>1, <3>4 DEF ReviewInv, MarkersAreOwned
    <3>6. ClosingIsInOrder'
      BY <1>3, <3>2 DEF ClosingIsInOrder, Goes
    <3> QED
      BY <1>1, <1>3, <2>1, <2>2, <3>2, <3>5, <3>6, ReviewTyped, CloserKeepsOn DEF CleanupSteps, OwnerSteps, Everyone
  <2>4. CASE MarkerOf(r) = "retiring"
    <3>1. OwnerBecomes(x, [owner[x] EXCEPT !.at = "moveFolder", !.marked = TRUE])
      BY <2>4 DEF Locate
    <3>2. Goes(x, "moveFolder", r, TRUE, owner[x].tries)
      BY <1>1, <3>1, MarkedGoes DEF OwnerSteps
    <3>3. r \in retired
      BY <2>4 DEF MarkerOf
    <3>4. owner[r].at \notin Unmarking \union {"write"}
      BY <2>1, <3>3 DEF ReviewInv, MarkersAreOwned
    <3>5. ClosingIsInOrder'
      BY <1>3, <3>2 DEF ClosingIsInOrder, Goes
    <3> QED
      BY <1>1, <1>3, <2>1, <2>2, <3>2, <3>4, <3>5, ReviewTyped, CloserKeepsOn DEF CleanupSteps, OwnerSteps, Everyone
  <2>5. CASE MarkerOf(r) = "absent" /\ retired = {} /\ Folders \subseteq {r}
    <3>1. OwnerBecomes(x, [owner[x] EXCEPT !.at = "moveFolder", !.marked = FALSE])
      BY <2>5 DEF Locate
    <3>2. Goes(x, "moveFolder", r, FALSE, owner[x].tries)
      BY <1>1, <3>1, MarkedGoes DEF OwnerSteps
    <3>3. ClosingIsInOrder'
      BY <1>3, <3>2 DEF ClosingIsInOrder, Goes
    <3> QED
      BY <1>1, <1>3, <2>1, <2>2, <3>2, <3>3, ReviewTyped, CloserKeepsOn DEF CleanupSteps, OwnerSteps, Everyone
  <2>6. CASE \/ MarkerOf(r) = "ambiguous"
             \/ MarkerOf(r) = "absent" /\ ~(retired = {} /\ Folders \subseteq {r})
    <3>1. CleanupFails(x)
      BY <2>6 DEF Locate
    <3>2. OwnerTo(Closer, "idle")
      BY <1>3, <3>1 DEF CleanupFails
    <3> QED BY <1>1, <2>2, <3>2, ReviewTyped, CloserFails
  <2> QED BY <2>3, <2>4, <2>5, <2>6 DEF MarkerOf
<1> QED BY <1>2, <1>3 DEF Everyone

\* A clean-up renames the marker.
LEMMA MoveMarkerKeeps ==
  ASSUME ReviewInv, NEW x \in Everyone, MoveMarker(x)
  PROVE  ReviewInv'
<1> DEFINE r == owner[x].record
<1>1. /\ owner[x].at = "moveMarker" /\ owner[x].at \in CleanupSteps /\ ReviewTypeOK
      /\ folder' = folder /\ littered' = littered /\ stopping' = stopping
  BY DEF MoveMarker, OwnerAt, ReviewInv, CleanupSteps
<1>2. CASE r \notin retired /\ reviewMarker.reviewer = r
  <2>1. reviewMarker' = NoMarker /\ retired' = retired \union {r} /\ OwnerTo(x, "moveFolder")
    BY <1>2 DEF MoveMarker
  <2>2. /\ Goes(x, "moveFolder", r, owner[x].marked, owner[x].tries) /\ Overlaps
        /\ mishaps' \subseteq {"overlapped", "torn", "littered", "abandoned"}
    BY <1>1, <2>1, StepGoes DEF OwnerSteps
  <2>3. owner[x].marked
    BY <1>1 DEF ReviewInv, MovesMarked
  <2>4. CASE x \in Reviewers
    <3>1. r = x
      BY <2>4 DEF ReviewInv, RecordsAreRight
    <3> QED BY <1>1, <1>2, <2>1, <2>2, <2>3, <2>4, <3>1, ReviewerMovesMarker
  <2>5. CASE x = Closer
    <3>1. r \in Reviewers
      BY <1>1, <2>5, CloserCleans
    <3>2. owner[x].marked = TRUE /\ owner[x].tries \in {0, 1, 2}
      BY <1>1, <2>3, RecordFields
    <3> QED BY <1>1, <1>2, <2>1, <2>2, <2>5, <3>1, <3>2, CloserMovesMarker
  <2> QED BY <2>4, <2>5 DEF Everyone
<1>3. CASE ~(r \notin retired /\ reviewMarker.reviewer = r)
  <2>1. CleanupFails(x) /\ KeepFiles
    BY <1>1, <1>3 DEF MoveMarker, KeepFiles
  <2>2. CASE x \in Reviewers
    <3>1. r = x
      BY <2>2 DEF ReviewInv, RecordsAreRight
    <3>2. Tidying => ReviewerLeftInOrder(x)
      BY <1>1, <1>3, <2>2, <3>1, CalmIsInCharge
      DEF AllInCharge, InCharge, ReviewerLeftInOrder, AtWork, Removed, Unmarked, Retired, ClosingOn
    <3> QED BY <1>1, <2>1, <2>2, <3>2, ReviewerFails
  <2>3. CASE x = Closer
    <3>1. OwnerTo(Closer, "idle") /\ \A s \in retired : ~ClosingOn(s)
      BY <1>1, <2>1, <2>3 DEF CleanupFails, ClosingOn
    <3> QED BY <1>1, <2>1, <3>1, CloserFails
  <2> QED BY <2>2, <2>3 DEF Everyone
<1> QED BY <1>2, <1>3

\* x has done with its folder.
LEMMA FolderGoneGoes ==
  ASSUME ReviewTypeOK, NEW x \in Everyone, FolderGone(x)
  PROVE  /\ Overlaps /\ mishaps' \subseteq {"overlapped", "torn", "littered", "abandoned"}
         /\ \E step \in OwnerSteps :
              /\ Goes(x, step, owner[x].record, owner[x].marked, owner[x].tries)
              /\ step = IF owner[x].marked THEN "removeMarker" ELSE IF x = Closer THEN "check" ELSE "done"
BY StepGoes DEF FolderGone, CleanupEnds, OwnerSteps

\* A clean-up renames the folder.
LEMMA MoveFolderKeeps ==
  ASSUME ReviewInv, NEW x \in Everyone, MoveFolder(x)
  PROVE  ReviewInv'
<1> DEFINE r == owner[x].record
<1>1. /\ owner[x].at = "moveFolder" /\ owner[x].at \in CleanupSteps /\ ReviewTypeOK
      /\ littered' = littered /\ reviewMarker' = reviewMarker /\ retired' = retired /\ stopping' = stopping
  BY DEF MoveFolder, OwnerAt, ReviewInv, CleanupSteps
<1>2. r \in Reviewers /\ (x \in Reviewers => r = x)
  BY <1>1, CloserCleans DEF ReviewInv, RecordsAreRight, Everyone
<1>3. CASE folder[r] = "none"
  <2>1. FolderGone(x) /\ KeepFiles
    BY <1>1, <1>3 DEF MoveFolder, KeepFiles
  <2>2. PICK step \in OwnerSteps :
          /\ Goes(x, step, r, owner[x].marked, owner[x].tries)
          /\ step = IF owner[x].marked THEN "removeMarker" ELSE IF x = Closer THEN "check" ELSE "done"
    BY <1>1, <2>1, FolderGoneGoes
  <2>3. Overlaps /\ mishaps' \subseteq {"overlapped", "torn", "littered", "abandoned"}
    BY <1>1, <2>1, FolderGoneGoes
  <2>4. CASE x \in Reviewers
    <3>1. step \in CleanupSteps \union {"done"} /\ step # "moveMarker" /\ x # Closer
      BY <2>2, <2>4, CloserAssumption DEF CleanupSteps
    <3>2. Tidying => InCharge(x)'
      BY <1>1, <1>2, <1>3, <2>1, <2>2, <2>4, <3>1, CalmIsInCharge
      DEF AllInCharge, KeepFiles, Goes, InCharge, AtWork, Retired, Removed, Unmarked, ClosingOn, Everyone
    <3> QED BY <1>1, <1>2, <2>1, <2>2, <2>3, <2>4, <3>1, <3>2, RecordFields, ReviewerKeepsOn
  <2>5. CASE x = Closer
    <3>1. owner[x].marked => owner[r].at \notin Unmarking \union {"write"}
      BY <1>1, <2>5 DEF ReviewInv, ClosesWritten
    <3>2. ClosingIsInOrder'
      BY <1>1, <1>3, <2>1, <2>2, <2>5 DEF ClosingIsInOrder, Goes, KeepFiles
    <3>3. \A s \in Reviewers : ClosingOn(s) => ClosingOn(s)'
      BY <1>1, <2>2, <2>5 DEF ClosingOn, Goes
    <3>4. stopping /\ owner[r].at \notin {"idle", "make"}
      BY <1>1, <2>5, CloserCleans
    <3>5. step # "moveMarker" /\ (step \in CleanupSteps \union {"recover", "check", "closed"} => stopping)
      BY <2>2, <3>4
    <3> QED
      BY <1>1, <1>2, <2>1, <2>2, <2>3, <2>5, <3>1, <3>2, <3>3, <3>4, <3>5, ReviewTyped, RecordFields, CloserKeepsOn
      DEF Everyone
  <2> QED BY <2>4, <2>5 DEF Everyone
<1>4. CASE folder[r] # "none" /\ r \in littered
  <2>1. CleanupFails(x) /\ KeepFiles /\ ~Tidying
    BY <1>1, <1>4, CalmIsInCharge DEF MoveFolder, KeepFiles, AllInCharge
  <2> QED BY <1>1, <2>1, ReviewerFails, CloserFails DEF CleanupFails, Everyone
<1>5. CASE folder[r] # "none" /\ r \notin littered
  <2>1. folder' = [folder EXCEPT ![r] = "retiring"] /\ OwnerTo(x, "removeFolder")
    BY <1>5 DEF MoveFolder
  <2>2. /\ folder' \in [Reviewers -> {"none", "active", "retiring"}] /\ folder'[r] = "retiring"
        /\ \A s \in Reviewers : s # r => folder'[s] = folder[s]
    BY <1>1, <1>2, <2>1, ReviewTyped
  <2>3. /\ Goes(x, "removeFolder", r, owner[x].marked, owner[x].tries) /\ Overlaps
        /\ mishaps' \subseteq {"overlapped", "torn", "littered", "abandoned"}
    BY <1>1, <2>1, StepGoes DEF OwnerSteps
  <2>4. CASE x \in Reviewers
    BY <1>1, <1>2, <1>5, <2>2, <2>3, <2>4, ReviewerMovesFolder
  <2>5. CASE x = Closer
    BY <1>1, <1>2, <1>5, <2>2, <2>3, <2>5, RecordFields, CloserMovesFolder
  <2> QED BY <2>4, <2>5 DEF Everyone
<1> QED BY <1>3, <1>4, <1>5

\* A clean-up removes the folder.
LEMMA RemoveFolderKeeps ==
  ASSUME ReviewInv, NEW x \in Everyone, RemoveFolder(x)
  PROVE  ReviewInv'
<1> DEFINE r == owner[x].record
<1>1. /\ owner[x].at = "removeFolder" /\ owner[x].at \in CleanupSteps /\ ReviewTypeOK
      /\ littered' = littered /\ reviewMarker' = reviewMarker /\ retired' = retired /\ stopping' = stopping
  BY DEF RemoveFolder, OwnerAt, ReviewInv, CleanupSteps
<1>2. r \in Reviewers /\ (x \in Reviewers => r = x)
  BY <1>1, CloserCleans DEF ReviewInv, RecordsAreRight, Everyone
<1>3. CASE folder[r] = "retiring"
  <2>1. folder' = [folder EXCEPT ![r] = "none"] /\ FolderGone(x)
    BY <1>3 DEF RemoveFolder
  <2>2. /\ folder' \in [Reviewers -> {"none", "active", "retiring"}] /\ folder'[r] = "none"
        /\ \A s \in Reviewers : s # r => folder'[s] = folder[s]
    BY <1>1, <1>2, <2>1, ReviewTyped
  <2>3. PICK step \in OwnerSteps :
          /\ Goes(x, step, r, owner[x].marked, owner[x].tries)
          /\ step = IF owner[x].marked THEN "removeMarker" ELSE IF x = Closer THEN "check" ELSE "done"
    BY <1>1, <2>1, FolderGoneGoes
  <2>4. Overlaps /\ mishaps' \subseteq {"overlapped", "torn", "littered", "abandoned"}
    BY <1>1, <2>1, FolderGoneGoes
  <2>5. CASE x \in Reviewers
    <3>1. x # Closer
      BY <2>5, CloserAssumption
    <3> QED BY <1>1, <1>2, <1>3, <2>2, <2>3, <2>4, <2>5, <3>1, ReviewerRemovesFolder
  <2>6. CASE x = Closer
    BY <1>1, <1>2, <1>3, <2>2, <2>3, <2>4, <2>6, RecordFields, CloserRemovesFolder
  <2> QED BY <2>5, <2>6 DEF Everyone
<1>4. CASE folder[r] # "retiring"
  <2>1. CleanupFails(x) /\ KeepFiles
    BY <1>1, <1>4 DEF RemoveFolder, KeepFiles
  <2>2. CASE x \in Reviewers
    <3>1. Tidying => ReviewerLeftInOrder(x)
      BY <1>1, <1>2, <1>4, <2>2, CalmIsInCharge
      DEF AllInCharge, InCharge, ReviewerLeftInOrder, AtWork, Removed, Unmarked, Retired, ClosingOn
    <3> QED BY <1>1, <2>1, <2>2, <3>1, ReviewerFails
  <2>3. CASE x = Closer
    <3>1. OwnerTo(Closer, "idle") /\ \A s \in retired : ~ClosingOn(s)
      BY <1>1, <1>4, <2>1, <2>3 DEF CleanupFails, ClosingOn
    <3> QED BY <1>1, <2>1, <3>1, CloserFails
  <2> QED BY <2>2, <2>3 DEF Everyone
<1> QED BY <1>3, <1>4

\* A clean-up removes the marker.
LEMMA RemoveMarkerKeeps ==
  ASSUME ReviewInv, NEW x \in Everyone, RemoveMarker(x)
  PROVE  ReviewInv'
<1> DEFINE r == owner[x].record
<1>1. /\ owner[x].at = "removeMarker" /\ owner[x].at \in CleanupSteps /\ ReviewTypeOK
      /\ folder' = folder /\ littered' = littered /\ reviewMarker' = reviewMarker /\ stopping' = stopping
  BY DEF RemoveMarker, OwnerAt, ReviewInv, CleanupSteps
<1>2. r \in Reviewers /\ (x \in Reviewers => r = x)
  BY <1>1, CloserCleans DEF ReviewInv, RecordsAreRight, Everyone
<1>3. CASE r \in retired
  <2>1. retired' = retired \ {r} /\ CleanupEnds(x)
    BY <1>3 DEF RemoveMarker
  <2>2. CASE x \in Reviewers
    <3>1. OwnerTo(x, "done")
      BY <2>1, <2>2, CloserAssumption DEF CleanupEnds
    <3>2. /\ Goes(x, "done", r, owner[x].marked, owner[x].tries) /\ Overlaps
          /\ mishaps' \subseteq {"overlapped", "torn", "littered", "abandoned"}
      BY <1>1, <3>1, StepGoes DEF OwnerSteps
    <3> QED BY <1>1, <1>2, <1>3, <2>1, <2>2, <3>2, ReviewerRemovesMarker
  <2>3. CASE x = Closer
    <3>1. OwnerTo(x, "check")
      BY <2>1, <2>3 DEF CleanupEnds
    <3>2. /\ Goes(x, "check", r, owner[x].marked, owner[x].tries) /\ Overlaps
          /\ mishaps' \subseteq {"overlapped", "torn", "littered", "abandoned"}
      BY <1>1, <3>1, StepGoes DEF OwnerSteps
    <3> QED BY <1>1, <1>2, <1>3, <2>1, <2>3, <3>2, RecordFields, CloserRemovesMarker
  <2> QED BY <2>2, <2>3 DEF Everyone
<1>4. CASE r \notin retired
  <2>1. CleanupFails(x) /\ KeepFiles
    BY <1>1, <1>4 DEF RemoveMarker, KeepFiles
  <2>2. CASE x \in Reviewers
    <3>1. Tidying => ReviewerLeftInOrder(x)
      BY <1>1, <1>2, <1>4, <2>2, CalmIsInCharge
      DEF AllInCharge, InCharge, ReviewerLeftInOrder, AtWork, Removed, Unmarked, Retired, ClosingOn
    <3> QED BY <1>1, <2>1, <2>2, <3>1, ReviewerFails
  <2>3. CASE x = Closer
    <3>1. OwnerTo(Closer, "idle") /\ \A s \in retired : ~ClosingOn(s)
      BY <1>1, <1>4, <2>1, <2>3 DEF CleanupFails, ClosingOn
    <3> QED BY <1>1, <2>1, <3>1, CloserFails
  <2> QED BY <2>2, <2>3 DEF Everyone
<1> QED BY <1>3, <1>4

\* The closer takes up what the validation found.
LEMMA RecoverReviewKeeps ==
  ASSUME ReviewInv, RecoverReview
  PROVE  ReviewInv'
<1>1. /\ owner[Closer].at = "recover" /\ Closer \in Everyone /\ ReviewTypeOK /\ KeepFiles /\ stopping' = stopping
      /\ stopping
  BY DEF RecoverReview, OwnerAt, Everyone, ReviewInv, RecordsAreRight
<1>2. \A s \in Reviewers : ~ClosingOn(s)
  BY <1>1 DEF ClosingOn
<1>3. CASE OwnerTo(Closer, "check")
  <2>1. PICK step \in OwnerSteps :
          step = "check" /\ Goes(Closer, step, owner[Closer].record, owner[Closer].marked, owner[Closer].tries)
    BY <1>1, <1>3, StepGoes DEF OwnerSteps
  <2>2. Overlaps /\ mishaps' \subseteq {"overlapped", "torn", "littered", "abandoned"}
    BY <1>1, <1>3, StepGoes DEF OwnerSteps
  <2>3. ClosingIsInOrder'
    BY <2>1 DEF ClosingIsInOrder, Goes
  <2> QED BY <1>1, <1>2, <2>1, <2>2, <2>3, ReviewTyped, RecordFields, CloserKeepsOn DEF CleanupSteps
<1>4. CASE OwnerTo(Closer, "idle")
  BY <1>1, <1>2, <1>4, ReviewTyped, CloserFails
<1>5. ASSUME OneMarker, NEW r \in MarkerOwners,
             OwnerBecomes(Closer, [owner[Closer] EXCEPT !.at = "locate", !.record = r])
      PROVE  ReviewInv'
  <2>1. r \in Reviewers /\ (retired # {} => retired = {r})
    BY <1>1, <1>5, ReviewTyped DEF MarkerOwners, OneMarker, ReviewInv, MarkersAreOwned
  <2>2. owner[r].at \notin {"idle", "make"}
    BY <1>5, <2>1 DEF MarkerOwners, ReviewInv, MarkersAreOwned, Unmarking
  <2>3. Goes(Closer, "locate", r, owner[Closer].marked, owner[Closer].tries)
    BY <1>1, <1>5, <2>1, RecordGoes DEF OwnerSteps, Everyone
  <2>4. Overlaps /\ mishaps' \subseteq {"overlapped", "torn", "littered", "abandoned"}
    BY <1>1, <1>5, <2>1, RecordGoes DEF OwnerSteps, Everyone
  <2>5. ClosingIsInOrder'
    BY <2>3 DEF ClosingIsInOrder, Goes
  <2>6. PICK step \in OwnerSteps : step = "locate" /\ Goes(Closer, step, r, owner[Closer].marked, owner[Closer].tries)
    BY <2>3 DEF OwnerSteps
  <2> QED
    BY <1>1, <1>2, <2>1, <2>2, <2>4, <2>5, <2>6, ReviewTyped, RecordFields, CloserKeepsOn DEF CleanupSteps, Everyone
<1>6. ASSUME OneFolder, NEW r \in Folders,
             OwnerBecomes(Closer, [owner[Closer] EXCEPT !.at = "moveFolder", !.record = r, !.marked = FALSE])
      PROVE  ReviewInv'
  <2>1. r \in Reviewers /\ folder[r] # "none" /\ retired = {}
    BY <1>6 DEF Folders, OneFolder
  <2>2. owner[r].at \notin {"idle", "make"}
    BY <2>1 DEF ReviewInv, MakingHasFolder
  <2>3. Goes(Closer, "moveFolder", r, FALSE, owner[Closer].tries)
    BY <1>1, <1>6, <2>1, UnmarkedGoes DEF OwnerSteps, Everyone
  <2>4. Overlaps /\ mishaps' \subseteq {"overlapped", "torn", "littered", "abandoned"}
    BY <1>1, <1>6, <2>1, UnmarkedGoes DEF OwnerSteps, Everyone
  <2>5. ClosingIsInOrder'
    BY <2>3 DEF ClosingIsInOrder, Goes
  <2>6. PICK step \in OwnerSteps, marked \in BOOLEAN :
          step = "moveFolder" /\ ~marked /\ Goes(Closer, step, r, marked, owner[Closer].tries)
    BY <2>3 DEF OwnerSteps
  <2> QED
    BY <1>1, <1>2, <2>1, <2>2, <2>4, <2>5, <2>6, ReviewTyped, RecordFields, CloserKeepsOn DEF CleanupSteps, Everyone
<1> QED BY <1>3, <1>4, <1>5, <1>6 DEF RecoverReview

\* The closer ends where nothing is left.
LEMMA CheckNothingLeftKeeps ==
  ASSUME ReviewInv, CheckNothingLeft
  PROVE  ReviewInv'
<1>1. /\ owner[Closer].at = "check" /\ Closer \in Everyone /\ ReviewTypeOK /\ KeepFiles /\ stopping' = stopping
      /\ stopping
  BY DEF CheckNothingLeft, OwnerAt, Everyone, ReviewInv, RecordsAreRight
<1>2. \A s \in Reviewers : ~ClosingOn(s)
  BY <1>1 DEF ClosingOn
<1>3. CASE OwnerTo(Closer, "closed")
  <2>1. PICK step \in OwnerSteps :
          step = "closed" /\ Goes(Closer, step, owner[Closer].record, owner[Closer].marked, owner[Closer].tries)
    BY <1>1, <1>3, StepGoes DEF OwnerSteps
  <2>2. Overlaps /\ mishaps' \subseteq {"overlapped", "torn", "littered", "abandoned"}
    BY <1>1, <1>3, StepGoes DEF OwnerSteps
  <2>3. ClosingIsInOrder'
    BY <2>1 DEF ClosingIsInOrder, Goes
  <2> QED BY <1>1, <1>2, <2>1, <2>2, <2>3, ReviewTyped, RecordFields, CloserKeepsOn DEF CleanupSteps
<1>4. CASE OwnerTo(Closer, "idle")
  BY <1>1, <1>2, <1>4, ReviewTyped, CloserFails
<1> QED BY <1>3, <1>4 DEF CheckNothingLeft

-----------------------------------------------------------------------------

\* Every step keeps ReviewInv.
LEMMA ReviewNextKeeps == ReviewInv /\ [ReviewNext]_reviewVars => ReviewInv'
<1> SUFFICES ASSUME ReviewInv, [ReviewNext]_reviewVars PROVE ReviewInv'
  OBVIOUS
<1>1. ASSUME NEW r \in Reviewers,
             \/ CreateReview(r) \/ MakeFolder(r) \/ CreateReviewMarker(r) \/ WriteReviewMarker(r) \/ UnmakeFolder(r)
             \/ ReviewOver(r) \/ Litter(r)
      PROVE  ReviewInv'
  BY <1>1, CreateReviewKeeps, MakeFolderKeeps, CreateReviewMarkerKeeps, WriteReviewMarkerKeeps, UnmakeFolderKeeps,
     ReviewOverKeeps, LitterKeeps
<1>2. ASSUME NEW x \in Everyone, CleanupStep(x) \/ OwnerDies(x) PROVE ReviewInv'
  BY <1>2, LocateKeeps, MoveMarkerKeeps, MoveFolderKeeps, RemoveFolderKeeps, RemoveMarkerKeeps, DeathKeeps
  DEF CleanupStep
<1>3. CASE ValidateReview \/ KillPresentation \/ RecoverReview \/ CheckNothingLeft
  BY <1>3, ValidateReviewKeeps, KillPresentationKeeps, RecoverReviewKeeps, CheckNothingLeftKeeps
<1>4. CASE UNCHANGED reviewVars
  <2>1. /\ folder' = folder /\ littered' = littered /\ reviewMarker' = reviewMarker /\ retired' = retired
        /\ owner' = owner /\ stopping' = stopping /\ mishaps' = mishaps
    BY <1>4 DEF reviewVars
  <2>2. ReviewTypeOK' /\ RecordsAreRight' /\ MarkersAreOwned' /\ ClosesWritten' /\ MovesMarked'
    BY <2>1 DEF ReviewInv, ReviewTypeOK, RecordsAreRight, MarkersAreOwned, ClosesWritten, MovesMarked, Marked
  <2>3. MakingHasFolder' /\ ReviewIsOwned' /\ CleanIsWhole' /\ OneTrace'
    BY <2>1 DEF ReviewInv, MakingHasFolder, ReviewIsOwned, CleanIsWhole, OneTrace, Trace, OwnerAt
  <2>4. ReviewersInCharge'
    BY <2>1 DEF ReviewInv, ReviewersInCharge, Clean, ClosingIsInOrder, InCharge, AtWork, Retired, Unmarked, Removed,
                ClosingOn
  <2> QED BY <2>2, <2>3, <2>4 DEF ReviewInv
<1> QED BY <1>1, <1>2, <1>3, <1>4 DEF ReviewNext

\* Nothing is reviewed at first.
LEMMA ReviewInitInv == ReviewInit => ReviewInv
<1> SUFFICES ASSUME ReviewInit PROVE ReviewInv
  OBVIOUS
<1>1. /\ folder = [r \in Reviewers |-> "none"] /\ littered = {} /\ retired = {} /\ stopping = FALSE /\ mishaps = {}
      /\ reviewMarker \in [reviewer : Everyone, whole : BOOLEAN] /\ reviewMarker.reviewer = Closer /\ ~Marked
      /\ ~reviewMarker.whole
      /\ owner = [x \in Everyone |-> [at |-> "idle", record |-> x, marked |-> FALSE, tries |-> 0]]
  BY DEF ReviewInit, NoMarker, Marked, Everyone
<1>2. \A x \in Everyone : owner[x].at = "idle" /\ owner[x].record = x
  BY <1>1
<1>3. owner \in [Everyone -> OwnerRecord]
  BY <1>1 DEF OwnerRecord, OwnerSteps
<1>4. ReviewTypeOK
  BY <1>1, <1>3, ReviewTyped
<1>5. RecordsAreRight /\ MarkersAreOwned /\ ClosesWritten /\ MovesMarked
  BY <1>1, <1>2, CloserAssumption
  DEF RecordsAreRight, MarkersAreOwned, ClosesWritten, MovesMarked, CleanupSteps, Everyone
<1>6. MakingHasFolder /\ ReviewIsOwned /\ CleanIsWhole /\ OneTrace
  <2>1. MakingHasFolder /\ ReviewIsOwned
    BY <1>1, <1>2 DEF MakingHasFolder, ReviewIsOwned, OwnerAt, Everyone
  <2>2. ASSUME NEW r \in Reviewers PROVE reviewMarker # [reviewer |-> r, whole |-> FALSE]
    <3>1. ASSUME reviewMarker = [reviewer |-> r, whole |-> FALSE] PROVE reviewMarker.reviewer = r
      BY <3>1
    <3> QED BY <1>1, <3>1, CloserAssumption
  <2>3. \A r \in Reviewers : ~Trace(r)
    BY <1>1, <1>2, CloserAssumption DEF Trace, MakingReview, Everyone
  <2> QED BY <1>1, <2>1, <2>2, <2>3 DEF CleanIsWhole, OneTrace
<1>7. ReviewersInCharge
  BY <1>1, <1>2, CloserAssumption DEF ReviewersInCharge, ClosingIsInOrder, InCharge, Everyone
<1> QED BY <1>4, <1>5, <1>6, <1>7 DEF ReviewInv

\* What nobody is working on is what a close accepts.
LEMMA RestIsAccepted == ReviewInv => RestIsRecoverable
<1> SUFFICES ASSUME ReviewInv, \A x \in Everyone : owner[x].at \in {"idle", "done"},
                    mishaps \intersect {"torn", "littered"} = {}, ~({"overlapped", "abandoned"} \subseteq mishaps)
             PROVE  Valid
  BY DEF RestIsRecoverable
<1>1. Clean /\ littered = {} /\ (Marked => reviewMarker.reviewer \in Reviewers)
      /\ ReviewTypeOK /\ owner[Closer].at \in {"idle", "done"}
  BY DEF Clean, ReviewInv, CleanIsWhole, MarkersAreOwned, Everyone
<1>2. Marked => reviewMarker.whole /\ reviewMarker.reviewer \notin retired
  <2>1. SUFFICES ASSUME Marked PROVE reviewMarker.whole /\ reviewMarker.reviewer \notin retired
    OBVIOUS
  <2>2. PICK r \in Reviewers, b \in BOOLEAN : reviewMarker = [reviewer |-> r, whole |-> b]
    BY <1>1, <2>1, ReviewTyped
  <2>3. owner[r].at # "write"
    BY DEF Everyone
  <2>4. b = TRUE
    BY <1>1, <2>2, <2>3 DEF ReviewInv, CleanIsWhole, Clean
  <2> QED BY <2>2, <2>4 DEF ReviewInv, MarkersAreOwned
<1>3. CASE "overlapped" \notin mishaps
  <2>1. \A r, s \in Reviewers : Trace(r) /\ Trace(s) => r = s
    BY <1>3 DEF ReviewInv, OneTrace
  <2>2. \A r \in Reviewers : folder[r] # "none" \/ (Marked /\ reviewMarker.reviewer = r) \/ r \in retired => Trace(r)
    BY DEF Trace
  <2>3. CASE NothingThere
    BY <1>1, <2>3 DEF Valid
  <2>4. CASE ~NothingThere
    <3>1. PICK r \in Reviewers : folder[r] # "none" \/ (Marked /\ reviewMarker.reviewer = r) \/ r \in retired
      BY <1>1, <2>4, ReviewTyped DEF NothingThere, Folders
    <3>2. /\ Folders \subseteq {r} /\ retired \subseteq {r} /\ (Marked => reviewMarker.reviewer = r)
      BY <1>1, <2>1, <2>2, <3>1, ReviewTyped DEF Folders
    <3>3. CASE Marked
      BY <1>1, <1>2, <3>2, <3>3 DEF Valid, OneMarker, MarkerOwners
    <3>4. CASE ~Marked /\ retired # {}
      <4>1. retired = {r}
        BY <3>2, <3>4
      <4> QED BY <1>1, <3>2, <3>4, <4>1 DEF Valid, OneMarker, MarkerOwners
    <3>5. CASE ~Marked /\ retired = {}
      <4>1. Folders = {r}
        BY <3>1, <3>2, <3>5 DEF Folders
      <4> QED BY <1>1, <3>5, <4>1 DEF Valid, OneFolder
    <3> QED BY <3>3, <3>4, <3>5
  <2> QED BY <2>3, <2>4
<1>4. CASE "abandoned" \notin mishaps
  <2>1. \A r \in Reviewers : InCharge(r)
    BY <1>1, <1>4 DEF ReviewInv, ReviewersInCharge
  <2>2. \A r \in Reviewers : ~ClosingOn(r)
    BY <1>1 DEF ClosingOn
  <2>3. \A r \in Reviewers : owner[r].at \in {"idle", "done"}
    BY DEF Everyone
  <2>4. \A r \in Reviewers : /\ folder[r] = "none" /\ reviewMarker.reviewer # r
                             /\ r \in retired => owner[Closer].record = r
    BY <2>1, <2>2, <2>3
    DEF InCharge, Removed, Unmarked, Retired, ReviewInv, MakingHasFolder, MarkersAreOwned, Unmarking
  <2>5. ~Marked /\ Folders = {}
    BY <1>1, <2>4 DEF Folders
  <2>6. CASE retired = {}
    BY <1>1, <2>5, <2>6 DEF Valid, NothingThere
  <2>7. CASE retired # {}
    <3>1. PICK r \in Reviewers : retired = {r}
      BY <1>1, <2>4, <2>7, ReviewTyped
    <3> QED BY <1>1, <2>5, <3>1 DEF Valid, OneMarker, MarkerOwners
  <2> QED BY <2>6, <2>7
<1> QED BY <1>3, <1>4

\* The invariant of the reviews says what the property says.
LEMMA ReviewMeans == ReviewInv => ReviewIsTidy
BY RestIsAccepted DEF ReviewInv, ReviewIsTidy

\* The directories of native reviews, for any number of reviewers, wherever
\* each of them and the closer die: a review that runs keeps its folder and
\* its marker, and what is left once nobody runs is what the close of the
\* presentation accepts and can recover (review.rs).
THEOREM ReviewsAreTidy == ReviewSpec => []ReviewIsTidy
BY ReviewMeans, ReviewInitInv, ReviewNextKeeps, PTL DEF ReviewSpec

\* Every variable of the reviews keeps its type.
THEOREM ReviewKeepsTypes == ReviewSpec => []ReviewTypeOK
<1>1. ReviewInv => ReviewTypeOK
  BY DEF ReviewInv
<1> QED BY <1>1, ReviewInitInv, ReviewNextKeeps, PTL DEF ReviewSpec

-----------------------------------------------------------------------------
(* The profile.                                                            *)

\* A party that changes the file or the row, and the steps under the lease.
Busy == Removing \union Writing
Leased == {"activate", "absence", "release", "verify", "setReady"} \union Writing

\* Nobody died between the two writes, and no removal met another change.
NoAccident == accidents \intersect {"overlapped", "died"} = {}

RowFollows == profile.decl = integration.decl

\* The readiness that leads to each first write.
Led(o) ==
  /\ o.at \in {"consent", "activate", "absence"} => o.readiness \in NeedsSetup
  /\ o.at = "install" => o.readiness = "SetupRequired"
  /\ o.at \in {"readPrevious", "rewrite", "replace"} => o.readiness = "UpdateRequired"

\* What a setup that holds the lease found, whatever removals do.
Found(o) ==
  /\ o.at \in {"absence", "install"} /\ o.readiness = "SetupRequired" =>
       integration = NoIntegration /\ profile.decl = Undeclared
  /\ o.at \in {"absence", "readPrevious", "rewrite", "replace"} /\ o.readiness = "UpdateRequired" =>
       o.row.decl # Undeclared /\ integration \in {NoIntegration, o.row}

\* Where a change of the file and the row stands, if it is alone.
Stands(o) ==
  /\ o.at = "record" => integration = NoIntegration /\ profile.decl = o.exe
  /\ o.at \in {"install", "readPrevious", "rewrite", "readProfile", "unlink"} => RowFollows
  /\ o.at \in {"rewrite", "replace"} => integration = o.row
  /\ o.at = "replace" => profile.decl = o.exe
  /\ o.at \in Removing => Owns(o.row)
  /\ o.at = "deleteRow" => profile.decl = Undeclared

PartiesInOrder ==
  \A p \in Parties :
    /\ party[p].at # "idle" => party[p].exe \in Executables
    /\ party[p].at \in Leased => setupLease = p
    /\ Led(party[p]) /\ Found(party[p])

\* Which parties do not meet, as long as the history says so.
ApartUnlessRecorded ==
  \A p, q \in Parties : p # q =>
    /\ "overlapped" \notin accidents => ~(party[p].at \in Removing /\ party[q].at \in Busy)
    /\ "raced" \notin accidents => ~(party[p].at = "launch" /\ party[q].at \in Busy \union {"readRow"})

RowDeclares == integration # NoIntegration => integration.decl # Undeclared

ChangesAreWhole ==
  NoAccident => /\ \A p \in Parties : Stands(party[p])
                /\ (\A p \in Parties : party[p].at \notin Busy) => RowFollows

TrustIsShown == "overtaken" \notin accidents => profile.trusted \in {Undeclared, profile.decl}

\* Observed by Codex, or about to be.
InUse == live \/ \E p \in Parties : party[p].at = "launch"

UsedIsReady ==
  "raced" \notin accidents /\ InUse =>
    /\ Readiness(integration.decl) = "Ready"
    /\ live => \A p \in Parties : party[p].at \notin Busy \union {"readRow"}

SetupInv ==
  /\ SetupTypeOK /\ PartiesInOrder /\ ApartUnlessRecorded /\ RowDeclares
  /\ ChangesAreWhole /\ TrustIsShown /\ UsedIsReady

PartySteps == {"idle", "consent", "activate", "absence", "release", "review", "finalize", "verify",
               "setReady", "readRow", "launch"} \union Removing \union Writing
PartyStates == [at : PartySteps, exe : Declarations, readiness : NeedsSetup \union {"none"}, row : Integrations,
                settings : BOOLEAN, seen : Declarations]
Accidents == {"overlapped", "raced", "overtaken", "died"}

-----------------------------------------------------------------------------

\* The types with each record set under a name.
LEMMA SetupTypes ==
  ASSUME SetupInv
  PROVE  /\ profile \in [decl : Declarations, trusted : Declarations, settings : BOOLEAN]
         /\ integration \in Integrations /\ setupLease \in Parties \union {Undeclared}
         /\ party \in [Parties -> PartyStates] /\ live \in BOOLEAN /\ started \in 0..Operations
         /\ accidents \subseteq Accidents
BY DEF SetupInv, SetupTypeOK, PartyStates, PartySteps, Accidents

\* Where every party starts.
LEMMA IdleIsTyped == NoIntegration \in Integrations /\ Unoccupied \in PartyStates /\ NoProfile.decl = Undeclared
<1>1. NoIntegration \in Integrations
  BY OperationsAssumption DEF NoIntegration, Integrations, Declarations
<1> QED BY <1>1 DEF Unoccupied, PartyStates, PartySteps, Declarations, NoProfile

\* A party that takes a step is alone, or the history says that it is not.
LEMMA PartiesApart ==
  ASSUME SetupInv, NEW p \in Parties, NEW s \in PartyStates, PartyBecomes(p, s)
  PROVE  /\ party' = [party EXCEPT ![p] = party'[p]] /\ party'[p] = s
         /\ accidents \subseteq accidents' /\ accidents' \subseteq Accidents
         /\ ApartUnlessRecorded'
<1>1. party' = [party EXCEPT ![p] = s] /\ party'[p] = s
  BY SetupTypes DEF PartyBecomes
<1>2. accidents \subseteq accidents' /\ accidents' \subseteq Accidents
  BY SetupTypes DEF PartyBecomes, Accidents
<1>3. "overlapped" \notin accidents' => ~Overlap
  BY DEF PartyBecomes
<1>4. "raced" \notin accidents' => ~Raced
  BY DEF PartyBecomes
<1>5. ApartUnlessRecorded'
  <2> SUFFICES ASSUME NEW q \in Parties, NEW r \in Parties, q # r
               PROVE  /\ "overlapped" \notin accidents' => ~(party'[q].at \in Removing /\ party'[r].at \in Busy)
                      /\ "raced" \notin accidents' => ~(party'[q].at = "launch" /\ party'[r].at \in Busy \union {"readRow"})
    BY DEF ApartUnlessRecorded
  <2> QED BY <1>3, <1>4 DEF Overlap, Raced, Busy
<1> QED BY <1>1, <1>2, <1>5

\* Whoever changes something is the only one, while the history is clean.
LEMMA AloneWhenCalm ==
  ASSUME SetupInv, "overlapped" \notin accidents, NEW p \in Parties, party[p].at \in Busy
  PROVE  \A q \in Parties \ {p} : party[q].at \notin Busy
<1> SUFFICES ASSUME NEW q \in Parties, q # p, party[q].at \in Busy PROVE FALSE
  OBVIOUS
<1>1. party[p].at \notin Removing /\ party[q].at \notin Removing
  BY DEF SetupInv, ApartUnlessRecorded
<1>2. party[p].at \in Writing /\ party[q].at \in Writing
  BY <1>1 DEF Busy
<1> QED BY <1>2 DEF SetupInv, PartiesInOrder, Leased

\* A party that moves without a change of the file and the row.
LEMMA KeptStep ==
  ASSUME SetupInv, NEW p \in Parties,
         party' = [party EXCEPT ![p] = party'[p]], party'[p] \in PartyStates,
         accidents \subseteq accidents', accidents' \subseteq Accidents, ApartUnlessRecorded',
         ProfileKept, live' = live, started' \in 0..Operations,
         setupLease' \in Parties \union {Undeclared},
         setupLease' = setupLease \/ setupLease \in {p, Undeclared},
         party'[p].at # "idle" => party'[p].exe \in Executables,
         party'[p].at \in Leased => setupLease' = p,
         Led(party'[p]), Found(party'[p]),
         NoAccident' => Stands(party'[p]),
         NoAccident' /\ party[p].at \in Busy /\ party'[p].at \notin Busy => RowFollows,
         party'[p].at = "launch" => Readiness(integration.decl) = "Ready",
         party'[p].at \in Busy \union {"readRow"} => ~live \/ party[p].at \in Busy \union {"readRow"}
  PROVE  SetupInv'
<1>1. \A q \in Parties \ {p} : party'[q] = party[q]
  BY SetupTypes
<1>2. SetupTypeOK'
  <2>1. party' \in [Parties -> PartyStates]
    BY SetupTypes
  <2> QED BY <2>1, SetupTypes DEF SetupTypeOK, ProfileKept, PartyStates, PartySteps, Accidents
<1>3. integration' = integration /\ profile' = profile
  BY DEF ProfileKept
<1>4. NoAccident' => NoAccident
  BY DEF NoAccident
<1>5. PartiesInOrder'
  <2>1. \A q \in Parties \ {p} : party[q].at \in Leased => setupLease' = q
    BY UndeclaredAssumption DEF SetupInv, PartiesInOrder
  <2> QED BY <1>1, <1>3, <2>1 DEF SetupInv, PartiesInOrder, Found
<1>6. RowDeclares' /\ TrustIsShown'
  BY <1>3 DEF RowDeclares, TrustIsShown, SetupInv
<1>7. ChangesAreWhole'
  <2>1. NoAccident' => \A q \in Parties : Stands(party[q])'
    BY <1>1, <1>3, <1>4 DEF SetupInv, ChangesAreWhole, Stands, RowFollows, Owns
  <2>2. NoAccident' /\ (\A q \in Parties : party'[q].at \notin Busy) => RowFollows
    BY <1>1, <1>4 DEF SetupInv, ChangesAreWhole
  <2> QED BY <1>3, <2>1, <2>2 DEF ChangesAreWhole, RowFollows
<1>8. UsedIsReady'
  <2>1. "raced" \notin accidents' /\ InUse' => Readiness(integration.decl) = "Ready"
    BY <1>1 DEF SetupInv, UsedIsReady, InUse
  <2>2. "raced" \notin accidents' /\ live => \A q \in Parties : party'[q].at \notin Busy \union {"readRow"}
    BY <1>1 DEF SetupInv, UsedIsReady, InUse
  <2>3. Readiness(integration.decl)' = Readiness(integration.decl)
    BY <1>3 DEF Readiness, Carries, TrustComplete
  <2> QED BY <2>1, <2>2, <2>3 DEF UsedIsReady
<1> QED BY <1>2, <1>5, <1>6, <1>7, <1>8 DEF SetupInv

\* A party that changes the file or the row.
LEMMA ChangedStep ==
  ASSUME SetupInv, NEW p \in Parties, party[p].at \in Busy,
         party' = [party EXCEPT ![p] = party'[p]], party'[p] \in PartyStates,
         accidents \subseteq accidents', accidents' \subseteq Accidents, ApartUnlessRecorded',
         profile' \in [decl : Declarations, trusted : Declarations, settings : BOOLEAN],
         integration' \in Integrations, live' = live, started' = started,
         setupLease' \in Parties \union {Undeclared},
         setupLease' = setupLease \/ setupLease \in {p, Undeclared},
         party'[p].at # "idle" => party'[p].exe \in Executables,
         party'[p].at \in Leased => setupLease' = p,
         party'[p].at # "launch",
         \/ party[p].at \in Writing
         \/ profile'.decl \in {profile.decl, Undeclared} /\ integration' \in {integration, NoIntegration},
         Led(party'[p]), Found(party[p])', RowDeclares', TrustIsShown',
         NoAccident' => Stands(party[p])',
         NoAccident' /\ party'[p].at \notin Busy => RowFollows'
  PROVE  SetupInv'
<1>1. \A q \in Parties \ {p} : party'[q] = party[q]
  BY SetupTypes
<1>2. SetupTypeOK'
  <2>1. party' \in [Parties -> PartyStates]
    BY SetupTypes
  <2> QED BY <2>1, SetupTypes DEF SetupTypeOK, PartyStates, PartySteps, Accidents
<1>3. NoAccident' => NoAccident
  BY DEF NoAccident
<1>4. PartiesInOrder'
  <2>1. \A q \in Parties \ {p} : party[q].at \in Leased => setupLease' = q /\ party[p].at \notin Writing
    BY UndeclaredAssumption DEF SetupInv, PartiesInOrder, Leased
  <2>2. \A q \in Parties \ {p} : Found(party[q])'
    <3> SUFFICES ASSUME NEW q \in Parties \ {p} PROVE Found(party[q])'
      OBVIOUS
    <3>1. Found(party[q]) /\ party'[q] = party[q]
      BY <1>1 DEF SetupInv, PartiesInOrder
    <3>2. party[q].at \in {"absence", "install", "readPrevious", "rewrite", "replace"} =>
            profile'.decl \in {profile.decl, Undeclared} /\ integration' \in {integration, NoIntegration}
      BY <2>1 DEF Leased, Writing
    <3> QED BY <3>1, <3>2 DEF Found
  <2> QED BY <1>1, <2>1, <2>2 DEF SetupInv, PartiesInOrder, Found
<1>5. ChangesAreWhole'
  <2>1. NoAccident => \A q \in Parties \ {p} : party[q].at \notin Busy
    BY AloneWhenCalm DEF NoAccident
  <2>2. NoAccident' => \A q \in Parties \ {p} : Stands(party[q])'
    BY <1>1, <1>3, <2>1 DEF Stands, Busy, Removing, Writing
  <2> QED BY <1>3, <2>2 DEF ChangesAreWhole
<1>6. UsedIsReady'
  <2>1. "raced" \notin accidents => ~live
    BY DEF SetupInv, UsedIsReady, InUse
  <2>2. "raced" \notin accidents => \A q \in Parties : party[q].at # "launch"
    BY DEF SetupInv, ApartUnlessRecorded, Busy, Removing, Writing
  <2>3. "raced" \notin accidents' => ~InUse'
    BY <1>1, <2>1, <2>2 DEF InUse
  <2> QED BY <2>3 DEF UsedIsReady
<1> QED BY <1>2, <1>4, <1>5, <1>6 DEF SetupInv

\* A party that ends with the file and the row as they are.
LEMMA LeavingStep ==
  ASSUME SetupInv, NEW p \in Parties, PartyLeaves(p), ProfileKept, live' = live, started' \in 0..Operations,
         NoAccident /\ party[p].at \in Busy => RowFollows
  PROVE  SetupInv'
<1>1. /\ party' = [party EXCEPT ![p] = party'[p]] /\ party'[p] = Unoccupied
      /\ accidents \subseteq accidents' /\ accidents' \subseteq Accidents /\ ApartUnlessRecorded'
  BY PartiesApart, IdleIsTyped DEF PartyLeaves
<1>2. /\ setupLease' \in Parties \union {Undeclared}
      /\ setupLease' = setupLease \/ setupLease \in {p, Undeclared}
  BY SetupTypes DEF PartyLeaves
<1>3. party'[p].at = "idle" /\ party'[p] \in PartyStates
  BY <1>1, IdleIsTyped DEF Unoccupied
<1>4. Led(party'[p]) /\ Found(party'[p]) /\ Stands(party'[p])
  BY <1>3 DEF Led, Found, Stands, Removing
<1>5. party'[p].at \notin Leased \union Busy \union {"launch", "readRow"}
  BY <1>3 DEF Leased, Busy, Removing, Writing
<1>6. NoAccident' => NoAccident
  BY <1>1 DEF NoAccident
<1> QED BY <1>1, <1>2, <1>3, <1>4, <1>5, <1>6, KeptStep

\* What an executable finds when it may set up, or launch.
LEMMA ReadinessMeans ==
  ASSUME SetupInv, NEW e \in Executables
  PROVE  /\ Readiness(e) = "SetupRequired" => integration = NoIntegration /\ profile = NoProfile
         /\ Readiness(e) = "UpdateRequired" => integration # NoIntegration /\ Carries(integration)
         /\ Readiness(e) \in {"TrustReviewRequired", "TrustFinalizationRequired", "Ready"} =>
              integration # NoIntegration /\ profile # NoProfile /\ Carries(integration) /\ integration.decl = e
         /\ Readiness(e) = "Ready" <=>
              /\ integration # NoIntegration /\ profile # NoProfile /\ Carries(integration)
              /\ integration.decl = e /\ TrustComplete /\ integration.life = "ready"
BY DEF Readiness

-----------------------------------------------------------------------------
(* The steps that leave the file and the row alone.                        *)

\* A party that goes to its next step keeps what it holds.
LEMMA NextStep ==
  ASSUME SetupInv, NEW p \in Parties, NEW step \in PartySteps, PartyTo(p, step)
  PROVE  /\ party' = [party EXCEPT ![p] = party'[p]] /\ party'[p] \in PartyStates
         /\ accidents \subseteq accidents' /\ accidents' \subseteq Accidents /\ ApartUnlessRecorded'
         /\ party'[p].at = step /\ party'[p].exe = party[p].exe /\ party'[p].readiness = party[p].readiness
         /\ party'[p].row = party[p].row /\ party'[p].settings = party[p].settings
<1>1. PICK s : s = [party[p] EXCEPT !.at = step]
  OBVIOUS
<1>2. s \in PartyStates
  BY <1>1, SetupTypes DEF PartyStates
<1>3. party[p] \in PartyStates
  BY SetupTypes
<1>4. /\ s.at = step /\ s.exe = party[p].exe /\ s.readiness = party[p].readiness /\ s.row = party[p].row
      /\ s.settings = party[p].settings
  BY <1>1, <1>3 DEF PartyStates
<1>5. PartyBecomes(p, s)
  BY <1>1 DEF PartyTo
<1> HIDE <1>1
<1> QED BY <1>2, <1>4, <1>5, PartiesApart

\* The Navigator asks for consent to what it read.
LEMMA RequestInv ==
  ASSUME SetupInv, NEW p \in Parties, NEW e \in Executables, RequestSetup(p, e)
  PROVE  SetupInv'
<1>1. PICK s \in PartyStates :
        /\ PartyBecomes(p, s) /\ s.at = "consent" /\ s.exe = e /\ s.readiness \in NeedsSetup
  <2>1. [Unoccupied EXCEPT !.at = "consent", !.exe = e, !.readiness = Readiness(e), !.row = integration] \in PartyStates
    BY SetupTypes, IdleIsTyped DEF RequestSetup, PartyStates, PartySteps, Unoccupied, Declarations
  <2>2. PICK s : s = [Unoccupied EXCEPT !.at = "consent", !.exe = e, !.readiness = Readiness(e), !.row = integration]
    OBVIOUS
  <2>3. s.at = "consent" /\ s.exe = e /\ s.readiness = Readiness(e)
    BY <2>2 DEF Unoccupied
  <2> QED BY <2>1, <2>2, <2>3 DEF RequestSetup
<1>2. /\ party' = [party EXCEPT ![p] = party'[p]] /\ party'[p] = s
      /\ accidents \subseteq accidents' /\ accidents' \subseteq Accidents /\ ApartUnlessRecorded'
  BY <1>1, PartiesApart
<1>3. s.at \notin Leased \union Busy \union {"idle", "launch", "readRow"} /\ party[p].at \notin Busy
  BY <1>1 DEF Leased, Busy, Removing, Writing, RequestSetup, Starts, PartyAt
<1>4. Led(s) /\ Found(s) /\ Stands(s)
  BY <1>1 DEF Led, Found, Stands, Removing
<1>5. setupLease' = setupLease /\ ProfileKept /\ live' = live /\ started' \in 0..Operations
  BY SetupTypes, OperationsAssumption DEF RequestSetup, Starts
<1> QED BY <1>1, <1>2, <1>3, <1>4, <1>5, SetupTypes, KeptStep

\* A setup from the shell.
LEMMA SetupFromShellInv ==
  ASSUME SetupInv, NEW p \in Parties, NEW e \in Executables, SetupFromShell(p, e)
  PROVE  SetupInv'
<1>1. PICK s \in PartyStates :
        /\ PartyBecomes(p, s) /\ s.at = "activate" /\ s.exe = e /\ s.readiness \in NeedsSetup
  <2>1. [Unoccupied EXCEPT !.at = "activate", !.exe = e, !.readiness = Readiness(e), !.row = integration] \in PartyStates
    BY SetupTypes, IdleIsTyped DEF SetupFromShell, PartyStates, PartySteps, Unoccupied, Declarations
  <2>2. PICK s : s = [Unoccupied EXCEPT !.at = "activate", !.exe = e, !.readiness = Readiness(e), !.row = integration]
    OBVIOUS
  <2>3. s.at = "activate" /\ s.exe = e /\ s.readiness = Readiness(e)
    BY <2>2 DEF Unoccupied
  <2> QED BY <2>1, <2>2, <2>3 DEF SetupFromShell
<1>2. /\ party' = [party EXCEPT ![p] = party'[p]] /\ party'[p] = s
      /\ accidents \subseteq accidents' /\ accidents' \subseteq Accidents /\ ApartUnlessRecorded'
  BY <1>1, PartiesApart
<1>3. s.at \notin Busy \union {"idle", "launch", "readRow"} /\ party[p].at \notin Busy
  BY <1>1 DEF Busy, Removing, Writing, SetupFromShell, Starts, PartyAt
<1>4. Led(s) /\ Found(s) /\ Stands(s)
  BY <1>1 DEF Led, Found, Stands, Removing
<1>5. /\ setupLease = Undeclared /\ setupLease' = p
      /\ ProfileKept /\ live' = live /\ started' \in 0..Operations
  BY SetupTypes, OperationsAssumption DEF SetupFromShell, Starts
<1> QED BY <1>1, <1>2, <1>3, <1>4, <1>5, KeptStep

\* A removal; that it meets another change is recorded.
LEMMA RemoveObserverInv ==
  ASSUME SetupInv, NEW p \in Parties, NEW e \in Executables, RemoveObserver(p, e)
  PROVE  SetupInv'
<1>1. PICK s \in PartyStates : PartyBecomes(p, s) /\ s.at = "readRow" /\ s.exe = e
  <2>1. [Unoccupied EXCEPT !.at = "readRow", !.exe = e] \in PartyStates
    BY IdleIsTyped DEF PartyStates, PartySteps, Unoccupied, Declarations
  <2>2. PICK s : s = [Unoccupied EXCEPT !.at = "readRow", !.exe = e]
    OBVIOUS
  <2>3. s.at = "readRow" /\ s.exe = e
    BY <2>2 DEF Unoccupied
  <2> QED BY <2>1, <2>2, <2>3 DEF RemoveObserver
<1>2. /\ party' = [party EXCEPT ![p] = party'[p]] /\ party'[p] = s
      /\ accidents \subseteq accidents' /\ accidents' \subseteq Accidents /\ ApartUnlessRecorded'
  BY <1>1, PartiesApart
<1>3. s.at \notin Leased \union Busy \union {"idle", "launch"} /\ party[p].at \notin Busy
  BY <1>1 DEF Leased, Busy, Removing, Writing, RemoveObserver, Starts, PartyAt
<1>4. Led(s) /\ Found(s) /\ Stands(s)
  BY <1>1 DEF Led, Found, Stands, Removing
<1>5. ~live /\ setupLease' = setupLease /\ ProfileKept /\ live' = live /\ started' \in 0..Operations
  BY SetupTypes, OperationsAssumption DEF RemoveObserver, Starts
<1> QED BY <1>1, <1>2, <1>3, <1>4, <1>5, SetupTypes, KeptStep

\* The readiness decides what the party does next.
LEMMA CheckReadinessInv ==
  ASSUME SetupInv, NEW p \in Parties, NEW e \in Executables, CheckReadiness(p, e)
  PROVE  SetupInv'
<1>1. PICK s \in PartyStates : PartyBecomes(p, s) /\ s.at = "launch" /\ s.exe = e
  <2>1. [Unoccupied EXCEPT !.at = "launch", !.exe = e] \in PartyStates
    BY IdleIsTyped DEF PartyStates, PartySteps, Unoccupied, Declarations
  <2>2. PICK s : s = [Unoccupied EXCEPT !.at = "launch", !.exe = e]
    OBVIOUS
  <2>3. s.at = "launch" /\ s.exe = e
    BY <2>2 DEF Unoccupied
  <2> QED BY <2>1, <2>2, <2>3 DEF CheckReadiness
<1>2. /\ party' = [party EXCEPT ![p] = party'[p]] /\ party'[p] = s
      /\ accidents \subseteq accidents' /\ accidents' \subseteq Accidents /\ ApartUnlessRecorded'
  BY <1>1, PartiesApart
<1>3. s.at \notin Leased \union Busy \union {"idle", "readRow"} /\ party[p].at \notin Busy
  BY <1>1 DEF Leased, Busy, Removing, Writing, CheckReadiness, Starts, PartyAt
<1>4. Led(s) /\ Found(s) /\ Stands(s)
  BY <1>1 DEF Led, Found, Stands, Removing
<1>5. Readiness(integration.decl) = "Ready"
  BY ReadinessMeans DEF CheckReadiness
<1>6. setupLease' = setupLease /\ ProfileKept /\ live' = live /\ started' \in 0..Operations
  BY SetupTypes, OperationsAssumption DEF CheckReadiness, Starts
<1> QED BY <1>1, <1>2, <1>3, <1>4, <1>5, <1>6, SetupTypes, KeptStep

\* A step of a setup that writes nothing: the operation ends, or goes on.
LEMMA AcceptInv ==
  ASSUME SetupInv, NEW p \in Parties, AcceptSetup(p) \/ CancelSetup(p)
  PROVE  SetupInv'
<1>1. party[p].at = "consent" /\ ProfileKept /\ live' = live /\ started' = started /\ started' \in 0..Operations
  BY SetupTypes DEF AcceptSetup, CancelSetup, Bystanders, PartyAt
<1>2. party[p].at \notin Busy /\ party[p].readiness \in NeedsSetup /\ party[p].exe \in Executables
  BY <1>1 DEF Busy, Removing, Writing, SetupInv, PartiesInOrder, Led
<1>3. CASE PartyLeaves(p)
  BY <1>1, <1>2, <1>3, LeavingStep
<1>4. CASE PartyTo(p, "activate") /\ setupLease = Undeclared /\ setupLease' = p
  <2>1. /\ party' = [party EXCEPT ![p] = party'[p]] /\ party'[p] \in PartyStates
        /\ accidents \subseteq accidents' /\ accidents' \subseteq Accidents /\ ApartUnlessRecorded'
        /\ party'[p].at = "activate" /\ party'[p].exe = party[p].exe /\ party'[p].readiness = party[p].readiness
    BY <1>4, NextStep DEF PartySteps
  <2>2. party'[p].at \notin Busy \union {"idle", "launch", "readRow"}
    BY <2>1 DEF Busy, Removing, Writing
  <2>3. Led(party'[p]) /\ Found(party'[p]) /\ Stands(party'[p])
    BY <1>2, <2>1 DEF Led, Found, Stands, Removing
  <2> QED BY <1>1, <1>2, <1>4, <2>1, <2>2, <2>3, KeptStep
<1> QED BY <1>3, <1>4 DEF AcceptSetup, CancelSetup

\* The lease is taken, or kept, at every check of a setup; what the check
\* found stays so while the lease is held, but for removals.
LEMMA ActivateInv ==
  ASSUME SetupInv, NEW p \in Parties, Activate(p)
  PROVE  SetupInv'
<1>1. /\ party[p].at = "activate" /\ ProfileKept /\ live' = live /\ started' \in 0..Operations
      /\ setupLease = p
  BY SetupTypes DEF Activate, Bystanders, PartyAt, SetupInv, PartiesInOrder, Leased
<1>2. party[p].at \notin Busy /\ party[p].readiness \in NeedsSetup /\ party[p].exe \in Executables
  BY <1>1 DEF Busy, Removing, Writing, SetupInv, PartiesInOrder, Led
<1>3. CASE PartyLeaves(p)
  BY <1>1, <1>2, <1>3, LeavingStep
<1>4. CASE /\ PartyTo(p, "absence") /\ setupLease' = setupLease
           /\ integration = party[p].row /\ Readiness(party[p].exe) = party[p].readiness
  <2>1. /\ party' = [party EXCEPT ![p] = party'[p]] /\ party'[p] \in PartyStates
        /\ accidents \subseteq accidents' /\ accidents' \subseteq Accidents /\ ApartUnlessRecorded'
        /\ party'[p].at = "absence" /\ party'[p].exe = party[p].exe /\ party'[p].readiness = party[p].readiness
        /\ party'[p].row = party[p].row
    BY <1>4, NextStep DEF PartySteps
  <2>2. party'[p].at \notin Busy \union {"idle", "launch", "readRow"}
    BY <2>1 DEF Busy, Removing, Writing
  <2>3. party[p].readiness = "SetupRequired" => integration = NoIntegration /\ profile.decl = Undeclared
    BY <1>2, <1>4, ReadinessMeans, IdleIsTyped
  <2>4. party[p].readiness = "UpdateRequired" => integration.decl # Undeclared
    BY <1>2, <1>4, ReadinessMeans DEF SetupInv, RowDeclares
  <2>5. Led(party'[p]) /\ Found(party'[p]) /\ Stands(party'[p])
    BY <1>2, <1>4, <2>1, <2>3, <2>4 DEF Led, Found, Stands, Removing
  <2> QED BY <1>1, <1>2, <1>4, <2>1, <2>2, <2>5, SetupTypes, KeptStep
<1> QED BY <1>3, <1>4 DEF Activate

\* A setup or a removal that begins to change things finds the file and the
\* row in accord: a writer holds the lease, and a remover would overlap.
LEMMA AloneFollows ==
  ASSUME SetupInv, NEW p \in Parties, party[p].at \notin Busy,
         \A q \in Parties \ {p} : party'[q] = party[q],
         party'[p].at \in Busy, NoAccident', accidents \subseteq accidents', ApartUnlessRecorded',
         party'[p].at \in Removing \/ party[p].at \in Leased
  PROVE  RowFollows
<1>1. \A q \in Parties \ {p} : party[q].at \notin Busy
  <2> SUFFICES ASSUME NEW q \in Parties \ {p}, party[q].at \in Busy PROVE FALSE
    OBVIOUS
  <2>1. party[q].at \notin Removing
    BY DEF ApartUnlessRecorded, NoAccident
  <2>2. party'[p].at \notin Removing
    BY DEF ApartUnlessRecorded, NoAccident
  <2> QED BY <2>1, <2>2 DEF Busy, SetupInv, PartiesInOrder, Leased
<1>2. NoAccident
  BY DEF NoAccident
<1> QED BY <1>1, <1>2 DEF SetupInv, ChangesAreWhole

\* No Codex runs when the first write comes.
LEMMA ProveAbsenceInv ==
  ASSUME SetupInv, NEW p \in Parties, ProveAbsence(p)
  PROVE  SetupInv'
<1>1. /\ party[p].at = "absence" /\ ProfileKept /\ live' = live /\ started' \in 0..Operations
      /\ setupLease = p
  BY SetupTypes DEF ProveAbsence, Bystanders, PartyAt, SetupInv, PartiesInOrder, Leased
<1>2. /\ party[p].at \notin Busy /\ party[p].readiness \in NeedsSetup /\ party[p].exe \in Executables
      /\ Found(party[p])
  BY <1>1 DEF Busy, Removing, Writing, SetupInv, PartiesInOrder, Led
<1>3. CASE live
  BY <1>1, <1>2, <1>3, LeavingStep DEF ProveAbsence
<1>4. CASE ~live
  <2>1. PICK step \in {"install", "readPrevious", "release", "verify"} :
          /\ PartyTo(p, step)
          /\ step = "install" => party[p].readiness = "SetupRequired"
          /\ step = "readPrevious" => party[p].readiness = "UpdateRequired"
    BY <1>2, <1>4 DEF ProveAbsence, NextWrite, NeedsSetup
  <2>2. /\ party' = [party EXCEPT ![p] = party'[p]] /\ party'[p] \in PartyStates
        /\ accidents \subseteq accidents' /\ accidents' \subseteq Accidents /\ ApartUnlessRecorded'
        /\ party'[p].at = step /\ party'[p].exe = party[p].exe /\ party'[p].readiness = party[p].readiness
        /\ party'[p].row = party[p].row
    BY <2>1, NextStep DEF PartySteps, Writing
  <2>3. party'[p].at \notin {"idle", "launch", "readRow"}
    BY <2>2
  <2>4. Led(party'[p]) /\ Found(party'[p])
    BY <1>1, <1>2, <2>1, <2>2 DEF Led, Found
  <2>5. NoAccident' /\ party'[p].at \in Busy => RowFollows
    BY <1>1, <1>2, <2>2, SetupTypes, AloneFollows DEF Leased
  <2>6. NoAccident' => Stands(party'[p])
    BY <2>2, <2>5 DEF Stands, Busy, Removing, Writing
  <2>7. party'[p].at \in Leased
    BY <2>1, <2>2 DEF Leased, Writing
  <2> QED BY <1>1, <1>2, <1>4, <2>2, <2>3, <2>4, <2>6, SetupTypes, KeptStep DEF ProveAbsence, NextWrite
<1> QED BY <1>3, <1>4

\* An update reads the declaration of its row.
LEMMA ReadDeclarationInv ==
  ASSUME SetupInv, NEW p \in Parties, ReadDeclaration(p)
  PROVE  SetupInv'
<1>1. /\ party[p].at = "readPrevious" /\ ProfileKept /\ live' = live /\ started' \in 0..Operations
      /\ started' = started /\ setupLease = p
  BY SetupTypes DEF ReadDeclaration, Bystanders, PartyAt, SetupInv, PartiesInOrder, Leased, Writing
<1>2. /\ party[p].at \in Busy /\ party[p].readiness = "UpdateRequired" /\ party[p].exe \in Executables
      /\ Found(party[p])
  BY <1>1 DEF Busy, Writing, SetupInv, PartiesInOrder, Led
<1>3. NoAccident => RowFollows
  BY <1>1 DEF SetupInv, ChangesAreWhole, Stands
<1>4. CASE PartyLeaves(p)
  BY <1>1, <1>3, <1>4, LeavingStep
<1>5. CASE Carries(party[p].row) /\ ~PartyLeaves(p)
  <2>1. PICK s \in PartyStates : /\ PartyBecomes(p, s) /\ s.at = "rewrite" /\ s.exe = party[p].exe
                                 /\ s.readiness = party[p].readiness /\ s.row = party[p].row
    <3>1. PICK s : s = [party[p] EXCEPT !.at = "rewrite", !.settings = profile.settings]
      OBVIOUS
    <3>2. party[p] \in PartyStates /\ profile.settings \in BOOLEAN
      BY SetupTypes
    <3>3. s.at = "rewrite" /\ s.exe = party[p].exe /\ s.readiness = party[p].readiness /\ s.row = party[p].row
      BY <3>1, <3>2 DEF PartyStates
    <3>4. s \in PartyStates
      BY <3>1, <3>2 DEF PartyStates, PartySteps, Writing
    <3>5. PartyBecomes(p, s)
      BY <1>5, <3>1 DEF ReadDeclaration
    <3> QED BY <3>3, <3>4, <3>5
  <2>2. /\ party' = [party EXCEPT ![p] = party'[p]] /\ party'[p] = s
        /\ accidents \subseteq accidents' /\ accidents' \subseteq Accidents /\ ApartUnlessRecorded'
    BY <2>1, PartiesApart
  <2>3. setupLease' = setupLease
    BY <1>5 DEF ReadDeclaration
  <2>4. Led(s) /\ Found(s)
    BY <1>1, <1>2, <2>1 DEF Led, Found
  <2>5. NoAccident' => Stands(s)
    <3>1. NoAccident' => RowFollows
      BY <1>3, <2>2 DEF NoAccident
    <3>2. RowFollows => integration = party[p].row
      BY <1>1, <1>2, <1>5 DEF RowFollows, Found, Carries, NoIntegration
    <3> QED BY <2>1, <3>1, <3>2 DEF Stands, Removing
  <2>6. s.at \in Busy /\ s.at # "idle" /\ s.at # "launch"
    BY <2>1 DEF Busy, Writing
  <2> QED BY <1>1, <1>2, <2>1, <2>2, <2>3, <2>4, <2>5, <2>6, SetupTypes, KeptStep
<1> QED BY <1>4, <1>5 DEF ReadDeclaration

\* A review starts without the lease, or ends.
LEMMA ReviewKeeps ==
  ASSUME SetupInv, NEW p \in Parties, StartReview(p) \/ TrustReviewEnds(p)
  PROVE  SetupInv'
<1>1. /\ party[p].at \in {"release", "review"} /\ ProfileKept /\ live' = live /\ started' \in 0..Operations
      /\ started' = started
  BY SetupTypes DEF StartReview, TrustReviewEnds, Bystanders, PartyAt
<1>2. party[p].at \notin Busy /\ party[p].exe \in Executables
  BY <1>1 DEF Busy, Removing, Writing, SetupInv, PartiesInOrder
<1>3. CASE PartyLeaves(p)
  BY <1>1, <1>2, <1>3, LeavingStep
<1>4. CASE ~PartyLeaves(p)
  <2>1. PICK s \in PartyStates : PartyBecomes(p, s) /\ s.at \in {"review", "finalize"} /\ s.exe = party[p].exe
    <3>1. CASE StartReview(p)
      <4>1. PICK s : s = [party[p] EXCEPT !.at = "review", !.seen = profile.decl]
        OBVIOUS
      <4>2. party[p] \in PartyStates /\ profile.decl \in Declarations
        BY SetupTypes
      <4>3. s.at = "review" /\ s.exe = party[p].exe
        BY <4>1, <4>2 DEF PartyStates
      <4>4. s \in PartyStates
        BY <4>1, <4>2 DEF PartyStates, PartySteps
      <4>5. PartyBecomes(p, s)
        BY <1>4, <3>1, <4>1 DEF StartReview
      <4> QED BY <4>3, <4>4, <4>5
    <3>2. CASE TrustReviewEnds(p)
      <4>1. PICK s : s = [party[p] EXCEPT !.at = "finalize"]
        OBVIOUS
      <4>2. party[p] \in PartyStates
        BY SetupTypes
      <4>3. s.at = "finalize" /\ s.exe = party[p].exe /\ s \in PartyStates
        BY <4>1, <4>2 DEF PartyStates, PartySteps
      <4>5. PartyBecomes(p, s)
        BY <3>2, <4>1 DEF TrustReviewEnds, PartyTo
      <4> QED BY <4>3, <4>5
    <3> QED BY <3>1, <3>2
  <2>2. /\ party' = [party EXCEPT ![p] = party'[p]] /\ party'[p] = s
        /\ accidents \subseteq accidents' /\ accidents' \subseteq Accidents /\ ApartUnlessRecorded'
    BY <2>1, PartiesApart
  <2>3. setupLease' = setupLease \/ (setupLease = p /\ setupLease' = Undeclared)
    BY <1>4 DEF StartReview, TrustReviewEnds, PartyAt, SetupInv, PartiesInOrder, Leased
  <2>4. Led(s) /\ Found(s) /\ Stands(s)
    BY <2>1 DEF Led, Found, Stands, Removing
  <2>5. s.at \notin Leased \union Busy \union {"idle", "launch", "readRow"}
    BY <2>1 DEF Leased, Busy, Removing, Writing
  <2> QED BY <1>1, <1>2, <2>1, <2>2, <2>3, <2>4, <2>5, SetupTypes, KeptStep
<1> QED BY <1>3, <1>4

\* The lease is taken again, and the trust of the recorded declaration is verified.
LEMMA TrustInv ==
  ASSUME SetupInv, NEW p \in Parties, FinalizeTrust(p) \/ VerifyTrust(p)
  PROVE  SetupInv'
<1>1. /\ party[p].at \in {"finalize", "verify"} /\ ProfileKept /\ live' = live /\ started' \in 0..Operations
      /\ started' = started
  BY SetupTypes DEF FinalizeTrust, VerifyTrust, Bystanders, PartyAt
<1>2. party[p].at \notin Busy /\ party[p].exe \in Executables
  BY <1>1 DEF Busy, Removing, Writing, SetupInv, PartiesInOrder
<1>3. CASE PartyLeaves(p)
  BY <1>1, <1>2, <1>3, LeavingStep
<1>4. CASE ~PartyLeaves(p)
  <2>1. PICK step \in {"verify", "setReady"} : PartyTo(p, step)
    BY <1>4 DEF FinalizeTrust, VerifyTrust
  <2>2. /\ party' = [party EXCEPT ![p] = party'[p]] /\ party'[p] \in PartyStates
        /\ accidents \subseteq accidents' /\ accidents' \subseteq Accidents /\ ApartUnlessRecorded'
        /\ party'[p].at = step /\ party'[p].exe = party[p].exe
    BY <2>1, NextStep DEF PartySteps
  <2>3. setupLease' = p /\ setupLease \in {p, Undeclared}
    BY <1>4 DEF FinalizeTrust, VerifyTrust, PartyAt, SetupInv, PartiesInOrder, Leased
  <2>4. Led(party'[p]) /\ Found(party'[p]) /\ Stands(party'[p])
    BY <2>2 DEF Led, Found, Stands, Removing
  <2>5. party'[p].at \notin Busy \union {"idle", "launch", "readRow"}
    BY <2>2 DEF Busy, Removing, Writing
  <2> QED BY <1>1, <1>2, <2>2, <2>3, <2>4, <2>5, KeptStep
<1> QED BY <1>3, <1>4

\* A removal reads the row of its executable.
LEMMA ReadOwnerInv ==
  ASSUME SetupInv, NEW p \in Parties, ReadOwner(p)
  PROVE  SetupInv'
<1>1. /\ party[p].at = "readRow" /\ ProfileKept /\ live' = live /\ started' \in 0..Operations
      /\ started' = started /\ party[p].at \notin Busy /\ party[p].exe \in Executables
  BY SetupTypes DEF ReadOwner, Bystanders, PartyAt, Busy, Removing, Writing, SetupInv, PartiesInOrder
<1>2. CASE PartyLeaves(p)
  BY <1>1, <1>2, LeavingStep
<1>3. CASE ~PartyLeaves(p)
  <2>1. PICK s \in PartyStates : /\ PartyBecomes(p, s) /\ s.at = "readProfile" /\ s.exe = party[p].exe
                                 /\ s.row = integration
    <3>1. PICK s : s = [party[p] EXCEPT !.at = "readProfile", !.row = integration]
      OBVIOUS
    <3>2. party[p] \in PartyStates /\ integration \in Integrations
      BY SetupTypes
    <3>3. s.at = "readProfile" /\ s.exe = party[p].exe /\ s.row = integration
      BY <3>1, <3>2 DEF PartyStates
    <3>4. s \in PartyStates
      BY <3>1, <3>2 DEF PartyStates, PartySteps, Removing
    <3>5. PartyBecomes(p, s)
      BY <1>3, <3>1 DEF ReadOwner
    <3> QED BY <3>3, <3>4, <3>5
  <2>2. /\ party' = [party EXCEPT ![p] = party'[p]] /\ party'[p] = s
        /\ accidents \subseteq accidents' /\ accidents' \subseteq Accidents /\ ApartUnlessRecorded'
    BY <2>1, PartiesApart
  <2>3. setupLease' = setupLease /\ integration # NoIntegration
    BY <1>1, <1>3, UndeclaredAssumption DEF ReadOwner, NoIntegration
  <2>4. Led(s) /\ Found(s) /\ s.at \in Removing /\ s.at \in Busy /\ s.at \notin Leased
    BY <2>1 DEF Led, Found, Removing, Busy, Leased, Writing
  <2>5. NoAccident' => RowFollows
    BY <1>1, <2>2, <2>4, SetupTypes, AloneFollows
  <2>6. NoAccident' => Stands(s)
    BY <2>1, <2>3, <2>5 DEF Stands, Owns, Removing
  <2> QED BY <1>1, <2>1, <2>2, <2>3, <2>4, <2>6, SetupTypes, KeptStep
<1> QED BY <1>2, <1>3 DEF ReadOwner

\* A removal reads the profile that its row describes.
LEMMA ReadProfileInv ==
  ASSUME SetupInv, NEW p \in Parties, ReadProfile(p)
  PROVE  SetupInv'
<1>1. /\ party[p].at = "readProfile" /\ ProfileKept /\ live' = live /\ started' \in 0..Operations
      /\ started' = started /\ party[p].at \in Busy /\ party[p].exe \in Executables
  BY SetupTypes DEF ReadProfile, Bystanders, PartyAt, Busy, Removing, SetupInv, PartiesInOrder
<1>2. NoAccident => RowFollows /\ Owns(party[p].row)
  BY <1>1 DEF SetupInv, ChangesAreWhole, Stands, Removing
<1>3. CASE PartyLeaves(p)
  BY <1>1, <1>2, <1>3, LeavingStep
<1>4. CASE ~PartyLeaves(p)
  <2>1. PICK s \in PartyStates : /\ PartyBecomes(p, s) /\ s.at = "unlink" /\ s.exe = party[p].exe
                                 /\ s.row = party[p].row
    <3>1. PICK s : s = [party[p] EXCEPT !.at = "unlink", !.settings = profile.settings]
      OBVIOUS
    <3>2. party[p] \in PartyStates /\ profile.settings \in BOOLEAN
      BY SetupTypes
    <3>3. s.at = "unlink" /\ s.exe = party[p].exe /\ s.row = party[p].row
      BY <3>1, <3>2 DEF PartyStates
    <3>4. s \in PartyStates
      BY <3>1, <3>2 DEF PartyStates, PartySteps, Removing
    <3>5. PartyBecomes(p, s)
      BY <1>4, <3>1 DEF ReadProfile
    <3> QED BY <3>3, <3>4, <3>5
  <2>2. /\ party' = [party EXCEPT ![p] = party'[p]] /\ party'[p] = s
        /\ accidents \subseteq accidents' /\ accidents' \subseteq Accidents /\ ApartUnlessRecorded'
    BY <2>1, PartiesApart
  <2>3. setupLease' = setupLease
    BY <1>4 DEF ReadProfile
  <2>4. Led(s) /\ Found(s) /\ s.at \in Removing /\ s.at \in Busy /\ s.at \notin Leased
    BY <2>1 DEF Led, Found, Removing, Busy, Leased, Writing
  <2>5. NoAccident' => Stands(s)
    BY <1>2, <2>1, <2>2 DEF Stands, NoAccident
  <2> QED BY <1>1, <2>1, <2>2, <2>3, <2>4, <2>5, SetupTypes, KeptStep
<1> QED BY <1>3, <1>4 DEF ReadProfile

-----------------------------------------------------------------------------
(* The steps that change the file or the row.                              *)

\* A party that ends after its last change of the file or the row.
LEMMA EndingStep ==
  ASSUME SetupInv, NEW p \in Parties, PartyLeaves(p), party[p].at \in Busy,
         profile' \in [decl : Declarations, trusted : Declarations, settings : BOOLEAN],
         integration' \in Integrations, live' = live, started' = started,
         \/ party[p].at \in Writing
         \/ profile'.decl \in {profile.decl, Undeclared} /\ integration' \in {integration, NoIntegration},
         RowDeclares', TrustIsShown', NoAccident => RowFollows'
  PROVE  SetupInv'
<1>1. /\ party' = [party EXCEPT ![p] = party'[p]] /\ party'[p] = Unoccupied
      /\ accidents \subseteq accidents' /\ accidents' \subseteq Accidents /\ ApartUnlessRecorded'
  BY PartiesApart, IdleIsTyped DEF PartyLeaves
<1>2. /\ setupLease' \in Parties \union {Undeclared}
      /\ setupLease' = setupLease \/ setupLease \in {p, Undeclared}
  BY SetupTypes DEF PartyLeaves
<1>3. party'[p].at = "idle" /\ party'[p] \in PartyStates
  BY <1>1, IdleIsTyped DEF Unoccupied
<1>4. Led(party'[p]) /\ Found(party[p])' /\ Stands(party[p])'
  BY <1>3 DEF Led, Found, Stands, Removing
<1>5. party'[p].at \notin Leased \union Busy \union {"launch", "readRow"}
  BY <1>3 DEF Leased, Busy, Removing, Writing
<1>6. NoAccident' => NoAccident
  BY <1>1 DEF NoAccident
<1> QED BY <1>1, <1>2, <1>3, <1>4, <1>5, <1>6, ChangedStep

\* The profile is installed where there was neither profile nor row.
LEMMA InstallInv ==
  ASSUME SetupInv, NEW p \in Parties, InstallProfile(p)
  PROVE  SetupInv'
<1>1. /\ party[p].at = "install" /\ integration' = integration /\ live' = live /\ started' = started
      /\ party[p].at \in Writing /\ party[p].at \in Busy /\ setupLease = p
  BY DEF InstallProfile, Bystanders, PartyAt, SetupInv, PartiesInOrder, Leased, Writing, Busy
<1>2. /\ party[p].exe \in Executables /\ party[p].exe \in Declarations
      /\ integration = NoIntegration /\ profile.decl = Undeclared
      /\ integration \in Integrations /\ started \in 0..Operations
  BY <1>1, SetupTypes DEF SetupInv, PartiesInOrder, Led, Found, Declarations
<1>3. CASE PartyLeaves(p) /\ profile' = profile
  <2>1. RowFollows
    BY <1>2 DEF RowFollows, NoIntegration
  <2> QED BY <1>1, <1>2, <1>3, <2>1, LeavingStep DEF ProfileKept
<1>4. CASE PartyTo(p, "record") /\ profile' = [NoProfile EXCEPT !.decl = party[p].exe] /\ setupLease' = setupLease
  <2>1. /\ profile' \in [decl : Declarations, trusted : Declarations, settings : BOOLEAN]
        /\ profile'.decl = party[p].exe /\ profile'.trusted = Undeclared
    BY <1>2, <1>4 DEF NoProfile, Declarations
  <2>2. /\ party' = [party EXCEPT ![p] = party'[p]] /\ party'[p] \in PartyStates
        /\ accidents \subseteq accidents' /\ accidents' \subseteq Accidents /\ ApartUnlessRecorded'
        /\ party'[p].at = "record" /\ party'[p].exe = party[p].exe /\ party'[p].readiness = party[p].readiness
    BY <1>4, NextStep DEF PartySteps, Writing
  <2>3. party'[p].at \in Busy /\ party'[p].at \notin {"idle", "launch"}
    BY <2>2 DEF Busy, Writing
  <2>4. Led(party'[p]) /\ Found(party[p])' /\ Stands(party[p])'
    BY <1>1, <1>2, <2>1, <2>2 DEF Led, Found, Stands, Removing
  <2>5. RowDeclares' /\ TrustIsShown'
    BY <1>1, <2>1 DEF SetupInv, RowDeclares, TrustIsShown
  <2> QED BY <1>1, <1>2, <1>4, <2>1, <2>2, <2>3, <2>4, <2>5, SetupTypes, ChangedStep
<1> QED BY <1>3, <1>4 DEF InstallProfile

\* The row of the installed profile is written.
LEMMA RecordInv ==
  ASSUME SetupInv, NEW p \in Parties, RecordIntegration(p)
  PROVE  SetupInv'
<1>1. /\ party[p].at = "record" /\ profile' = profile /\ live' = live /\ started' = started
      /\ party[p].at \in Writing /\ party[p].at \in Busy /\ setupLease = p
  BY DEF RecordIntegration, Bystanders, PartyAt, SetupInv, PartiesInOrder, Leased, Writing, Busy
<1>2. /\ party[p].exe \in Executables /\ party[p].exe \in Declarations
      /\ NoAccident => integration = NoIntegration /\ profile.decl = party[p].exe
      /\ integration \in Integrations /\ started \in 0..Operations
  BY <1>1, SetupTypes DEF SetupInv, PartiesInOrder, ChangesAreWhole, Stands, Declarations
<1>3. CASE integration # NoIntegration
  <2>1. PartyLeaves(p) /\ integration' = integration /\ ~NoAccident
    BY <1>2, <1>3 DEF RecordIntegration
  <2> QED BY <1>1, <1>2, <2>1, LeavingStep DEF ProfileKept
<1>4. CASE integration = NoIntegration
  <2>1. /\ integration' \in Integrations /\ integration'.decl = party[p].exe
    BY <1>2, <1>4 DEF RecordIntegration, Integrations
  <2>2. PICK s \in PartyStates : PartyBecomes(p, s) /\ s.at = "release" /\ s.exe = party[p].exe
    <3>1. PICK s : s = [party[p] EXCEPT !.at = "release", !.row = integration']
      OBVIOUS
    <3>2. party[p] \in PartyStates
      BY SetupTypes
    <3>3. s.at = "release" /\ s.exe = party[p].exe
      BY <3>1, <3>2 DEF PartyStates
    <3>4. s \in PartyStates
      BY <2>1, <3>1, <3>2 DEF PartyStates, PartySteps
    <3>5. PartyBecomes(p, s)
      BY <1>4, <3>1 DEF RecordIntegration
    <3> QED BY <3>3, <3>4, <3>5
  <2>3. /\ party' = [party EXCEPT ![p] = party'[p]] /\ party'[p] = s
        /\ accidents \subseteq accidents' /\ accidents' \subseteq Accidents /\ ApartUnlessRecorded'
    BY <2>2, PartiesApart
  <2>4. setupLease' = setupLease
    BY <1>4 DEF RecordIntegration
  <2>5. Led(party'[p]) /\ Found(party[p])' /\ Stands(party[p])' /\ party'[p].at # "launch"
    BY <2>2, <2>3 DEF Led, Found, Stands, Removing
  <2>6. RowDeclares' /\ TrustIsShown'
    BY <1>1, <1>2, <2>1, <2>3, UndeclaredAssumption DEF SetupInv, RowDeclares, TrustIsShown
  <2>7. NoAccident' => RowFollows'
    BY <1>1, <1>2, <2>1, <2>3 DEF RowFollows, NoAccident
  <2> QED BY <1>1, <1>2, <2>1, <2>2, <2>3, <2>4, <2>5, <2>6, <2>7, SetupTypes, ChangedStep
<1> QED BY <1>3, <1>4

\* The profile is rewritten over the one of the row that was read.
LEMMA RewriteInv ==
  ASSUME SetupInv, NEW p \in Parties, RewriteProfile(p)
  PROVE  SetupInv'
<1>1. /\ party[p].at = "rewrite" /\ integration' = integration /\ live' = live /\ started' = started
      /\ party[p].at \in Writing /\ party[p].at \in Busy /\ setupLease = p /\ setupLease' = setupLease
  BY DEF RewriteProfile, Bystanders, PartyAt, SetupInv, PartiesInOrder, Leased, Writing, Busy
<1>2. /\ party[p].exe \in Executables /\ party[p].exe \in Declarations /\ party[p].readiness = "UpdateRequired"
      /\ Found(party[p]) /\ (NoAccident => integration = party[p].row)
      /\ party[p].settings \in BOOLEAN
  BY <1>1, SetupTypes DEF SetupInv, PartiesInOrder, ChangesAreWhole, Led, Stands, Declarations, PartyStates
<1>3. /\ profile' \in [decl : Declarations, trusted : Declarations, settings : BOOLEAN]
      /\ profile'.decl = party[p].exe /\ profile'.trusted = Undeclared
  BY <1>2 DEF RewriteProfile, Declarations
<1>4. /\ party' = [party EXCEPT ![p] = party'[p]] /\ party'[p] \in PartyStates
      /\ accidents \subseteq accidents' /\ accidents' \subseteq Accidents /\ ApartUnlessRecorded'
      /\ party'[p].at = "replace" /\ party'[p].exe = party[p].exe /\ party'[p].readiness = party[p].readiness
      /\ party'[p].row = party[p].row
  BY NextStep DEF RewriteProfile, PartySteps, Writing
<1>5. party'[p].at \in Busy /\ party'[p].at \notin {"idle", "launch"}
  BY <1>4 DEF Busy, Writing
<1>6. Led(party'[p]) /\ Found(party[p])'
  BY <1>1, <1>2, <1>4 DEF Led, Found
<1>7. NoAccident' => Stands(party[p])'
  BY <1>1, <1>2, <1>3, <1>4 DEF Stands, NoAccident, Removing
<1>8. RowDeclares' /\ TrustIsShown'
  BY <1>1, <1>3 DEF SetupInv, RowDeclares, TrustIsShown
<1> QED BY <1>1, <1>2, <1>3, <1>4, <1>5, <1>6, <1>7, <1>8, SetupTypes, ChangedStep

\* The row of the rewritten profile is replaced.
LEMMA ReplaceInv ==
  ASSUME SetupInv, NEW p \in Parties, ReplaceIntegration(p)
  PROVE  SetupInv'
<1>1. /\ party[p].at = "replace" /\ profile' = profile /\ live' = live /\ started' = started
      /\ party[p].at \in Writing /\ party[p].at \in Busy /\ setupLease = p
  BY DEF ReplaceIntegration, Bystanders, PartyAt, SetupInv, PartiesInOrder, Leased, Writing, Busy
<1>2. /\ party[p].exe \in Executables /\ party[p].exe \in Declarations
      /\ party[p].readiness = "UpdateRequired" /\ Found(party[p])
      /\ NoAccident => integration = party[p].row /\ profile.decl = party[p].exe
      /\ integration \in Integrations /\ started \in 0..Operations
  BY <1>1, SetupTypes DEF SetupInv, PartiesInOrder, ChangesAreWhole, Led, Stands, Declarations
<1>3. CASE ~Owns(party[p].row)
  <2>1. PartyLeaves(p) /\ integration' = integration
    BY <1>3 DEF ReplaceIntegration
  <2>2. ~NoAccident
    BY <1>1, <1>2, <1>3 DEF Owns, Found, NoIntegration
  <2> QED BY <1>1, <1>2, <2>1, <2>2, LeavingStep DEF ProfileKept
<1>4. CASE Owns(party[p].row)
  <2>1. /\ integration' \in Integrations /\ integration'.decl = party[p].exe
    <3>1. PICK row : row = [integration EXCEPT !.decl = party[p].exe, !.life = "pending", !.rev = @ + 1]
      OBVIOUS
    <3>2. integration.rev + 1 \in Nat
      BY <1>2 DEF Integrations
    <3>3. row \in Integrations /\ row.decl = party[p].exe
      BY <1>2, <3>1, <3>2 DEF Integrations
    <3> QED BY <1>4, <3>1, <3>3 DEF ReplaceIntegration
  <2>2. PICK s \in PartyStates : PartyBecomes(p, s) /\ s.at = "release" /\ s.exe = party[p].exe
    <3>1. PICK s : s = [party[p] EXCEPT !.at = "release", !.row = integration']
      OBVIOUS
    <3>2. party[p] \in PartyStates
      BY SetupTypes
    <3>3. s.at = "release" /\ s.exe = party[p].exe
      BY <3>1, <3>2 DEF PartyStates
    <3>4. s \in PartyStates
      BY <2>1, <3>1, <3>2 DEF PartyStates, PartySteps
    <3>5. PartyBecomes(p, s)
      BY <1>4, <3>1 DEF ReplaceIntegration
    <3> QED BY <3>3, <3>4, <3>5
  <2>3. /\ party' = [party EXCEPT ![p] = party'[p]] /\ party'[p] = s
        /\ accidents \subseteq accidents' /\ accidents' \subseteq Accidents /\ ApartUnlessRecorded'
    BY <2>2, PartiesApart
  <2>4. setupLease' = setupLease
    BY <1>4 DEF ReplaceIntegration
  <2>5. Led(party'[p]) /\ Found(party[p])' /\ Stands(party[p])' /\ party'[p].at # "launch"
    BY <2>2, <2>3 DEF Led, Found, Stands, Removing
  <2>6. RowDeclares' /\ TrustIsShown'
    BY <1>1, <1>2, <2>1, <2>3, UndeclaredAssumption DEF SetupInv, RowDeclares, TrustIsShown
  <2>7. NoAccident' => RowFollows'
    BY <1>1, <1>2, <2>1, <2>3 DEF RowFollows, NoAccident
  <2> QED BY <1>1, <1>2, <2>1, <2>2, <2>3, <2>4, <2>5, <2>6, <2>7, SetupTypes, ChangedStep
<1> QED BY <1>3, <1>4

\* The profile is unlinked while its row still stands.
LEMMA UnlinkInv ==
  ASSUME SetupInv, NEW p \in Parties, UnlinkProfile(p)
  PROVE  SetupInv'
<1>1. /\ party[p].at = "unlink" /\ integration' = integration /\ live' = live /\ started' = started
      /\ party[p].at \in Busy /\ setupLease' = setupLease
  BY DEF UnlinkProfile, Bystanders, PartyAt, Removing, Busy
<1>2. /\ party[p].exe \in Executables /\ (NoAccident => Owns(party[p].row))
      /\ party[p].settings \in BOOLEAN
  BY <1>1, SetupTypes DEF SetupInv, PartiesInOrder, ChangesAreWhole, Stands, Removing, PartyStates
<1>3. /\ profile' \in [decl : Declarations, trusted : Declarations, settings : BOOLEAN]
      /\ profile'.decl = Undeclared /\ profile'.trusted = Undeclared
  BY <1>2 DEF UnlinkProfile, NoProfile, Declarations
<1>4. /\ party' = [party EXCEPT ![p] = party'[p]] /\ party'[p] \in PartyStates
      /\ accidents \subseteq accidents' /\ accidents' \subseteq Accidents /\ ApartUnlessRecorded'
      /\ party'[p].at = "deleteRow" /\ party'[p].exe = party[p].exe
      /\ party'[p].row = party[p].row
  BY NextStep DEF UnlinkProfile, PartySteps, Removing
<1>5. party'[p].at \in Busy /\ party'[p].at \notin Leased \union {"idle", "launch"}
  BY <1>4 DEF Busy, Removing, Leased, Writing
<1>6. Led(party'[p]) /\ Found(party[p])'
  BY <1>4 DEF Led, Found
<1>7. NoAccident' => Stands(party[p])'
  BY <1>1, <1>2, <1>3, <1>4 DEF Stands, NoAccident, Owns
<1>8. RowDeclares' /\ TrustIsShown'
  BY <1>1, <1>3 DEF SetupInv, RowDeclares, TrustIsShown
<1> QED BY <1>1, <1>2, <1>3, <1>4, <1>5, <1>6, <1>7, <1>8, SetupTypes, ChangedStep

\* The row of an unlinked profile is deleted.
LEMMA DeleteInv ==
  ASSUME SetupInv, NEW p \in Parties, DeleteIntegration(p)
  PROVE  SetupInv'
<1>1. /\ party[p].at = "deleteRow" /\ profile' = profile /\ live' = live /\ started' = started
      /\ party[p].at \in Busy /\ PartyLeaves(p)
  BY DEF DeleteIntegration, Bystanders, PartyAt, Removing, Busy
<1>2. NoAccident => Owns(party[p].row) /\ profile.decl = Undeclared
  BY <1>1 DEF SetupInv, ChangesAreWhole, Stands, Removing
<1>3. integration' \in {integration, NoIntegration} /\ integration' \in Integrations
  BY SetupTypes, IdleIsTyped DEF DeleteIntegration
<1>4. NoAccident => RowFollows'
  BY <1>1, <1>2 DEF DeleteIntegration, RowFollows, NoIntegration
<1>5. accidents \subseteq accidents'
  BY <1>1, PartiesApart, IdleIsTyped DEF PartyLeaves
<1>6. RowDeclares' /\ TrustIsShown'
  BY <1>1, <1>3, <1>5 DEF SetupInv, RowDeclares, TrustIsShown
<1> QED BY <1>1, <1>3, <1>4, <1>6, SetupTypes, EndingStep

-----------------------------------------------------------------------------
(* Readiness, launches, Codex and faults.                                  *)

\* The row that was read becomes ready.
LEMMA SetReadyInv ==
  ASSUME SetupInv, NEW p \in Parties, SetReady(p)
  PROVE  SetupInv'
<1>1. /\ party[p].at = "setReady" /\ profile' = profile /\ live' = live /\ started' = started
      /\ setupLease = p /\ PartyLeaves(p) /\ party[p].at \notin Busy
  BY DEF SetReady, Bystanders, PartyAt, SetupInv, PartiesInOrder, Leased, Busy, Removing, Writing
<1>2. CASE integration' = integration
  BY <1>1, <1>2, SetupTypes, LeavingStep DEF ProfileKept
<1>3. CASE integration' # integration
  <2>1. integration # NoIntegration /\ integration' = [integration EXCEPT !.life = "ready", !.rev = @ + 1]
    BY <1>3 DEF SetReady
  <2>2. /\ integration' \in Integrations /\ integration'.owner = integration.owner
        /\ integration'.decl = integration.decl /\ integration'.life = "ready"
    <3>1. PICK row : row = [integration EXCEPT !.life = "ready", !.rev = @ + 1]
      OBVIOUS
    <3>2. integration \in Integrations /\ integration.rev + 1 \in Nat
      BY SetupTypes DEF Integrations
    <3>3. /\ row \in Integrations /\ row.owner = integration.owner
          /\ row.decl = integration.decl /\ row.life = "ready"
      BY <3>1, <3>2 DEF Integrations
    <3> QED BY <2>1, <3>1, <3>3
  <2>3. integration' # NoIntegration
    BY <2>2 DEF NoIntegration
  <2>4. /\ party' = [party EXCEPT ![p] = party'[p]] /\ party'[p] = Unoccupied
        /\ accidents \subseteq accidents' /\ accidents' \subseteq Accidents /\ ApartUnlessRecorded'
    BY <1>1, PartiesApart, IdleIsTyped DEF PartyLeaves
  <2>5. /\ party'[p].at = "idle" /\ \A q \in Parties \ {p} : party'[q] = party[q]
        /\ party' \in [Parties -> PartyStates]
    <3>1. party'[p].at = "idle" /\ party'[p] \in PartyStates
      BY <2>4, IdleIsTyped DEF Unoccupied
    <3> QED BY <2>4, <3>1, SetupTypes
  <2>6. SetupTypeOK'
    BY <1>1, <2>2, <2>4, <2>5, SetupTypes
    DEF SetupTypeOK, PartyStates, PartySteps, Accidents, PartyLeaves
  <2>7. \A q \in Parties \ {p} : party[q].at \notin Leased
    BY <1>1 DEF SetupInv, PartiesInOrder
  <2>8. PartiesInOrder'
    BY <1>1, <2>5, <2>7 DEF SetupInv, PartiesInOrder, Led, Found, Leased, Writing
  <2>9. RowDeclares' /\ TrustIsShown'
    BY <1>1, <2>1, <2>2, <2>4 DEF SetupInv, RowDeclares, TrustIsShown
  <2>10. ChangesAreWhole'
    <3>1. NoAccident' => NoAccident
      BY <2>4 DEF NoAccident
    <3>2. RowFollows' <=> RowFollows
      BY <1>1, <2>2 DEF RowFollows
    <3>3. NoAccident' => \A q \in Parties \ {p} : Stands(party[q])'
      <4> SUFFICES ASSUME NoAccident', NEW q \in Parties \ {p} PROVE Stands(party[q])'
        OBVIOUS
      <4>1. Stands(party[q]) /\ party'[q] = party[q] /\ party[q].at \notin Writing
        BY <2>5, <2>7, <3>1 DEF SetupInv, ChangesAreWhole, Leased
      <4> QED BY <1>1, <2>1, <2>2, <2>3, <3>2, <4>1 DEF Stands, Owns, Writing
    <3>4. Stands(party[p])'
      BY <2>5 DEF Stands, Removing
    <3>5. NoAccident' /\ (\A q \in Parties : party'[q].at \notin Busy) => RowFollows
      BY <1>1, <2>5, <3>1 DEF SetupInv, ChangesAreWhole
    <3> QED BY <3>2, <3>3, <3>4, <3>5 DEF ChangesAreWhole
  <2>11. UsedIsReady'
    <3>1. "raced" \notin accidents' /\ InUse' => "raced" \notin accidents /\ InUse
      BY <1>1, <2>4, <2>5 DEF InUse
    <3>2. Readiness(integration.decl) = "Ready" => Readiness(integration.decl)' = "Ready"
      BY <1>1, <2>1, <2>2, <2>3 DEF Readiness, Carries, TrustComplete
    <3>3. "raced" \notin accidents /\ InUse /\ live =>
            \A q \in Parties : party'[q].at \notin Busy \union {"readRow"}
      BY <2>5 DEF SetupInv, UsedIsReady, Busy, Removing, Writing
    <3> QED BY <1>1, <3>1, <3>2, <3>3 DEF SetupInv, UsedIsReady
  <2> QED BY <2>4, <2>6, <2>8, <2>9, <2>10, <2>11 DEF SetupInv
<1> QED BY <1>2, <1>3

\* What Codex writes leaves the declaration as it is.
LEMMA CodexWrites ==
  ASSUME SetupInv, UNCHANGED <<integration, setupLease, party, live, started>>,
         profile' \in [decl : Declarations, trusted : Declarations, settings : BOOLEAN],
         profile'.decl = profile.decl, profile.decl # Undeclared,
         TrustComplete => TrustComplete',
         accidents \subseteq accidents', accidents' \subseteq Accidents, TrustIsShown'
  PROVE  SetupInv'
<1>1. SetupTypeOK'
  BY SetupTypes DEF SetupTypeOK, PartyStates, PartySteps, Accidents
<1>2. PartiesInOrder' /\ ApartUnlessRecorded' /\ RowDeclares'
  BY DEF SetupInv, PartiesInOrder, Found, ApartUnlessRecorded, RowDeclares
<1>3. ChangesAreWhole'
  BY DEF SetupInv, ChangesAreWhole, NoAccident, Stands, RowFollows, Owns
<1>4. UsedIsReady'
  <2>1. profile # NoProfile /\ profile' # NoProfile
    BY IdleIsTyped
  <2>2. Readiness(integration.decl) = "Ready" => Readiness(integration.decl)' = "Ready"
    BY <2>1 DEF Readiness, Carries, TrustComplete
  <2> QED BY <2>2 DEF SetupInv, UsedIsReady, InUse
<1> QED BY <1>1, <1>2, <1>3, <1>4 DEF SetupInv

\* Codex itself records trust, for the declaration it shows.
LEMMA NativeTrustInv ==
  ASSUME SetupInv, NEW p \in Parties, NativeTrust(p)
  PROVE  SetupInv'
<1>1. /\ profile' = [profile EXCEPT !.trusted = party[p].seen] /\ profile.decl # Undeclared
      /\ party[p].seen # Undeclared /\ party[p].seen \in Declarations
      /\ UNCHANGED <<integration, setupLease, party, live, started>>
  BY SetupTypes DEF NativeTrust, Bystanders, PartyStates
<1>2. /\ profile' \in [decl : Declarations, trusted : Declarations, settings : BOOLEAN]
      /\ profile'.decl = profile.decl /\ profile'.trusted = party[p].seen
  BY <1>1, SetupTypes
<1>3. /\ accidents \subseteq accidents' /\ accidents' \subseteq Accidents
      /\ "overtaken" \notin accidents' => party[p].seen = profile.decl
  BY SetupTypes DEF NativeTrust, Accidents
<1>4. TrustIsShown' /\ TrustComplete'
  BY <1>1, <1>2, <1>3 DEF TrustIsShown, TrustComplete
<1> QED BY <1>1, <1>2, <1>3, <1>4, CodexWrites

\* Codex writes settings, which are no part of the declaration.
LEMMA CodexWritesSettingsInv ==
  ASSUME SetupInv, CodexWritesSettings
  PROVE  SetupInv'
<1>1. /\ profile' = [profile EXCEPT !.settings = TRUE] /\ profile.decl # Undeclared
      /\ UNCHANGED <<integration, setupLease, party, live, started, accidents>>
  BY DEF CodexWritesSettings
<1>2. /\ profile' \in [decl : Declarations, trusted : Declarations, settings : BOOLEAN]
      /\ profile'.decl = profile.decl /\ profile'.trusted = profile.trusted
  BY <1>1, SetupTypes
<1>3. TrustIsShown' /\ (TrustComplete => TrustComplete')
  BY <1>1, <1>2 DEF SetupInv, TrustIsShown, TrustComplete
<1>4. accidents \subseteq accidents' /\ accidents' \subseteq Accidents
  BY <1>1, SetupTypes
<1> QED BY <1>1, <1>2, <1>3, <1>4, CodexWrites

\* Codex exits.
LEMMA CodexExitsInv ==
  ASSUME SetupInv, CodexExits
  PROVE  SetupInv'
<1>1. SetupTypeOK'
  BY SetupTypes DEF CodexExits, SetupTypeOK, PartyStates, PartySteps, Accidents
<1>2. PartiesInOrder' /\ ApartUnlessRecorded' /\ RowDeclares' /\ TrustIsShown'
  BY DEF CodexExits, SetupInv, PartiesInOrder, Found, ApartUnlessRecorded, RowDeclares, TrustIsShown
<1>3. ChangesAreWhole'
  BY DEF CodexExits, SetupInv, ChangesAreWhole, NoAccident, Stands, RowFollows, Owns
<1>4. UsedIsReady'
  BY DEF CodexExits, SetupInv, UsedIsReady, InUse, Readiness, Carries, TrustComplete
<1> QED BY <1>1, <1>2, <1>3, <1>4 DEF SetupInv

\* A launch that passed its check finds the profile still Ready.
LEMMA LaunchInv ==
  ASSUME SetupInv, NEW p \in Parties, LaunchCodex(p)
  PROVE  SetupInv'
<1>1. /\ party[p].at = "launch" /\ live' = TRUE /\ started' = started /\ PartyLeaves(p)
      /\ profile' = profile /\ integration' = integration
      /\ party[p].at \notin Busy
  BY DEF LaunchCodex, ProfileKept, PartyAt, Busy, Removing, Writing
<1>2. /\ party' = [party EXCEPT ![p] = party'[p]] /\ party'[p] = Unoccupied
      /\ accidents \subseteq accidents' /\ accidents' \subseteq Accidents /\ ApartUnlessRecorded'
  BY <1>1, PartiesApart, IdleIsTyped DEF PartyLeaves
<1>3. /\ party'[p].at = "idle" /\ \A q \in Parties \ {p} : party'[q] = party[q]
      /\ party' \in [Parties -> PartyStates]
  <2>1. party'[p].at = "idle" /\ party'[p] \in PartyStates
    BY <1>2, IdleIsTyped DEF Unoccupied
  <2> QED BY <1>2, <2>1, SetupTypes
<1>4. /\ setupLease' \in Parties \union {Undeclared}
      /\ setupLease' = setupLease \/ setupLease = p
  BY <1>1, SetupTypes DEF PartyLeaves
<1>5. SetupTypeOK'
  BY <1>1, <1>2, <1>3, <1>4, SetupTypes DEF SetupTypeOK, PartyStates, PartySteps, Accidents
<1>6. PartiesInOrder'
  BY <1>1, <1>3, <1>4 DEF SetupInv, PartiesInOrder, Led, Found, Leased, Writing
<1>7. RowDeclares' /\ TrustIsShown'
  BY <1>1, <1>2 DEF SetupInv, RowDeclares, TrustIsShown
<1>8. ChangesAreWhole'
  <2>1. NoAccident' => NoAccident
    BY <1>2 DEF NoAccident
  <2>2. NoAccident' => \A q \in Parties \ {p} : Stands(party[q])'
    BY <1>1, <1>3, <2>1 DEF SetupInv, ChangesAreWhole, Stands, RowFollows, Owns
  <2>3. Stands(party[p])'
    BY <1>3 DEF Stands, Removing
  <2>4. NoAccident' /\ (\A q \in Parties : party'[q].at \notin Busy) => RowFollows
    BY <1>1, <1>3, <2>1 DEF SetupInv, ChangesAreWhole
  <2> QED BY <1>1, <2>2, <2>3, <2>4 DEF ChangesAreWhole, RowFollows
<1>9. UsedIsReady'
  <2>1. "raced" \notin accidents' => "raced" \notin accidents /\ InUse
    BY <1>1, <1>2 DEF InUse
  <2>2. Readiness(integration.decl)' = Readiness(integration.decl)
    BY <1>1 DEF Readiness, Carries, TrustComplete
  <2>3. "raced" \notin accidents => \A q \in Parties : party'[q].at \notin Busy \union {"readRow"}
    BY <1>1, <1>3 DEF SetupInv, ApartUnlessRecorded, Busy, Removing, Writing
  <2> QED BY <2>1, <2>2, <2>3 DEF SetupInv, UsedIsReady
<1> QED BY <1>2, <1>5, <1>6, <1>7, <1>8, <1>9 DEF SetupInv

\* A death between the two writes is recorded, any other leaves them in accord.
LEMMA DiesInv ==
  ASSUME SetupInv, NEW p \in Parties, PartyDies(p)
  PROVE  SetupInv'
<1>1. /\ party' = [party EXCEPT ![p] = Unoccupied]
      /\ profile' = profile /\ integration' = integration /\ live' = live /\ started' = started
      /\ setupLease' = setupLease \/ (setupLease = p /\ setupLease' = Undeclared)
      /\ setupLease = p => setupLease' = Undeclared
  BY DEF PartyDies, ProfileKept, Bystanders
<1>2. /\ accidents \subseteq accidents' /\ accidents' \subseteq Accidents
      /\ "died" \notin accidents' => party[p].at \notin {"record", "replace", "deleteRow"}
  BY SetupTypes DEF PartyDies, Accidents
<1>3. /\ party'[p].at = "idle" /\ \A q \in Parties \ {p} : party'[q] = party[q]
      /\ party' \in [Parties -> PartyStates]
  BY <1>1, SetupTypes, IdleIsTyped DEF Unoccupied
<1>4. SetupTypeOK'
  BY <1>1, <1>2, <1>3, SetupTypes DEF SetupTypeOK, PartyStates, PartySteps, Accidents
<1>5. PartiesInOrder'
  BY <1>1, <1>3 DEF SetupInv, PartiesInOrder, Led, Found, Leased, Writing
<1>6. RowDeclares' /\ TrustIsShown'
  BY <1>1, <1>2 DEF SetupInv, RowDeclares, TrustIsShown
<1>7. ApartUnlessRecorded'
  BY <1>2, <1>3 DEF SetupInv, ApartUnlessRecorded, Busy, Removing, Writing
<1>8. ChangesAreWhole'
  <2>1. NoAccident' => NoAccident
    BY <1>2 DEF NoAccident
  <2>2. NoAccident' => \A q \in Parties \ {p} : Stands(party[q])'
    BY <1>1, <1>3, <2>1 DEF SetupInv, ChangesAreWhole, Stands, RowFollows, Owns
  <2>3. Stands(party[p])'
    BY <1>3 DEF Stands, Removing
  <2>4. CASE party[p].at \in Busy
    BY <1>1, <1>2, <2>1, <2>2, <2>3, <2>4
    DEF SetupInv, ChangesAreWhole, Stands, RowFollows, Busy, Removing, Writing, NoAccident
  <2>5. CASE party[p].at \notin Busy
    BY <1>1, <1>3, <2>1, <2>2, <2>3, <2>5 DEF SetupInv, ChangesAreWhole, RowFollows
  <2> QED BY <2>4, <2>5
<1>9. UsedIsReady'
  <2>1. "raced" \notin accidents' /\ InUse' => "raced" \notin accidents /\ InUse
    BY <1>1, <1>2, <1>3 DEF InUse
  <2>2. Readiness(integration.decl)' = Readiness(integration.decl)
    BY <1>1 DEF Readiness, Carries, TrustComplete
  <2>3. "raced" \notin accidents /\ InUse /\ live =>
          \A q \in Parties : party'[q].at \notin Busy \union {"readRow"}
    BY <1>3 DEF SetupInv, UsedIsReady, Busy, Removing, Writing
  <2> QED BY <1>1, <2>1, <2>2, <2>3 DEF SetupInv, UsedIsReady
<1> QED BY <1>4, <1>5, <1>6, <1>7, <1>8, <1>9 DEF SetupInv

-----------------------------------------------------------------------------

\* No profile and no row at first.
LEMMA SetupStart ==
  ASSUME SetupInit
  PROVE  SetupInv
<1>1. SetupTypeOK
  <2>1. profile \in [decl : Declarations, trusted : Declarations, settings : BOOLEAN]
    BY DEF SetupInit, NoProfile, Declarations
  <2>2. party \in [Parties -> PartyStates] /\ integration \in Integrations
    BY IdleIsTyped DEF SetupInit
  <2>3. started \in 0..Operations /\ accidents = {}
    BY OperationsAssumption DEF SetupInit
  <2> QED BY <2>1, <2>2, <2>3 DEF SetupInit, SetupTypeOK, PartyStates, PartySteps
<1>2. /\ \A p \in Parties : party[p].at = "idle"
      /\ profile.decl = Undeclared /\ profile.trusted = Undeclared /\ integration = NoIntegration /\ ~live
      /\ accidents = {}
  BY DEF SetupInit, Unoccupied, NoProfile
<1>3. PartiesInOrder /\ ApartUnlessRecorded /\ RowDeclares /\ TrustIsShown
  BY <1>2 DEF PartiesInOrder, Led, Found, Leased, ApartUnlessRecorded, RowDeclares, TrustIsShown, Removing, Writing
<1>4. ChangesAreWhole
  BY <1>2 DEF ChangesAreWhole, Stands, RowFollows, NoIntegration, Removing
<1>5. UsedIsReady
  BY <1>2 DEF UsedIsReady, InUse
<1> QED BY <1>1, <1>3, <1>4, <1>5 DEF SetupInv

\* Every step keeps SetupInv.
LEMMA SetupNextInv ==
  ASSUME SetupInv, [SetupNext]_setupVars
  PROVE  SetupInv'
<1>1. ASSUME NEW p \in Parties, SetupStep(p) PROVE SetupInv'
  BY <1>1, AcceptInv, ActivateInv, ProveAbsenceInv, InstallInv, RecordInv, ReadDeclarationInv, RewriteInv,
     ReplaceInv, ReviewKeeps, NativeTrustInv, TrustInv, SetReadyInv
  DEF SetupStep
<1>2. ASSUME NEW p \in Parties, RemovalStep(p) PROVE SetupInv'
  BY <1>2, ReadOwnerInv, ReadProfileInv, UnlinkInv, DeleteInv DEF RemovalStep
<1>3. ASSUME NEW p \in Parties, LaunchCodex(p) \/ PartyDies(p) PROVE SetupInv'
  BY <1>3, LaunchInv, DiesInv
<1>4. ASSUME NEW p \in Parties, NEW e \in Executables,
             RequestSetup(p, e) \/ SetupFromShell(p, e) \/ RemoveObserver(p, e) \/ CheckReadiness(p, e)
      PROVE  SetupInv'
  BY <1>4, RequestInv, SetupFromShellInv, RemoveObserverInv, CheckReadinessInv
<1>5. CASE CodexExits \/ CodexWritesSettings
  BY <1>5, CodexExitsInv, CodexWritesSettingsInv
<1>6. CASE UNCHANGED setupVars
  <2>1. UNCHANGED <<profile, integration, setupLease, party, live, started, accidents>>
    BY <1>6 DEF setupVars
  <2> QED
    BY <2>1 DEF SetupInv, SetupTypeOK, PartiesInOrder, Found, ApartUnlessRecorded, RowDeclares, ChangesAreWhole,
       NoAccident, Stands, RowFollows, Owns, TrustIsShown, UsedIsReady, InUse, Readiness, Carries, TrustComplete
<1> QED BY <1>1, <1>2, <1>3, <1>4, <1>5, <1>6 DEF SetupNext

\* SetupInv is an inductive invariant.
LEMMA SetupAlways == SetupSpec => []SetupInv
BY SetupStart, SetupNextInv, PTL DEF SetupSpec

\* The observer profile, its row and the work of every party keep their types
\* (app/observer.rs, state/host.rs).
THEOREM SetupKeepsTypes == SetupSpec => []SetupTypeOK
<1>1. SetupInv => SetupTypeOK
  BY DEF SetupInv
<1> QED BY <1>1, SetupAlways, PTL

\* The invariant of the set-up says what the property says.
LEMMA SetupMeans == SetupInv => ProfileIsReviewed
<1> SUFFICES ASSUME SetupInv PROVE ProfileIsReviewed
  OBVIOUS
<1>1. ReadyIsReviewed
  BY ReadinessMeans DEF SetupInv, TrustIsShown, ReadyIsReviewed, Carries, TrustComplete
<1>2. LiveIsObserved
  BY DEF SetupInv, UsedIsReady, InUse, LiveIsObserved
<1>3. FileFollowsRow
  BY DEF SetupInv, ChangesAreWhole, NoAccident, Busy, RowFollows, FileFollowsRow
<1> QED BY <1>1, <1>2, <1>3 DEF ProfileIsReviewed

\* Whatever number of processes of however many wsnav executables set up,
\* update, remove and use the Codex observer: the profile that is Ready has
\* had its own hooks reviewed, a live Codex keeps a Ready profile, and between
\* operations the file carries the declaration of the row - but for the
\* accidents that no fence of the code covers (app/observer.rs,
\* provider/codex/profile.rs, state/host.rs).
THEOREM ProfilesAreReviewed == SetupSpec => []ProfileIsReviewed
BY SetupMeans, SetupAlways, PTL
=============================================================================
