------------------------- MODULE PresentationProofs -------------------------
(***************************************************************************)
(* What users meet, for any number of terminals, directories, panes and    *)
(* attachments and whatever fails.  ProviderPane: input and status go to   *)
(* the Runtime that the presentation records.  Presentation: a directory   *)
(* is emptied after its server is gone, and in the order that the next     *)
(* close needs.                                                            *)
(***************************************************************************)
EXTENDS ProviderPane, Presentation, TLAPS

-----------------------------------------------------------------------------
(* The provider pane.                                                      *)

\* Steps without the claim, and the steps before the pane is replaced at which
\* the status was looked at or written by whoever holds the claim.
Unclaimed == {"idle", "look", "mark", "dead"}
Decided == {"prove", "previous", "clear", "unfile", "tag", "respawn", "fail", "restore", "retag", "refile", "undo"}
Attaching == {"attach", "cycle"}

ClaimIsExclusive == \A u \in Users : user[u].at \notin Unclaimed => claim = u

\* The helper that runs is the one in the pane.
HelperIsShown ==
  \A n \in 1..Attempts : helpers[n].at \notin {"none", "gone"} =>
    /\ shown.what = "helper" /\ shown.attempt = n /\ ~shown.dead
    /\ helpers[n].card \in Cards
    /\ helpers[n].at \in {"ended", "report_end"} => helpers[n].result \in Terminal

\* A live pane shows the helper of w.
Shows(w) == ~shown.dead => shown.what = "helper" /\ helpers[shown.attempt].card = w

RunningNames == status.phase = "running" => status.card \in Cards

\* What the steps of a replacement find.
KindIsRight(u) ==
  LET s == user[u] IN
  /\ s.at \in {"pend", "tag", "fail"} => s.kind \in Attaching
  /\ s.at \in {"source", "prior", "restore", "retag", "refile"} => s.kind = "cycle"
  /\ s.at = "prior" => s.card \in Cards
  /\ s.at \in {"context", "prove", "previous", "unfile", "undo", "undo_status"} => s.kind = "review"
  /\ s.at \in {"clear", "respawn"} => s.kind \in Attaching \union {"shell", "review"}
  /\ s.at \in {"pend", "clear", "tag", "respawn", "fail"} /\ s.kind \in Attaching => s.card \in Cards
  /\ s.at \in {"clear", "tag", "respawn", "fail"} /\ s.kind \in Attaching => s.attempt \in 1..Attempts
  /\ s.prior.phase = "running" => s.prior.card \in Cards

TagIsSet(u) ==
  LET s == user[u] IN
  /\ s.at = "unfile" => shown.tag = Nobody
  /\ s.at = "respawn" => shown.tag = IF s.kind \in Attaching THEN s.card ELSE Nobody

\* Until the pane is replaced a running status is that of the helper in it,
\* and so is the one that is kept to be restored.
KeepsPrior(u) ==
  \/ user[u].kind = "cycle" /\ user[u].at \in {"pend", "clear", "tag", "respawn", "restore", "retag", "refile"}
  \/ user[u].kind = "review" /\ user[u].at \in {"clear", "unfile", "respawn", "undo", "undo_status"}

NothingElseRuns(u) ==
  /\ user[u].at \in Decided /\ user[u].kind # "shell" /\ status.phase = "running" => Shows(status.card)
  /\ KeepsPrior(u) /\ user[u].prior.phase = "running" => Shows(user[u].prior.card)

UsersAreInOrder == \A u \in Users : KindIsRight(u) /\ TagIsSet(u) /\ NothingElseRuns(u)

PaneInv == /\ PaneTypeOK /\ ClaimIsExclusive /\ HelperIsShown /\ RunningNames /\ UsersAreInOrder /\ ShownIsRecorded

-----------------------------------------------------------------------------

PanePhases == {"none", "pending", "running", "completed", "failed"}
StatusRecord == [attempt : 0..Attempts, card : Cards \union {Nobody}, phase : PanePhases]
ShownRecord == [what : {"wait", "helper", "shell", "review"}, attempt : 0..Attempts,
                tag : Cards \union {Nobody}, dead : BOOLEAN]
HelperPlaces == {"none", "started", "prepared", "unready", "report_running", "report_unready", "attach",
                 "native", "ended", "report_end", "waiting", "gone"}
HelperRecord == [card : Cards \union {Nobody}, cycle : BOOLEAN, at : HelperPlaces, result : Terminal \union {"none"}]
UserSet == {"idle", "source", "prior", "pend", "clear", "tag", "respawn", "release", "fail",
            "restore", "retag", "refile", "context", "prove", "previous", "unfile", "undo",
            "undo_status", "look", "mark", "dead"}
Kinds == {"none", "attach", "cycle", "shell", "review", "literal"}
UserRecord == [kind : Kinds, at : UserSet, card : Cards \union {Nobody}, attempt : 0..Attempts, prior : StatusRecord]

\* The types with each record set under a name, so that it can stay folded.
LEMMA PaneTyped == PaneTypeOK <=> /\ claim \in Users \union {Nobody}
                                 /\ status \in StatusRecord /\ shown \in ShownRecord
                                 /\ helpers \in [1..Attempts -> HelperRecord]
                                 /\ running \subseteq Cards
                                 /\ user \in [Users -> UserRecord]
                                 /\ tried \in 0..Attempts /\ refused \in BOOLEAN
<1>1. PanePhases = {"none", "pending", "running"} \union Terminal
  BY DEF PanePhases, Terminal
<1> QED
  BY <1>1 DEF PaneTypeOK, StatusRecord, ShownRecord, HelperRecord, HelperPlaces, UserRecord, UserSet, Kinds

\* The fields of the records.
LEMMA Fields ==
  ASSUME PaneTypeOK
  PROVE  /\ status.attempt \in 0..Attempts /\ status.card \in Cards \union {Nobody} /\ status.phase \in PanePhases
         /\ shown.what \in {"wait", "helper", "shell", "review"} /\ shown.attempt \in 0..Attempts
         /\ shown.tag \in Cards \union {Nobody} /\ shown.dead \in BOOLEAN
         /\ \A n \in 1..Attempts : /\ helpers[n].card \in Cards \union {Nobody} /\ helpers[n].cycle \in BOOLEAN
                                   /\ helpers[n].at \in HelperPlaces /\ helpers[n].result \in Terminal \union {"none"}
         /\ \A u \in Users : /\ user[u].kind \in Kinds /\ user[u].at \in UserSet /\ user[u].card \in Cards \union {Nobody}
                             /\ user[u].attempt \in 0..Attempts /\ user[u].prior \in StatusRecord
<1>1. status \in StatusRecord /\ shown \in ShownRecord
  BY PaneTyped
<1>2. \A n \in 1..Attempts : helpers[n] \in HelperRecord
  BY PaneTyped
<1>3. \A u \in Users : user[u] \in UserRecord
  BY PaneTyped
<1>4. /\ status.attempt \in 0..Attempts /\ status.card \in Cards \union {Nobody} /\ status.phase \in PanePhases
  BY <1>1 DEF StatusRecord
<1>5. /\ shown.what \in {"wait", "helper", "shell", "review"} /\ shown.attempt \in 0..Attempts
      /\ shown.tag \in Cards \union {Nobody} /\ shown.dead \in BOOLEAN
  BY <1>1 DEF ShownRecord
<1> QED BY <1>2, <1>3, <1>4, <1>5 DEF HelperRecord, UserRecord

\* u alone moves, to the given state.
UserMovesTo(u, at, kind, card, attempt, prior) ==
  /\ user' \in [Users -> UserRecord]
  /\ user'[u].at = at /\ user'[u].kind = kind /\ user'[u].card = card
  /\ user'[u].attempt = attempt /\ user'[u].prior = prior
  /\ \A v \in Users : v # u => user'[v] = user[v]

\* Only user u moves, to record s.
LEMMA UserGoes ==
  ASSUME PaneTypeOK, NEW u \in Users, NEW s \in UserRecord, user' = [user EXCEPT ![u] = s]
  PROVE  UserMovesTo(u, s.at, s.kind, s.card, s.attempt, s.prior)
BY PaneTyped DEF UserMovesTo

\* It goes to another step.
LEMMA UserStepMoves ==
  ASSUME PaneTypeOK, NEW u \in Users, NEW step \in UserSet, UserTo(u, step)
  PROVE  UserMovesTo(u, step, user[u].kind, user[u].card, user[u].attempt, user[u].prior)
<1>1. user \in [Users -> UserRecord] /\ user[u] \in UserRecord
  BY PaneTyped
<1>2. user' = [user EXCEPT ![u].at = step]
  BY DEF UserTo
<1> QED BY <1>1, <1>2 DEF UserMovesTo, UserRecord

\* The same, with the Workstream it attaches.
LEMMA CardGoes ==
  ASSUME PaneTypeOK, NEW u \in Users, NEW step \in UserSet, NEW w \in Cards \union {Nobody},
         user' = [user EXCEPT ![u].at = step, ![u].card = w]
  PROVE  UserMovesTo(u, step, user[u].kind, w, user[u].attempt, user[u].prior)
<1>1. user \in [Users -> UserRecord] /\ user[u] \in UserRecord
  BY PaneTyped
<1> QED BY <1>1 DEF UserMovesTo, UserRecord

\* The same, with the status it may have to restore.
LEMMA PriorGoes ==
  ASSUME PaneTypeOK, NEW u \in Users, NEW step \in UserSet, NEW s \in StatusRecord,
         user' = [user EXCEPT ![u].at = step, ![u].prior = s]
  PROVE  UserMovesTo(u, step, user[u].kind, user[u].card, user[u].attempt, s)
<1>1. user \in [Users -> UserRecord] /\ user[u] \in UserRecord
  BY PaneTyped
<1> QED BY <1>1 DEF UserMovesTo, UserRecord

\* The same, with the attempt it started.
LEMMA AttemptGoes ==
  ASSUME PaneTypeOK, NEW u \in Users, NEW step \in UserSet, NEW n \in 0..Attempts,
         user' = [user EXCEPT ![u].at = step, ![u].attempt = n]
  PROVE  UserMovesTo(u, step, user[u].kind, user[u].card, n, user[u].prior)
<1>1. user \in [Users -> UserRecord] /\ user[u] \in UserRecord
  BY PaneTyped
<1> QED BY <1>1 DEF UserMovesTo, UserRecord

\* It is done and keeps nothing.
LEMMA RestGoes ==
  ASSUME PaneTypeOK, NEW u \in Users, user' = [user EXCEPT ![u] = Resting]
  PROVE  UserMovesTo(u, "idle", "none", Nobody, 0, NoStatus)
<1>1. Resting \in UserRecord
  BY AttemptsAssumption DEF Resting, UserRecord, UserSet, Kinds, StatusRecord, NoStatus, PanePhases
<1>2. Resting.at = "idle" /\ Resting.kind = "none" /\ Resting.card = Nobody /\ Resting.attempt = 0 /\ Resting.prior = NoStatus
  BY DEF Resting
<1> HIDE DEF Resting
<1> QED BY <1>1, <1>2, PaneTyped DEF UserMovesTo

-----------------------------------------------------------------------------

\* Nobody but u holds the claim.
OnlyHolder(u) == claim \in {u, Nobody}

\* Who works under the claim works alone.
LEMMA OthersAreUnclaimed ==
  ASSUME PaneInv, NEW u \in Users, OnlyHolder(u), NEW v \in Users, v # u
  PROVE  user[v].at \in Unclaimed
BY UsersAssumption DEF PaneInv, ClaimIsExclusive, OnlyHolder, Users

\* A user in such a step owes nothing of the pane.
LEMMA UnclaimedOwesNothing ==
  ASSUME NEW u \in Users, user[u].at \in Unclaimed, user[u].prior.phase = "running" => user[u].prior.card \in Cards
  PROVE  KindIsRight(u) /\ TagIsSet(u) /\ NothingElseRuns(u)
BY DEF Unclaimed, KindIsRight, TagIsSet, NothingElseRuns, Decided, KeepsPrior

\* A step of whoever holds or takes the claim.
LEMMA HolderMoves ==
  ASSUME PaneInv, NEW u \in Users, OnlyHolder(u), PaneTypeOK',
         \A v \in Users : v # u => user'[v] = user[v], user'[u].at \notin Unclaimed => claim' = u,
         HelperIsShown', RunningNames', ShownIsRecorded',
         KindIsRight(u)' /\ TagIsSet(u)' /\ NothingElseRuns(u)'
  PROVE  PaneInv'
<1>1. ASSUME NEW v \in Users, v # u
      PROVE  user'[v] = user[v] /\ user'[v].at \in Unclaimed /\ KindIsRight(v)' /\ TagIsSet(v)' /\ NothingElseRuns(v)'
  <2>1. user'[v] = user[v] /\ user[v].at \in Unclaimed /\ KindIsRight(v)
    BY <1>1, OthersAreUnclaimed DEF PaneInv, UsersAreInOrder
  <2> QED
    BY <2>1 DEF Unclaimed, KindIsRight, TagIsSet, NothingElseRuns, Decided, KeepsPrior
<1>2. ClaimIsExclusive'
  BY <1>1 DEF ClaimIsExclusive
<1>3. UsersAreInOrder'
  BY <1>1 DEF UsersAreInOrder
<1> QED BY <1>2, <1>3 DEF PaneInv

\* A step of a user without the claim: it may mark an attempt as failed.
LEMMA BystanderMoves ==
  ASSUME PaneInv, NEW u \in Users, PaneTypeOK', \A v \in Users : v # u => user'[v] = user[v],
         user'[u].at \in Unclaimed, user'[u].prior.phase = "running" => user'[u].prior.card \in Cards,
         claim' = claim, shown' = shown, helpers' = helpers, status' = status \/ status'.phase # "running"
  PROVE  PaneInv'
<1>1. ASSUME NEW v \in Users
      PROVE  KindIsRight(v)' /\ TagIsSet(v)' /\ NothingElseRuns(v)' /\ (user'[v].at \notin Unclaimed => claim' = v)
  <2>1. CASE v = u
    BY <2>1 DEF Unclaimed, KindIsRight, TagIsSet, NothingElseRuns, Decided, KeepsPrior
  <2>2. CASE v # u
    <3>1. user'[v] = user[v] /\ KindIsRight(v) /\ TagIsSet(v) /\ NothingElseRuns(v)
      BY <2>2 DEF PaneInv, UsersAreInOrder
    <3> QED
      BY <3>1 DEF PaneInv, ClaimIsExclusive, KindIsRight, TagIsSet, NothingElseRuns, KeepsPrior, Shows
  <2> QED BY <2>1, <2>2
<1>2. HelperIsShown' /\ RunningNames' /\ ShownIsRecorded'
  BY DEF PaneInv, HelperIsShown, RunningNames, ShownIsRecorded
<1>3. ClaimIsExclusive' /\ UsersAreInOrder'
  BY <1>1 DEF ClaimIsExclusive, UsersAreInOrder
<1> QED BY <1>2, <1>3 DEF PaneInv

\* Helpers and pane after a step of helper n, which may end and leave the pane
\* dead, and may report a phase of its own attempt.
LEMMA HelperMoves ==
  ASSUME PaneInv, NEW n \in 1..Attempts, helpers[n].at \notin {"none", "gone"}, PaneTypeOK',
         user' = user, claim' = claim,
         \A m \in 1..Attempts : m # n => helpers'[m] = helpers[m],
         \/ /\ shown' = shown /\ helpers'[n].card = helpers[n].card
            /\ helpers'[n].at \in {"ended", "report_end"} => helpers'[n].result \in Terminal
         \/ /\ shown'.dead /\ shown'.what = shown.what /\ shown'.attempt = shown.attempt /\ shown'.tag = shown.tag
            /\ helpers'[n].at = "gone",
         status' = status \/ status'.phase # "running" \/ status'.card = helpers[n].card
  PROVE  PaneInv'
<1>1. /\ shown.what = "helper" /\ shown.attempt = n /\ ~shown.dead /\ helpers[n].card \in Cards
      /\ \A m \in 1..Attempts : m # n => helpers[m].at \in {"none", "gone"}
  BY DEF PaneInv, HelperIsShown
<1>2. status'.phase = "running" => status' = status \/ (status'.card = helpers[n].card /\ Shows(helpers[n].card)')
  BY <1>1 DEF Shows
<1>3. HelperIsShown'
  BY <1>1 DEF PaneInv, HelperIsShown
<1>4. RunningNames'
  BY <1>1, <1>2 DEF PaneInv, RunningNames
<1>5. ShownIsRecorded'
  <2>1. ShownIsRecorded <=> (status.phase = "running" /\ shown.tag = status.card => Shows(status.card))
    BY DEF ShownIsRecorded, Shows
  <2>2. SUFFICES ASSUME status'.phase = "running", shown'.tag = status'.card, ~shown'.dead
                 PROVE  shown'.what = "helper" /\ helpers'[shown'.attempt].card = status'.card
    BY DEF ShownIsRecorded
  <2>3. CASE status' = status
    BY <1>1, <2>1, <2>2, <2>3 DEF PaneInv, Shows
  <2>4. CASE status' # status
    BY <1>1, <1>2, <2>2, <2>4 DEF Shows
  <2> QED BY <2>3, <2>4
<1>6. UsersAreInOrder'
  <2>1. SUFFICES ASSUME NEW u \in Users PROVE KindIsRight(u)' /\ TagIsSet(u)' /\ NothingElseRuns(u)'
    BY DEF UsersAreInOrder
  <2>2. KindIsRight(u) /\ TagIsSet(u) /\ NothingElseRuns(u) /\ shown'.tag = shown.tag
    BY DEF PaneInv, UsersAreInOrder
  <2>3. KindIsRight(u)' /\ TagIsSet(u)'
    BY <2>2 DEF KindIsRight, TagIsSet
  <2>4. NothingElseRuns(u)'
    BY <1>1, <1>2, <2>2 DEF NothingElseRuns, KeepsPrior, Shows
  <2> QED BY <2>3, <2>4
<1>7. ClaimIsExclusive'
  BY DEF PaneInv, ClaimIsExclusive
<1> QED BY <1>3, <1>4, <1>5, <1>6, <1>7 DEF PaneInv
\* A step of the holder that leaves the pane and the status as they are.
LEMMA HolderGoesOn ==
  ASSUME PaneInv, NEW u \in Users, OnlyHolder(u), NEW at, NEW kind, NEW card, NEW attempt, NEW prior,
         UserMovesTo(u, at, kind, card, attempt, prior), claim' \in Users \union {Nobody}, at \notin Unclaimed => claim' = u,
         status' = status, shown' = shown, helpers' = helpers, running' = running,
         tried' = tried, refused' \in BOOLEAN,
         KindIsRight(u)' /\ TagIsSet(u)' /\ NothingElseRuns(u)'
  PROVE  PaneInv'
<1>1. PaneTypeOK'
  <2>1. PaneTypeOK
    BY DEF PaneInv
  <2> QED BY <2>1, PaneTyped DEF UserMovesTo, PaneTypeOK, StatusRecord, ShownRecord, HelperRecord, HelperPlaces,
                                 UserRecord, UserSet, Kinds, PanePhases, Terminal
<1>2. HelperIsShown' /\ RunningNames' /\ ShownIsRecorded'
  BY DEF PaneInv, HelperIsShown, RunningNames, ShownIsRecorded
<1> QED BY <1>1, <1>2, HolderMoves DEF UserMovesTo

\* What a user knows at its step.
LEMMA HolderHasClaim ==
  ASSUME PaneInv, NEW u \in Users
  PROVE  /\ PaneTypeOK /\ KindIsRight(u) /\ TagIsSet(u) /\ NothingElseRuns(u)
         /\ user[u].at \notin Unclaimed => OnlyHolder(u) /\ claim = u
BY DEF PaneInv, UsersAreInOrder, ClaimIsExclusive, OnlyHolder

\* The claim is taken, and leads to a step of its kind.
LEMMA TakeClaimKeeps ==
  ASSUME PaneInv, NEW u \in Users, NEW kind \in Kinds, NEW card \in Cards \union {Nobody}, NEW step \in UserSet,
         TakeClaim(u, kind, card, step),
         \/ step = "pend" /\ kind = "attach" /\ card \in Cards
         \/ step = "clear" /\ kind = "shell"
         \/ step = "source" /\ kind = "cycle"
         \/ step = "context" /\ kind = "review"
  PROVE  PaneInv'
<1> DEFINE s == [Resting EXCEPT !.at = step, !.kind = kind, !.card = card]
<1>1. Resting \in UserRecord
  BY AttemptsAssumption DEF Resting, UserRecord, UserSet, Kinds, StatusRecord, NoStatus, PanePhases
<1>2. s \in UserRecord
  BY <1>1 DEF UserRecord
<1>3. s.at = step /\ s.kind = kind /\ s.card = card /\ s.prior = NoStatus
  BY DEF Resting
<1>4. PaneTypeOK /\ OnlyHolder(u) /\ claim' = u
  BY DEF PaneInv, OnlyHolder, TakeClaim
<1>5. /\ status' = status /\ shown' = shown /\ helpers' = helpers /\ running' = running
      /\ tried' = tried /\ refused' \in BOOLEAN /\ user' = [user EXCEPT ![u] = s]
  BY <1>4, PaneTyped DEF TakeClaim
<1> HIDE DEF s
<1>6. UserMovesTo(u, step, kind, card, s.attempt, NoStatus)
  BY <1>2, <1>3, <1>4, <1>5, UserGoes
<1>7. NoStatus.phase # "running"
  BY DEF NoStatus
<1>8. KindIsRight(u)' /\ TagIsSet(u)' /\ NothingElseRuns(u)'
  BY <1>6, <1>7 DEF UserMovesTo, KindIsRight, TagIsSet, NothingElseRuns, KeepsPrior, Decided, Attaching
<1> QED BY <1>4, <1>5, <1>6, <1>8, HolderGoesOn

\* The claim is released.
LEMMA ReleaseClaimKeeps ==
  ASSUME PaneInv, NEW u \in Users, ReleaseClaim(u)
  PROVE  PaneInv'
<1>1. PaneTypeOK /\ OnlyHolder(u) /\ claim = u /\ claim' = Nobody
  BY HolderHasClaim DEF ReleaseClaim, UserAt, Unclaimed
<1>2. UserMovesTo(u, "idle", "none", Nobody, 0, NoStatus)
  BY <1>1, RestGoes DEF ReleaseClaim
<1>3. NoStatus.phase # "running"
  BY DEF NoStatus
<1>4. KindIsRight(u)' /\ TagIsSet(u)' /\ NothingElseRuns(u)'
  BY <1>2, <1>3 DEF UserMovesTo, KindIsRight, TagIsSet, NothingElseRuns, KeepsPrior, Decided, Attaching
<1> QED BY <1>1, <1>2, <1>4, PaneTyped, HolderGoesOn DEF ReleaseClaim, Unclaimed

\* A step of the holder of which only the step it is at is changed.
LEMMA HolderStepsOn ==
  ASSUME PaneInv, NEW u \in Users, NEW step \in UserSet, user[u].at \notin Unclaimed, step \notin Unclaimed,
         UserTo(u, step), UNCHANGED <<claim, status, shown, helpers, running, tried>>, refused' \in BOOLEAN,
         KindIsRight(u)' /\ TagIsSet(u)' /\ NothingElseRuns(u)'
  PROVE  PaneInv'
<1>1. /\ PaneTypeOK /\ OnlyHolder(u) /\ claim = u
      /\ UserMovesTo(u, step, user[u].kind, user[u].card, user[u].attempt, user[u].prior)
  BY HolderHasClaim, UserStepMoves
<1> QED BY <1>1, PaneTyped, HolderGoesOn

\* Nothing is owed at the release.
LEMMA ToRelease ==
  ASSUME PaneInv, NEW u \in Users, user[u].at \notin Unclaimed,
         UserTo(u, "release"), UNCHANGED <<claim, status, shown, helpers, running, tried>>, refused' \in BOOLEAN
  PROVE  PaneInv'
<1>1. UserMovesTo(u, "release", user[u].kind, user[u].card, user[u].attempt, user[u].prior) /\ KindIsRight(u)
  BY HolderHasClaim, UserStepMoves DEF UserSet
<1>2. KindIsRight(u)' /\ TagIsSet(u)' /\ NothingElseRuns(u)'
  BY <1>1 DEF UserMovesTo, KindIsRight, TagIsSet, NothingElseRuns, KeepsPrior, Decided
<1> QED BY <1>2, HolderStepsOn DEF UserSet, Unclaimed

\* A cycle starts from the Workstream that is shown.
LEMMA CycleSourceKeeps ==
  ASSUME PaneInv, NEW k \in Users, CycleSource(k)
  PROVE  PaneInv'
<1>1. k \in Users /\ user[k].at = "source" /\ user[k].at \notin Unclaimed
  BY DEF CycleSource, UserAt, Unclaimed
<1>2. /\ PaneTypeOK /\ OnlyHolder(k) /\ claim = k /\ KindIsRight(k) /\ refused' \in BOOLEAN
      /\ UNCHANGED <<claim, status, shown, helpers, running, tried>>
  BY <1>1, HolderHasClaim, PaneTyped DEF CycleSource
<1>3. CASE UserTo(k, "release")
  BY <1>1, <1>2, <1>3, ToRelease
<1>4. ASSUME NEW w \in running, user' = [user EXCEPT ![k].at = "prior", ![k].card = w]
      PROVE  PaneInv'
  <2>1. UserMovesTo(k, "prior", user[k].kind, w, user[k].attempt, user[k].prior)
    BY <1>1, <1>2, <1>4, PaneTyped, CardGoes DEF UserSet
  <2>2. user[k].kind = "cycle" /\ w \in Cards
    BY <1>1, <1>2, PaneTyped DEF KindIsRight
  <2>3. KindIsRight(k)' /\ TagIsSet(k)' /\ NothingElseRuns(k)'
    BY <1>1, <1>2, <2>1, <2>2 DEF UserMovesTo, KindIsRight, TagIsSet, NothingElseRuns, KeepsPrior, Decided
  <2> QED BY <1>1, <1>2, <2>1, <2>3, PaneTyped, HolderGoesOn
<1> QED BY <1>3, <1>4 DEF CycleSource

\* A cycle keeps the status that it may have to restore.
LEMMA CyclePriorKeeps ==
  ASSUME PaneInv, NEW k \in Users, CyclePrior(k)
  PROVE  PaneInv'
<1>1. k \in Users /\ user[k].at = "prior" /\ user[k].at \notin Unclaimed
  BY DEF CyclePrior, UserAt, Unclaimed
<1>2. /\ PaneTypeOK /\ OnlyHolder(k) /\ claim = k /\ KindIsRight(k) /\ refused' \in BOOLEAN
      /\ UNCHANGED <<claim, status, shown, helpers, running, tried>>
  BY <1>1, HolderHasClaim, PaneTyped DEF CyclePrior
<1>3. CASE ~(status.phase = "running" /\ status.card = shown.tag)
  BY <1>1, <1>2, <1>3, ToRelease DEF CyclePrior, UserTo
<1>4. CASE status.phase = "running" /\ status.card = shown.tag
  <2>1. user' = [user EXCEPT ![k].at = "pend", ![k].prior = status]
    BY <1>4 DEF CyclePrior
  <2>2. UserMovesTo(k, "pend", user[k].kind, user[k].card, user[k].attempt, status)
    BY <1>1, <1>2, <2>1, PaneTyped, PriorGoes DEF UserSet
  <2>3. user[k].kind = "cycle" /\ user[k].card \in Cards
    BY <1>1, <1>2 DEF KindIsRight
  <2>4. Shows(status.card) /\ status.card \in Cards
    BY <1>4 DEF PaneInv, RunningNames, ShownIsRecorded, Shows
  <2>5. KindIsRight(k)' /\ TagIsSet(k)' /\ NothingElseRuns(k)'
    BY <1>1, <1>2, <2>2, <2>3, <2>4
    DEF UserMovesTo, KindIsRight, TagIsSet, NothingElseRuns, KeepsPrior, Decided, Attaching, Shows
  <2> QED BY <1>1, <1>2, <2>2, <2>5, PaneTyped, HolderGoesOn
<1> QED BY <1>3, <1>4

\* A step of the holder that writes the status or the tag.
LEMMA HolderWrites ==
  ASSUME PaneInv, NEW u \in Users, OnlyHolder(u), NEW at, NEW kind, NEW card, NEW attempt, NEW prior,
         UserMovesTo(u, at, kind, card, attempt, prior), claim = u, claim' = claim, refused' = refused,
         status' \in StatusRecord, shown' \in ShownRecord, helpers' = helpers, running' = running,
         tried' \in 0..Attempts, shown'.what = shown.what, shown'.attempt = shown.attempt, shown'.dead = shown.dead,
         status'.phase = "running" => status'.card \in Cards,
         status'.phase = "running" /\ shown'.tag = status'.card => Shows(status'.card),
         KindIsRight(u)' /\ TagIsSet(u)' /\ NothingElseRuns(u)'
  PROVE  PaneInv'
<1>1. PaneTypeOK'
  <2>1. PaneTypeOK
    BY DEF PaneInv
  <2> QED BY <2>1, PaneTyped DEF UserMovesTo, PaneTypeOK, StatusRecord, ShownRecord, HelperRecord, HelperPlaces,
                                 UserRecord, UserSet, Kinds, PanePhases, Terminal
<1>2. HelperIsShown' /\ RunningNames'
  BY DEF PaneInv, HelperIsShown, RunningNames
<1>3. ShownIsRecorded'
  BY DEF ShownIsRecorded, Shows
<1> QED BY <1>1, <1>2, <1>3, HolderMoves DEF UserMovesTo

\* The pending status of an attempt is written before the pane is touched.
LEMMA WritePendingKeeps ==
  ASSUME PaneInv, NEW u \in Users, WritePending(u)
  PROVE  PaneInv'
<1>1. user[u].at = "pend" /\ user[u].at \notin Unclaimed
  BY DEF WritePending, UserAt, Unclaimed
<1>2. PaneTypeOK /\ OnlyHolder(u) /\ claim = u /\ KindIsRight(u) /\ NothingElseRuns(u)
  BY <1>1, HolderHasClaim
<1>3. PICK n \in 1..Attempts : n = tried + 1
  <2>1. tried \in 0..Attempts /\ tried < Attempts
    BY <1>2, PaneTyped DEF WritePending
  <2> QED BY <2>1, AttemptsAssumption
<1>4. UserMovesTo(u, "clear", user[u].kind, user[u].card, n, user[u].prior)
  <2>1. n \in 0..Attempts
    BY <1>3, AttemptsAssumption
  <2>2. user' = [user EXCEPT ![u].at = "clear", ![u].attempt = n]
    BY <1>3 DEF WritePending
  <2> QED BY <1>2, <2>1, <2>2, AttemptGoes DEF UserSet
<1>5. status' = [attempt |-> n, card |-> user[u].card, phase |-> "pending"]
  BY <1>3 DEF WritePending
<1>6. status' \in StatusRecord /\ status'.phase = "pending" /\ tried' \in 0..Attempts
  <2>1. user[u].card \in Cards \union {Nobody} /\ n \in 0..Attempts
    BY <1>2, <1>3, Fields, AttemptsAssumption
  <2> QED BY <1>3, <1>5, <2>1 DEF StatusRecord, PanePhases, WritePending
<1>7. user[u].kind \in Attaching /\ user[u].card \in Cards
  BY <1>1, <1>2 DEF KindIsRight
<1>8. /\ shown' = shown /\ helpers' = helpers /\ running' = running /\ claim' = claim /\ refused' = refused
  BY DEF WritePending
<1>9. KindIsRight(u)' /\ TagIsSet(u)' /\ NothingElseRuns(u)'
  BY <1>1, <1>2, <1>3, <1>4, <1>6, <1>7, <1>8
  DEF UserMovesTo, KindIsRight, TagIsSet, NothingElseRuns, KeepsPrior, Decided, Attaching, Shows
<1> QED BY <1>2, <1>4, <1>6, <1>8, <1>9, PaneTyped, HolderWrites

\* The tag is set or cleared.
LEMMA TagChanges ==
  ASSUME PaneTypeOK, NEW w \in Cards \union {Nobody}, shown' = [shown EXCEPT !.tag = w]
  PROVE  /\ shown' \in ShownRecord /\ shown'.tag = w
         /\ shown'.what = shown.what /\ shown'.attempt = shown.attempt /\ shown'.dead = shown.dead
BY PaneTyped DEF ShownRecord

\* The pane loses its tag before its process is replaced.
LEMMA ClearTagKeeps ==
  ASSUME PaneInv, NEW u \in Users, ClearTag(u)
  PROVE  PaneInv'
<1>1. user[u].at = "clear" /\ user[u].at \notin Unclaimed
  BY DEF ClearTag, UserAt, Unclaimed
<1>2. PaneTypeOK /\ OnlyHolder(u) /\ claim = u /\ KindIsRight(u) /\ NothingElseRuns(u)
  BY <1>1, HolderHasClaim
<1>3. PICK step \in UserSet :
        /\ UserTo(u, step)
        /\ step = CASE user[u].kind = "shell" -> "respawn" [] user[u].kind = "review" -> "unfile" [] OTHER -> "tag"
  BY DEF ClearTag, UserSet
<1>4. UserMovesTo(u, step, user[u].kind, user[u].card, user[u].attempt, user[u].prior)
  BY <1>2, <1>3, UserStepMoves
<1>5. /\ shown' \in ShownRecord /\ shown'.tag = Nobody
      /\ shown'.what = shown.what /\ shown'.attempt = shown.attempt /\ shown'.dead = shown.dead
  BY <1>2, TagChanges DEF ClearTag
<1>6. /\ status' = status /\ helpers' = helpers /\ running' = running /\ claim' = claim /\ refused' = refused
      /\ tried' = tried
  BY DEF ClearTag
<1>7. user[u].kind \in Attaching \union {"shell", "review"}
  BY <1>1, <1>2 DEF KindIsRight
<1>8. status.phase = "running" => status.card \in Cards /\ status.card # Nobody
  BY UsersAssumption DEF PaneInv, RunningNames
<1>9. KindIsRight(u)' /\ TagIsSet(u)' /\ NothingElseRuns(u)'
  BY <1>1, <1>2, <1>3, <1>4, <1>5, <1>6, <1>7
  DEF UserMovesTo, KindIsRight, TagIsSet, NothingElseRuns, KeepsPrior, Decided, Attaching, Shows
<1> QED BY <1>2, <1>4, <1>5, <1>6, <1>8, <1>9, PaneTyped, HolderWrites

\* The pane is tagged for the Workstream that is about to be shown.
LEMMA SetTagKeeps ==
  ASSUME PaneInv, NEW u \in Users, SetTag(u)
  PROVE  PaneInv'
<1>1. user[u].at = "tag" /\ user[u].at \notin Unclaimed
  BY DEF SetTag, UserAt, Unclaimed
<1>2. PaneTypeOK /\ OnlyHolder(u) /\ claim = u /\ KindIsRight(u) /\ NothingElseRuns(u)
  BY <1>1, HolderHasClaim
<1>3. UserMovesTo(u, "respawn", user[u].kind, user[u].card, user[u].attempt, user[u].prior)
  BY <1>2, UserStepMoves DEF SetTag, UserSet
<1>4. user[u].kind \in Attaching /\ user[u].card \in Cards
  BY <1>1, <1>2 DEF KindIsRight
<1>5. /\ shown' \in ShownRecord /\ shown'.tag = user[u].card
      /\ shown'.what = shown.what /\ shown'.attempt = shown.attempt /\ shown'.dead = shown.dead
  BY <1>2, <1>4, TagChanges DEF SetTag
<1>6. /\ status' = status /\ helpers' = helpers /\ running' = running /\ claim' = claim /\ refused' = refused
      /\ tried' = tried
  BY DEF SetTag
<1>7. status.phase = "running" => Shows(status.card) /\ status.card \in Cards
  BY <1>1, <1>2, <1>4 DEF NothingElseRuns, Decided, Attaching, PaneInv, RunningNames
<1>8. KindIsRight(u)' /\ TagIsSet(u)' /\ NothingElseRuns(u)'
  BY <1>1, <1>2, <1>3, <1>4, <1>5, <1>6
  DEF UserMovesTo, KindIsRight, TagIsSet, NothingElseRuns, KeepsPrior, Decided, Attaching, Shows
<1> QED BY <1>2, <1>3, <1>5, <1>6, <1>7, <1>8, PaneTyped, HolderWrites

\* tmux refuses a step of the replacement.
LEMMA ReplacementFailsKeeps ==
  ASSUME PaneInv, NEW u \in Users, ReplacementFails(u)
  PROVE  PaneInv'
<1>1. user[u].at \in {"clear", "tag", "respawn"} /\ user[u].at \notin Unclaimed /\ refused' \in BOOLEAN
  BY DEF ReplacementFails, Unclaimed
<1>2. PaneTypeOK /\ OnlyHolder(u) /\ claim = u /\ KindIsRight(u) /\ NothingElseRuns(u)
  BY <1>1, HolderHasClaim
<1>3. PICK step \in UserSet \ Unclaimed :
        /\ UserTo(u, step)
        /\ step = CASE user[u].kind = "shell" -> "release" [] user[u].kind = "review" -> "undo"
                    [] user[u].kind = "cycle" -> "restore" [] OTHER -> "fail"
  BY DEF ReplacementFails, UserSet, Unclaimed
<1>4. UserMovesTo(u, step, user[u].kind, user[u].card, user[u].attempt, user[u].prior)
  BY <1>2, <1>3, UserStepMoves
<1>5. UNCHANGED <<claim, status, shown, helpers, running, tried>>
  BY DEF ReplacementFails
<1>6. KindIsRight(u)' /\ TagIsSet(u)' /\ NothingElseRuns(u)'
  BY <1>1, <1>2, <1>3, <1>4, <1>5
  DEF UserMovesTo, KindIsRight, TagIsSet, NothingElseRuns, KeepsPrior, Decided, Attaching, Shows
<1> QED BY <1>1, <1>3, <1>5, <1>6, HolderStepsOn

\* The attempt that failed is recorded as failed.
LEMMA FinishFailedKeeps ==
  ASSUME PaneInv, NEW u \in Users, FinishFailed(u)
  PROVE  PaneInv'
<1>1. user[u].at = "fail" /\ user[u].at \notin Unclaimed
  BY DEF FinishFailed, UserAt, Unclaimed
<1>2. PaneTypeOK /\ OnlyHolder(u) /\ claim = u /\ KindIsRight(u)
  BY <1>1, HolderHasClaim
<1>3. UserMovesTo(u, "release", user[u].kind, user[u].card, user[u].attempt, user[u].prior)
  BY <1>2, UserStepMoves DEF FinishFailed, UserSet
<1>4. status' \in StatusRecord /\ status'.phase = "failed"
  <2>1. user[u].card \in Cards \union {Nobody} /\ user[u].attempt \in 0..Attempts
    BY <1>2, Fields
  <2> QED BY <2>1 DEF FinishFailed, StatusRecord, PanePhases
<1>5. /\ shown' = shown /\ helpers' = helpers /\ running' = running /\ claim' = claim /\ refused' = refused
      /\ tried' = tried
  BY DEF FinishFailed
<1>6. KindIsRight(u)' /\ TagIsSet(u)' /\ NothingElseRuns(u)'
  BY <1>2, <1>3 DEF UserMovesTo, KindIsRight, TagIsSet, NothingElseRuns, KeepsPrior, Decided
<1> QED BY <1>2, <1>3, <1>4, <1>5, <1>6, PaneTyped, HolderWrites

\* Killed leaves nothing running.
LEMMA KilledIsQuiet ==
  ASSUME PaneInv
  PROVE  \A n \in 1..Attempts : Killed[n] \in HelperRecord /\ Killed[n].at \in {"none", "gone"}
<1>1. \A n \in 1..Attempts : helpers[n] \in HelperRecord
  BY PaneTyped DEF PaneInv
<1>2. HelperGone \in HelperRecord /\ HelperGone.at = "gone"
  BY DEF HelperGone, NoHelper, HelperRecord, HelperPlaces
<1>3. \A n \in 1..Attempts : helpers[n].at \in {"none", "gone"} \/ (n = shown.attempt /\ shown.what = "helper")
  BY DEF PaneInv, HelperIsShown
<1> HIDE DEF HelperGone
<1> QED BY <1>1, <1>2, <1>3 DEF Killed

\* The pane gets the helper of the attempt.
LEMMA RespawnHelperKeeps ==
  ASSUME PaneInv, NEW u \in Users, RespawnHelper(u)
  PROVE  PaneInv'
<1>1. user[u].at = "respawn" /\ user[u].at \notin Unclaimed /\ user[u].kind \in Attaching
  BY DEF RespawnHelper, UserAt, Unclaimed, Attaching
<1>2. PaneTypeOK /\ OnlyHolder(u) /\ claim = u /\ KindIsRight(u) /\ TagIsSet(u)
  BY <1>1, HolderHasClaim
<1>3. user[u].card \in Cards /\ shown.tag = user[u].card
  BY <1>1, <1>2 DEF KindIsRight, TagIsSet
<1>4. PICK n \in 1..Attempts : n = user[u].attempt
  BY <1>1, <1>2 DEF KindIsRight
<1>5. UserMovesTo(u, "release", user[u].kind, user[u].card, user[u].attempt, user[u].prior)
  BY <1>2, UserStepMoves DEF RespawnHelper, UserSet
<1>6. /\ shown' \in ShownRecord /\ shown'.what = "helper" /\ shown'.attempt = n /\ ~shown'.dead /\ shown'.tag = shown.tag
  <2>1. shown \in ShownRecord /\ n \in 0..Attempts
    BY <1>2, PaneTyped, AttemptsAssumption
  <2>2. shown' = [shown EXCEPT !.what = "helper", !.attempt = n, !.dead = FALSE]
    BY <1>4 DEF RespawnHelper
  <2> QED BY <2>1, <2>2 DEF ShownRecord
<1>7. PICK h \in HelperRecord : /\ helpers' = [Killed EXCEPT ![n] = h]
                                /\ h.card = user[u].card /\ h.at = "started"
  <2> DEFINE new == [card |-> user[u].card, cycle |-> user[u].kind = "cycle", at |-> "started", result |-> "none"]
  <2>1. new \in HelperRecord
    BY <1>3 DEF HelperRecord, HelperPlaces
  <2> QED BY <1>4, <2>1 DEF RespawnHelper
<1>8. /\ helpers' \in [1..Attempts -> HelperRecord] /\ helpers'[n] = h
      /\ \A m \in 1..Attempts : m # n => helpers'[m].at \in {"none", "gone"}
  BY <1>7, KilledIsQuiet DEF Killed
<1>9. /\ status' = status /\ running' = running /\ claim' = claim /\ refused' = refused /\ tried' = tried
  BY DEF RespawnHelper
<1>10. PaneTypeOK'
  <2>1. /\ status' \in StatusRecord /\ running' \subseteq Cards /\ claim' \in Users \union {Nobody}
        /\ tried' \in 0..Attempts /\ refused' \in BOOLEAN
    BY <1>2, <1>9, PaneTyped
  <2> QED BY <1>5, <1>6, <1>8, <2>1 DEF UserMovesTo, PaneTypeOK, StatusRecord, ShownRecord, HelperRecord, HelperPlaces,
                                 UserRecord, UserSet, Kinds, PanePhases, Terminal
<1>11. HelperIsShown'
  BY <1>3, <1>6, <1>7, <1>8 DEF HelperIsShown
<1>12. ShownIsRecorded' /\ RunningNames'
  BY <1>3, <1>6, <1>7, <1>8, <1>9 DEF PaneInv, ShownIsRecorded, RunningNames
<1>13. KindIsRight(u)' /\ TagIsSet(u)' /\ NothingElseRuns(u)'
  BY <1>2, <1>5 DEF UserMovesTo, KindIsRight, TagIsSet, NothingElseRuns, KeepsPrior, Decided
<1> QED BY <1>2, <1>5, <1>9, <1>10, <1>11, <1>12, <1>13, HolderMoves DEF UserMovesTo

\* The pane gets a shell or a review.
LEMMA RespawnOtherKeeps ==
  ASSUME PaneInv, NEW u \in Users, RespawnOther(u)
  PROVE  PaneInv'
<1>1. user[u].at = "respawn" /\ user[u].at \notin Unclaimed /\ user[u].kind \in {"shell", "review"}
  BY DEF RespawnOther, UserAt, Unclaimed
<1>2. PaneTypeOK /\ OnlyHolder(u) /\ claim = u /\ KindIsRight(u) /\ TagIsSet(u)
  BY <1>1, HolderHasClaim
<1>3. shown.tag = Nobody
  BY <1>1, <1>2 DEF TagIsSet, Attaching
<1>4. UserMovesTo(u, "release", user[u].kind, user[u].card, user[u].attempt, user[u].prior)
  BY <1>2, UserStepMoves DEF RespawnOther, UserSet
<1>5. shown' \in ShownRecord /\ shown'.tag = Nobody
  <2>1. shown \in ShownRecord /\ 0 \in 0..Attempts
    BY <1>2, PaneTyped, AttemptsAssumption
  <2>2. shown' = [shown EXCEPT !.what = user[u].kind, !.attempt = 0, !.dead = FALSE]
    BY DEF RespawnOther
  <2> QED BY <1>1, <1>3, <2>1, <2>2 DEF ShownRecord
<1>6. /\ helpers' \in [1..Attempts -> HelperRecord]
      /\ \A m \in 1..Attempts : helpers'[m].at \in {"none", "gone"}
  BY KilledIsQuiet DEF Killed, RespawnOther
<1>7. /\ status' = status /\ running' = running /\ claim' = claim /\ refused' = refused /\ tried' = tried
  BY DEF RespawnOther
<1>8. PaneTypeOK'
  <2>1. /\ status' \in StatusRecord /\ running' \subseteq Cards /\ claim' \in Users \union {Nobody}
        /\ tried' \in 0..Attempts /\ refused' \in BOOLEAN
    BY <1>2, <1>7, PaneTyped
  <2> QED BY <1>4, <1>5, <1>6, <2>1 DEF UserMovesTo, PaneTypeOK, StatusRecord, ShownRecord, HelperRecord, HelperPlaces,
                                 UserRecord, UserSet, Kinds, PanePhases, Terminal
<1>9. HelperIsShown'
  BY <1>6 DEF HelperIsShown
<1>10. ShownIsRecorded' /\ RunningNames'
  BY <1>5, <1>7, UsersAssumption DEF PaneInv, ShownIsRecorded, RunningNames
<1>11. KindIsRight(u)' /\ TagIsSet(u)' /\ NothingElseRuns(u)'
  BY <1>2, <1>4 DEF UserMovesTo, KindIsRight, TagIsSet, NothingElseRuns, KeepsPrior, Decided
<1> QED BY <1>2, <1>4, <1>7, <1>8, <1>9, <1>10, <1>11, HolderMoves DEF UserMovesTo

\* A cycle that failed restores only what is still there.
LEMMA RestoreCheckKeeps ==
  ASSUME PaneInv, NEW u \in Users, RestoreCheck(u)
  PROVE  PaneInv'
<1>1. user[u].at = "restore" /\ user[u].at \notin Unclaimed /\ refused' \in BOOLEAN
  BY PaneTyped DEF PaneInv, RestoreCheck, UserAt, Unclaimed
<1>2. PaneTypeOK /\ OnlyHolder(u) /\ claim = u /\ KindIsRight(u) /\ NothingElseRuns(u)
  BY <1>1, HolderHasClaim
<1>3. UNCHANGED <<claim, status, shown, helpers, running, tried>>
  BY DEF RestoreCheck
<1>4. CASE UserTo(u, "release")
  BY <1>1, <1>3, <1>4, ToRelease
<1>5. CASE UserTo(u, "retag")
  <2>1. UserMovesTo(u, "retag", user[u].kind, user[u].card, user[u].attempt, user[u].prior)
    BY <1>2, <1>5, UserStepMoves DEF UserSet
  <2>2. KindIsRight(u)' /\ TagIsSet(u)' /\ NothingElseRuns(u)'
    BY <1>1, <1>2, <1>3, <2>1
    DEF UserMovesTo, KindIsRight, TagIsSet, NothingElseRuns, KeepsPrior, Decided, Attaching, Shows
  <2> QED BY <1>1, <1>3, <1>5, <2>2, HolderStepsOn DEF UserSet, Unclaimed
<1> QED BY <1>4, <1>5 DEF RestoreCheck

\* It restores the tag.
LEMMA RestoreTagKeeps ==
  ASSUME PaneInv, NEW u \in Users, RestoreTag(u)
  PROVE  PaneInv'
<1>1. user[u].at = "retag" /\ user[u].at \notin Unclaimed
  BY DEF RestoreTag, UserAt, Unclaimed
<1>2. PaneTypeOK /\ OnlyHolder(u) /\ claim = u /\ KindIsRight(u) /\ NothingElseRuns(u)
  BY <1>1, HolderHasClaim
<1>3. status' = status /\ helpers' = helpers /\ running' = running /\ claim' = claim /\ refused' = refused /\ tried' = tried
  BY DEF RestoreTag
<1>4. status.phase = "running" => Shows(status.card) /\ status.card \in Cards
  BY <1>1, <1>2 DEF NothingElseRuns, Decided, KindIsRight, PaneInv, RunningNames
<1>5. PICK step \in {"refile", "release"} : UserTo(u, step)
  BY DEF RestoreTag
<1>6. UserMovesTo(u, step, user[u].kind, user[u].card, user[u].attempt, user[u].prior)
  BY <1>2, <1>5, UserStepMoves DEF UserSet
<1>7. shown' = shown \/ \E w \in Cards \union {Nobody} : shown' = [shown EXCEPT !.tag = w]
  <2>1. user[u].prior.card \in Cards \union {Nobody}
    BY <1>2, Fields DEF StatusRecord
  <2> QED BY <2>1 DEF RestoreTag
<1>8. /\ shown' \in ShownRecord
      /\ shown'.what = shown.what /\ shown'.attempt = shown.attempt /\ shown'.dead = shown.dead
  BY <1>2, <1>7, TagChanges, PaneTyped
<1>9. KindIsRight(u)' /\ TagIsSet(u)' /\ NothingElseRuns(u)'
  BY <1>1, <1>2, <1>3, <1>5, <1>6, <1>8
  DEF UserMovesTo, KindIsRight, TagIsSet, NothingElseRuns, KeepsPrior, Decided, Attaching, Shows
<1> QED BY <1>2, <1>3, <1>4, <1>6, <1>8, <1>9, PaneTyped, HolderWrites

\* It restores the status, which its helper still earns.
LEMMA RestoreStatusKeeps ==
  ASSUME PaneInv, NEW u \in Users, RestoreStatus(u)
  PROVE  PaneInv'
<1>1. user[u].at = "refile" /\ user[u].at \notin Unclaimed
  BY DEF RestoreStatus, UserAt, Unclaimed
<1>2. PaneTypeOK /\ OnlyHolder(u) /\ claim = u /\ KindIsRight(u) /\ NothingElseRuns(u)
  BY <1>1, HolderHasClaim
<1>3. UserMovesTo(u, "release", user[u].kind, user[u].card, user[u].attempt, user[u].prior)
  BY <1>2, UserStepMoves DEF RestoreStatus, UserSet
<1>4. status' = user[u].prior /\ status' \in StatusRecord
  BY <1>2, Fields DEF RestoreStatus
<1>5. status'.phase = "running" => status'.card \in Cards /\ Shows(status'.card)
  BY <1>1, <1>2, <1>4 DEF KindIsRight, NothingElseRuns, KeepsPrior
<1>6. /\ shown' = shown /\ helpers' = helpers /\ running' = running /\ claim' = claim /\ refused' = refused
      /\ tried' = tried
  BY DEF RestoreStatus
<1>7. KindIsRight(u)' /\ TagIsSet(u)' /\ NothingElseRuns(u)'
  BY <1>2, <1>3 DEF UserMovesTo, KindIsRight, TagIsSet, NothingElseRuns, KeepsPrior, Decided
<1> QED BY <1>2, <1>3, <1>4, <1>5, <1>6, <1>7, PaneTyped, HolderWrites

-----------------------------------------------------------------------------

\* A review reads what it would replace.
LEMMA ReviewContextKeeps ==
  ASSUME PaneInv, ReviewContext
  PROVE  PaneInv'
<1> DEFINE u == Navigator
<1>1. u \in Users /\ user[u].at = "context" /\ user[u].at \notin Unclaimed
  BY DEF ReviewContext, UserAt, Unclaimed, Users
<1>2. PaneTypeOK /\ OnlyHolder(u) /\ claim = u /\ KindIsRight(u) /\ user[u].kind = "review"
  BY <1>1, HolderHasClaim DEF KindIsRight
<1>3. /\ shown' = shown /\ helpers' = helpers /\ running' = running /\ claim' = claim /\ refused' = refused
      /\ tried' = tried
  BY DEF ReviewContext
<1>4. status' \in StatusRecord /\ (status' = status \/ status'.phase = "failed")
  <2>1. status \in StatusRecord
    BY <1>2, PaneTyped
  <2>2. status' = status \/ status' = [status EXCEPT !.phase = "failed"]
    BY DEF ReviewContext
  <2> QED BY <2>1, <2>2 DEF StatusRecord, PanePhases
<1>5. status'.phase = "running" => status'.card \in Cards
  BY <1>4 DEF PaneInv, RunningNames
<1>6. status'.phase = "running" /\ shown'.tag = status'.card => Shows(status'.card)
  BY <1>3, <1>4 DEF PaneInv, ShownIsRecorded, Shows
<1>7. PICK step \in {"previous", "prove", "release"}, w \in Cards \union {Nobody} :
        /\ UserMovesTo(u, step, "review", w, user[u].attempt, user[u].prior)
        /\ step # "release" => status'.phase # "running"
  <2>1. CASE shown.tag = Nobody /\ status' = NoStatus
    <3>1. user' = [user EXCEPT ![u].at = "previous"]
      BY <2>1 DEF ReviewContext
    <3>2. UserMovesTo(u, "previous", user[u].kind, user[u].card, user[u].attempt, user[u].prior)
      BY <1>1, <1>2, <3>1, UserStepMoves DEF UserTo, UserSet
    <3>3. status'.phase = "none" /\ user[u].card \in Cards \union {Nobody}
      BY <1>1, <1>2, <2>1, Fields DEF NoStatus
    <3> QED BY <1>2, <3>2, <3>3
  <2>2. CASE shown.tag # Nobody /\ status'.card = shown.tag /\ status'.phase \in Terminal
    <3>1. user' = [user EXCEPT ![u].at = "prove", ![u].card = shown.tag]
      BY <2>2 DEF ReviewContext
    <3>2. UserMovesTo(u, "prove", user[u].kind, shown.tag, user[u].attempt, user[u].prior) /\ shown.tag \in Cards \union {Nobody}
      BY <1>1, <1>2, <3>1, CardGoes, Fields DEF UserSet
    <3> QED BY <1>2, <2>2, <3>2 DEF Terminal
  <2>3. CASE /\ ~(shown.tag = Nobody /\ status' = NoStatus)
             /\ ~(shown.tag # Nobody /\ status'.card = shown.tag /\ status'.phase \in Terminal)
    <3>1. user' = [user EXCEPT ![u].at = "release"]
      BY <2>3 DEF ReviewContext
    <3>2. UserMovesTo(u, "release", user[u].kind, user[u].card, user[u].attempt, user[u].prior)
      BY <1>1, <1>2, <3>1, UserStepMoves DEF UserTo, UserSet
    <3>3. user[u].card \in Cards \union {Nobody}
      BY <1>1, <1>2, Fields
    <3> QED BY <1>2, <3>2, <3>3
  <2> QED BY <2>1, <2>2, <2>3
<1>8. KindIsRight(u)' /\ TagIsSet(u)' /\ NothingElseRuns(u)'
  BY <1>1, <1>2, <1>7 DEF UserMovesTo, KindIsRight, TagIsSet, NothingElseRuns, KeepsPrior, Decided
<1> HIDE DEF u
<1> QED BY <1>1, <1>2, <1>3, <1>4, <1>5, <1>6, <1>7, <1>8, PaneTyped, HolderWrites

\* A review proves that the Runtime it would hide is parked.
LEMMA ProveStoppedKeeps ==
  ASSUME PaneInv, ProveStopped
  PROVE  PaneInv'
<1> DEFINE u == Navigator
<1>1. u \in Users /\ user[u].at = "prove" /\ user[u].at \notin Unclaimed
  BY DEF ProveStopped, UserAt, Unclaimed, Users
<1>2. PaneTypeOK /\ OnlyHolder(u) /\ claim = u /\ KindIsRight(u) /\ NothingElseRuns(u) /\ refused' \in BOOLEAN
  BY <1>1, HolderHasClaim, PaneTyped DEF ProveStopped
<1>3. UNCHANGED <<claim, status, shown, helpers, running, tried>>
  BY DEF ProveStopped
<1>4. CASE UserTo(u, "release")
  BY <1>1, <1>2, <1>3, <1>4, ToRelease
<1>5. CASE UserTo(u, "previous")
  <2>1. UserMovesTo(u, "previous", user[u].kind, user[u].card, user[u].attempt, user[u].prior)
    BY <1>1, <1>2, <1>5, UserStepMoves DEF UserSet
  <2>2. KindIsRight(u)' /\ TagIsSet(u)' /\ NothingElseRuns(u)'
    BY <1>1, <1>2, <1>3, <2>1
    DEF UserMovesTo, KindIsRight, TagIsSet, NothingElseRuns, KeepsPrior, Decided, Attaching, Shows
  <2> QED BY <1>1, <1>2, <1>3, <1>5, <2>2, HolderStepsOn DEF UserSet, Unclaimed
<1> QED BY <1>4, <1>5 DEF ProveStopped

\* A review keeps the status that it may have to restore.
LEMMA ReadPreviousKeeps ==
  ASSUME PaneInv, ReadPrevious
  PROVE  PaneInv'
<1> DEFINE u == Navigator
<1>1. u \in Users /\ user[u].at = "previous" /\ user[u].at \notin Unclaimed
  BY DEF ReadPrevious, UserAt, Unclaimed, Users
<1>2. /\ PaneTypeOK /\ OnlyHolder(u) /\ claim = u /\ KindIsRight(u) /\ NothingElseRuns(u)
      /\ user[u].kind = "review"
  BY <1>1, HolderHasClaim DEF KindIsRight
<1>3. /\ status' = status /\ shown' = shown /\ helpers' = helpers /\ running' = running
      /\ claim' = claim /\ refused' = refused /\ tried' = tried
  BY DEF ReadPrevious
<1>4. UserMovesTo(u, "clear", user[u].kind, user[u].card, user[u].attempt, status)
  BY <1>1, <1>2, PaneTyped, PriorGoes DEF ReadPrevious, UserSet
<1>5. status.phase = "running" => Shows(status.card) /\ status.card \in Cards
  BY <1>1, <1>2 DEF NothingElseRuns, Decided, PaneInv, RunningNames
<1>6. KindIsRight(u)' /\ TagIsSet(u)' /\ NothingElseRuns(u)'
  BY <1>1, <1>2, <1>3, <1>4, <1>5
  DEF UserMovesTo, KindIsRight, TagIsSet, NothingElseRuns, KeepsPrior, Decided, Attaching, Shows
<1> HIDE DEF u
<1> QED BY <1>1, <1>2, <1>3, <1>4, <1>6, PaneTyped, HolderGoesOn

\* A review takes the status away.
LEMMA UnfileStatusKeeps ==
  ASSUME PaneInv, UnfileStatus
  PROVE  PaneInv'
<1> DEFINE u == Navigator
<1>1. u \in Users /\ user[u].at = "unfile" /\ user[u].at \notin Unclaimed
  BY DEF UnfileStatus, UserAt, Unclaimed, Users
<1>2. /\ PaneTypeOK /\ OnlyHolder(u) /\ claim = u /\ KindIsRight(u) /\ NothingElseRuns(u) /\ TagIsSet(u)
      /\ user[u].kind = "review" /\ shown.tag = Nobody
  BY <1>1, HolderHasClaim DEF KindIsRight, TagIsSet
<1>3. /\ shown' = shown /\ helpers' = helpers /\ running' = running
      /\ claim' = claim /\ refused' = refused /\ tried' = tried
  BY DEF UnfileStatus
<1>4. PICK step \in {"respawn", "undo"} : UserTo(u, step)
  BY DEF UnfileStatus
<1>5. UserMovesTo(u, step, user[u].kind, user[u].card, user[u].attempt, user[u].prior)
  BY <1>1, <1>2, <1>4, UserStepMoves DEF UserSet
<1>6. status' \in StatusRecord /\ (status' = status \/ status'.phase = "none")
  <2>1. NoStatus \in StatusRecord /\ NoStatus.phase = "none"
    BY AttemptsAssumption DEF NoStatus, StatusRecord, PanePhases
  <2> QED BY <1>2, <2>1, PaneTyped DEF UnfileStatus
<1>7. status'.phase = "running" => status'.card \in Cards /\ Shows(status'.card)
  BY <1>1, <1>2, <1>6 DEF PaneInv, RunningNames, NothingElseRuns, Decided
<1>8. KindIsRight(u)' /\ TagIsSet(u)' /\ NothingElseRuns(u)'
  BY <1>1, <1>2, <1>3, <1>5, <1>6, <1>7
  DEF UserMovesTo, KindIsRight, TagIsSet, NothingElseRuns, KeepsPrior, Decided, Attaching, Shows
<1> HIDE DEF u
<1> QED BY <1>1, <1>2, <1>3, <1>5, <1>6, <1>7, <1>8, PaneTyped, HolderWrites

\* A review that failed restores the tag.
LEMMA UndoReviewKeeps ==
  ASSUME PaneInv, UndoReview
  PROVE  PaneInv'
<1> DEFINE u == Navigator
<1>1. u \in Users /\ user[u].at = "undo" /\ user[u].at \notin Unclaimed
  BY DEF UndoReview, UserAt, Unclaimed, Users
<1>2. /\ PaneTypeOK /\ OnlyHolder(u) /\ claim = u /\ KindIsRight(u) /\ NothingElseRuns(u)
      /\ user[u].kind = "review"
  BY <1>1, HolderHasClaim DEF KindIsRight
<1>3. /\ status' = status /\ helpers' = helpers /\ running' = running
      /\ claim' = claim /\ refused' = refused /\ tried' = tried
  BY DEF UndoReview
<1>4. UserMovesTo(u, "undo_status", user[u].kind, user[u].card, user[u].attempt, user[u].prior)
  BY <1>1, <1>2, UserStepMoves DEF UndoReview, UserSet
<1>5. /\ shown' \in ShownRecord
      /\ shown'.what = shown.what /\ shown'.attempt = shown.attempt /\ shown'.dead = shown.dead
  <2>1. user[u].card \in Cards \union {Nobody}
    BY <1>1, <1>2, Fields
  <2> QED BY <1>2, <2>1, TagChanges DEF UndoReview
<1>6. status.phase = "running" => Shows(status.card) /\ status.card \in Cards
  BY <1>1, <1>2 DEF NothingElseRuns, Decided, PaneInv, RunningNames
<1>7. KindIsRight(u)' /\ TagIsSet(u)' /\ NothingElseRuns(u)'
  BY <1>1, <1>2, <1>3, <1>4, <1>5, <1>6
  DEF UserMovesTo, KindIsRight, TagIsSet, NothingElseRuns, KeepsPrior, Decided, Attaching, Shows
<1> HIDE DEF u
<1> QED BY <1>1, <1>2, <1>3, <1>4, <1>5, <1>6, <1>7, PaneTyped, HolderWrites

\* It restores the status.
LEMMA UndoReviewStatusKeeps ==
  ASSUME PaneInv, UndoReviewStatus
  PROVE  PaneInv'
<1> DEFINE u == Navigator
<1>1. u \in Users /\ user[u].at = "undo_status" /\ user[u].at \notin Unclaimed
  BY DEF UndoReviewStatus, UserAt, Unclaimed, Users
<1>2. /\ PaneTypeOK /\ OnlyHolder(u) /\ claim = u /\ KindIsRight(u) /\ NothingElseRuns(u)
      /\ user[u].kind = "review"
  BY <1>1, HolderHasClaim DEF KindIsRight
<1>3. /\ shown' = shown /\ helpers' = helpers /\ running' = running
      /\ claim' = claim /\ refused' = refused /\ tried' = tried
  BY DEF UndoReviewStatus
<1>4. UserMovesTo(u, "release", user[u].kind, user[u].card, user[u].attempt, user[u].prior)
  BY <1>1, <1>2, UserStepMoves DEF UndoReviewStatus, UserSet
<1>5. status' \in StatusRecord /\ (status' = status \/ status' = user[u].prior)
  BY <1>1, <1>2, Fields, PaneTyped DEF UndoReviewStatus
<1>6. /\ status'.phase = "running" => status'.card \in Cards
      /\ status'.phase = "running" /\ shown'.tag = status'.card => Shows(status'.card)
  BY <1>1, <1>2, <1>3, <1>5
  DEF NothingElseRuns, KeepsPrior, KindIsRight, PaneInv, RunningNames, ShownIsRecorded, Shows
<1>7. KindIsRight(u)' /\ TagIsSet(u)' /\ NothingElseRuns(u)'
  BY <1>2, <1>4 DEF UserMovesTo, KindIsRight, TagIsSet, NothingElseRuns, KeepsPrior, Decided
<1> HIDE DEF u
<1> QED BY <1>1, <1>2, <1>3, <1>4, <1>5, <1>6, <1>7, PaneTyped, HolderWrites

-----------------------------------------------------------------------------

\* A step of a user without the claim.
LEMMA BystanderGoes ==
  ASSUME PaneInv, NEW u \in Users, NEW at \in Unclaimed, NEW kind, NEW card, NEW attempt, NEW prior,
         UserMovesTo(u, at, kind, card, attempt, prior), prior.phase = "running" => prior.card \in Cards,
         status' \in StatusRecord, status' = status \/ status'.phase # "running",
         UNCHANGED <<claim, shown, helpers, running, tried>>, refused' \in BOOLEAN
  PROVE  PaneInv'
<1>1. PaneTypeOK'
  <2>1. PaneTypeOK
    BY DEF PaneInv
  <2> QED BY <2>1, PaneTyped DEF UserMovesTo, PaneTypeOK, StatusRecord, ShownRecord, HelperRecord, HelperPlaces,
                                 UserRecord, UserSet, Kinds, PanePhases, Terminal
<1>2. /\ \A v \in Users : v # u => user'[v] = user[v]
      /\ user'[u].at \in Unclaimed /\ (user'[u].prior.phase = "running" => user'[u].prior.card \in Cards)
  BY DEF UserMovesTo
<1> QED BY <1>1, <1>2, BystanderMoves

\* A status read without the claim.
LEMMA ReadStatusKeeps ==
  ASSUME PaneInv, NEW u \in Users, ReadStatus(u)
  PROVE  PaneInv'
<1> DEFINE s == [Resting EXCEPT !.at = "look", !.kind = "literal", !.prior = status]
<1>1. Resting \in UserRecord
  BY AttemptsAssumption DEF Resting, UserRecord, UserSet, Kinds, StatusRecord, NoStatus, PanePhases
<1>2. PaneTypeOK /\ status \in StatusRecord /\ status.phase = "pending" /\ refused \in BOOLEAN
  BY PaneTyped DEF PaneInv, ReadStatus
<1>3. s \in UserRecord
  BY <1>1, <1>2 DEF UserRecord, UserSet, Kinds
<1>4. s.at = "look" /\ s.prior = status
  BY DEF Resting
<1>5. user' = [user EXCEPT ![u] = s] /\ UNCHANGED <<claim, status, shown, helpers, running, tried, refused>>
  BY DEF ReadStatus
<1> HIDE DEF s
<1>6. PICK at \in Unclaimed : UserMovesTo(u, at, s.kind, s.card, s.attempt, status)
  BY <1>2, <1>3, <1>4, <1>5, UserGoes DEF Unclaimed
<1> QED BY <1>2, <1>5, <1>6, BystanderGoes

\* A pane looked at without the claim.
LEMMA ProbePaneKeeps ==
  ASSUME PaneInv, NEW u \in Users, ProbePane(u)
  PROVE  PaneInv'
<1>1. /\ PaneTypeOK /\ status \in StatusRecord /\ refused \in BOOLEAN /\ KindIsRight(u)
      /\ UNCHANGED <<claim, status, shown, helpers, running, tried, refused>>
  BY PaneTyped, HolderHasClaim DEF PaneInv, ProbePane
<1>2. CASE shown.dead
  <2>1. UserTo(u, "mark")
    BY <1>2 DEF ProbePane, UserTo
  <2>2. PICK at \in Unclaimed : UserMovesTo(u, at, user[u].kind, user[u].card, user[u].attempt, user[u].prior)
    BY <1>1, <2>1, UserStepMoves DEF Unclaimed, UserSet
  <2> QED BY <1>1, <2>2, BystanderGoes DEF KindIsRight
<1>3. CASE ~shown.dead
  <2>1. PICK at \in Unclaimed : UserMovesTo(u, at, "none", Nobody, 0, NoStatus)
    BY <1>1, <1>3, RestGoes DEF ProbePane, Unclaimed
  <2>2. NoStatus.phase # "running"
    BY DEF NoStatus
  <2> QED BY <1>1, <2>1, <2>2, BystanderGoes
<1> QED BY <1>2, <1>3

\* A pending status whose pane was dead is written back as failed.
LEMMA MarkFailedKeeps ==
  ASSUME PaneInv, NEW u \in Users, MarkFailed(u)
  PROVE  PaneInv'
<1>1. /\ PaneTypeOK /\ refused \in BOOLEAN /\ user[u].prior \in StatusRecord
      /\ UNCHANGED <<claim, shown, helpers, running, tried, refused>>
  BY PaneTyped, Fields DEF PaneInv, MarkFailed
<1>2. status' \in StatusRecord /\ status'.phase = "failed"
  BY <1>1 DEF MarkFailed, StatusRecord, PanePhases
<1>3. PICK at \in Unclaimed : UserMovesTo(u, at, "none", Nobody, 0, NoStatus)
  BY <1>1, RestGoes DEF MarkFailed, Unclaimed
<1>4. NoStatus.phase # "running"
  BY DEF NoStatus
<1> QED BY <1>1, <1>2, <1>3, <1>4, BystanderGoes

\* A key that dies loses the claim with it.
LEMMA KeyDiesKeeps ==
  ASSUME PaneInv, NEW u \in Users, KeyDies(u)
  PROVE  PaneInv'
<1>1. /\ PaneTypeOK /\ status \in StatusRecord /\ refused' \in BOOLEAN /\ KindIsRight(u)
      /\ UNCHANGED <<claim, status, shown, helpers, running, tried>>
  BY PaneTyped, HolderHasClaim DEF PaneInv, KeyDies
<1>2. PICK at \in Unclaimed : UserMovesTo(u, at, user[u].kind, user[u].card, user[u].attempt, user[u].prior)
  BY <1>1, UserStepMoves DEF Unclaimed, UserSet, KeyDies
<1> QED BY <1>1, <1>2, BystanderGoes DEF KindIsRight

\* The environment moves.
LEMMA ParkOrStartKeeps ==
  ASSUME PaneInv, NEW w \in Cards, ParkOrStart(w)
  PROVE  PaneInv'
<1>1. UNCHANGED <<claim, status, shown, helpers, user, tried, refused>> /\ running' \subseteq Cards
  BY PaneTyped DEF ParkOrStart, PaneInv
<1>2. PaneTypeOK'
  BY <1>1 DEF PaneInv, PaneTypeOK
<1> QED
  BY <1>1, <1>2 DEF PaneInv, ClaimIsExclusive, HelperIsShown, RunningNames, UsersAreInOrder, ShownIsRecorded,
                    KindIsRight, TagIsSet, NothingElseRuns, KeepsPrior, Shows

\* The process of a review ends.
LEMMA ReviewEndsKeeps ==
  ASSUME PaneInv, ReviewEnds
  PROVE  PaneInv'
<1>1. UNCHANGED <<claim, status, helpers, running, user, tried, refused>> /\ PaneTypeOK
  BY DEF ReviewEnds, PaneInv
<1>2. /\ shown' \in ShownRecord /\ shown'.dead /\ shown'.what = "review" /\ shown'.tag = shown.tag
      /\ shown.what = "review"
  BY <1>1, PaneTyped DEF ReviewEnds, ShownRecord
<1>3. PaneTypeOK'
  BY <1>1, <1>2 DEF PaneTypeOK, ShownRecord
<1>4. HelperIsShown'
  BY <1>1, <1>2 DEF PaneInv, HelperIsShown
<1>5. ShownIsRecorded' /\ ClaimIsExclusive' /\ RunningNames'
  BY <1>1, <1>2 DEF PaneInv, ShownIsRecorded, ClaimIsExclusive, RunningNames
<1>6. UsersAreInOrder'
  BY <1>1, <1>2 DEF PaneInv, UsersAreInOrder, KindIsRight, TagIsSet, NothingElseRuns, KeepsPrior, Shows
<1> QED BY <1>3, <1>4, <1>5, <1>6 DEF PaneInv

-----------------------------------------------------------------------------

\* The state of a helper that moves on, or exits.
LEMMA HelperGoesTo ==
  ASSUME PaneTypeOK, NEW n \in 1..Attempts, NEW step \in HelperPlaces, HelperTo(n, step)
  PROVE  /\ helpers' \in [1..Attempts -> HelperRecord]
         /\ helpers'[n].at = step /\ helpers'[n].card = helpers[n].card /\ helpers'[n].result = helpers[n].result
         /\ \A m \in 1..Attempts : m # n => helpers'[m] = helpers[m]
<1>1. helpers \in [1..Attempts -> HelperRecord] /\ helpers[n] \in HelperRecord
  BY PaneTyped
<1>2. helpers' = [helpers EXCEPT ![n].at = step]
  BY DEF HelperTo
<1> QED BY <1>1, <1>2 DEF HelperRecord

\* Only helper n moves.
LEMMA HelperEndsAs ==
  ASSUME PaneTypeOK, NEW n \in 1..Attempts, NEW step \in HelperPlaces, NEW result \in Terminal \union {"none"},
         helpers' = [helpers EXCEPT ![n].at = step, ![n].result = result]
  PROVE  /\ helpers' \in [1..Attempts -> HelperRecord]
         /\ helpers'[n].at = step /\ helpers'[n].card = helpers[n].card /\ helpers'[n].result = result
         /\ \A m \in 1..Attempts : m # n => helpers'[m] = helpers[m]
<1>1. helpers \in [1..Attempts -> HelperRecord] /\ helpers[n] \in HelperRecord
  BY PaneTyped
<1> QED BY <1>1 DEF HelperRecord

\* A helper that exits leaves a dead pane of its attempt.
LEMMA HelperExits ==
  ASSUME PaneInv, NEW n \in 1..Attempts, helpers[n].at \notin {"none", "gone"}, Exits(n)
  PROVE  /\ helpers' \in [1..Attempts -> HelperRecord] /\ helpers'[n].at = "gone"
         /\ \A m \in 1..Attempts : m # n => helpers'[m] = helpers[m]
         /\ shown' \in ShownRecord /\ shown'.dead
         /\ shown'.what = shown.what /\ shown'.attempt = shown.attempt /\ shown'.tag = shown.tag
<1>1. PaneTypeOK /\ shown.what = "helper" /\ shown.attempt = n
  BY DEF PaneInv, HelperIsShown
<1>2. HelperGone \in HelperRecord /\ HelperGone.at = "gone"
  BY DEF HelperGone, NoHelper, HelperRecord, HelperPlaces
<1>3. helpers' = [helpers EXCEPT ![n] = HelperGone] /\ shown' = [shown EXCEPT !.dead = TRUE]
  BY <1>1 DEF Exits
<1> HIDE DEF HelperGone
<1>4. helpers' \in [1..Attempts -> HelperRecord] /\ helpers'[n].at = "gone"
      /\ \A m \in 1..Attempts : m # n => helpers'[m] = helpers[m]
  BY <1>1, <1>2, <1>3, PaneTyped
<1>5. /\ shown' \in ShownRecord /\ shown'.dead
      /\ shown'.what = shown.what /\ shown'.attempt = shown.attempt /\ shown'.tag = shown.tag
  BY <1>1, <1>3, PaneTyped DEF ShownRecord
<1> QED BY <1>4, <1>5

\* The types after the step of a helper.
LEMMA HelperKeepsTypes ==
  ASSUME PaneTypeOK, helpers' \in [1..Attempts -> HelperRecord], shown' \in ShownRecord, status' \in StatusRecord,
         UNCHANGED <<claim, running, user, tried>>, refused' \in BOOLEAN
  PROVE  PaneTypeOK'
<1>1. /\ claim' \in Users \union {Nobody} /\ running' \subseteq Cards /\ user' \in [Users -> UserRecord]
      /\ tried' \in 0..Attempts
  BY PaneTyped
<1> QED
  BY <1>1 DEF PaneTypeOK, StatusRecord, ShownRecord, HelperRecord, HelperPlaces, UserRecord, UserSet, Kinds, PanePhases, Terminal

\* A helper that goes on changes no status.
LEMMA HelperGoesOn ==
  ASSUME PaneInv, NEW n \in 1..Attempts, helpers[n].at \notin {"none", "gone"}, shown' = shown,
         helpers' \in [1..Attempts -> HelperRecord], helpers'[n].card = helpers[n].card,
         helpers'[n].at \in {"ended", "report_end"} => helpers'[n].result \in Terminal,
         \A m \in 1..Attempts : m # n => helpers'[m] = helpers[m],
         status' \in StatusRecord, status' = status \/ status'.card = helpers[n].card,
         UNCHANGED <<claim, running, user, tried>>, refused' = refused
  PROVE  PaneInv'
<1>1. PaneTypeOK'
  <2>1. PaneTypeOK /\ shown' \in ShownRecord /\ refused' \in BOOLEAN
    BY PaneTyped DEF PaneInv
  <2> QED BY <2>1, HelperKeepsTypes
<1> QED BY <1>1, HelperMoves

\* A helper that exits reports for its own Workstream only.
LEMMA HelperLeaves ==
  ASSUME PaneInv, NEW n \in 1..Attempts, helpers[n].at \notin {"none", "gone"}, Exits(n),
         status' \in StatusRecord, status' = status \/ status'.card = helpers[n].card,
         UNCHANGED <<claim, running, user, tried>>, refused' \in BOOLEAN
  PROVE  PaneInv'
<1>1. PaneTypeOK'
  <2>1. PaneTypeOK
    BY DEF PaneInv
  <2> QED BY <2>1, HelperExits, HelperKeepsTypes
<1> QED BY <1>1, HelperExits, HelperMoves

\* The helper of a cycle prepares its attachment.
LEMMA PrepareCycleKeeps ==
  ASSUME PaneInv, NEW n \in 1..Attempts, PrepareCycle(n)
  PROVE  PaneInv'
<1>1. /\ PaneTypeOK /\ status \in StatusRecord /\ helpers[n].at \notin {"none", "gone"}
      /\ UNCHANGED <<claim, status, shown, running, user, tried, refused>>
  BY PaneTyped DEF PaneInv, PrepareCycle, HelperAt
<1>2. CASE HelperTo(n, "prepared")
  <2>1. /\ helpers' \in [1..Attempts -> HelperRecord]
        /\ helpers'[n].at = "prepared" /\ helpers'[n].card = helpers[n].card
        /\ \A m \in 1..Attempts : m # n => helpers'[m] = helpers[m]
    BY <1>1, <1>2, HelperGoesTo DEF HelperPlaces
  <2> QED BY <1>1, <2>1, HelperGoesOn
<1>3. CASE helpers' = [helpers EXCEPT ![n].at = "unready", ![n].result = "failed"]
  <2>1. /\ helpers' \in [1..Attempts -> HelperRecord]
        /\ helpers'[n].at = "unready" /\ helpers'[n].card = helpers[n].card
        /\ \A m \in 1..Attempts : m # n => helpers'[m] = helpers[m]
    BY <1>1, <1>3, HelperEndsAs DEF HelperPlaces, Terminal
  <2> QED BY <1>1, <2>1, HelperGoesOn
<1> QED BY <1>2, <1>3 DEF PrepareCycle

\* A helper reads the status that it is about to report in.
LEMMA ReadReportKeeps ==
  ASSUME PaneInv, NEW n \in 1..Attempts, NEW steps, NEW phase, NEW next \in HelperPlaces,
         ReadReport(n, steps, phase, next), "none" \notin steps, "gone" \notin steps,
         next \in {"ended", "report_end"} => helpers[n].result \in Terminal
  PROVE  PaneInv'
<1>1. /\ PaneTypeOK /\ status \in StatusRecord /\ helpers[n].at \notin {"none", "gone"} /\ refused' \in BOOLEAN
      /\ UNCHANGED <<claim, status, running, user, tried, refused>>
  BY PaneTyped DEF PaneInv, ReadReport
<1>2. CASE HelperTo(n, next) /\ UNCHANGED shown
  <2>1. /\ helpers' \in [1..Attempts -> HelperRecord]
        /\ helpers'[n].at = next /\ helpers'[n].card = helpers[n].card /\ helpers'[n].result = helpers[n].result
        /\ \A m \in 1..Attempts : m # n => helpers'[m] = helpers[m]
    BY <1>1, <1>2, HelperGoesTo
  <2> QED BY <1>1, <1>2, <2>1, HelperGoesOn
<1>3. CASE Exits(n)
  BY <1>1, <1>3, HelperLeaves
<1> QED BY <1>2, <1>3 DEF ReadReport

\* What a helper reports is typed and of its own Workstream.
LEMMA WriteReportTypes ==
  ASSUME PaneInv, NEW n \in 1..Attempts, NEW step \in HelperPlaces \ {"none", "gone"}, NEW phase \in PanePhases,
         WriteReport(n, step, phase)
  PROVE  /\ PaneTypeOK /\ helpers[n].at = step /\ helpers[n].at \notin {"none", "gone"}
         /\ status' \in StatusRecord /\ status'.card = helpers[n].card /\ refused' \in BOOLEAN
         /\ UNCHANGED <<claim, running, user, tried, refused>>
<1>1. PaneTypeOK /\ refused \in BOOLEAN
  BY PaneTyped DEF PaneInv
<1>2. helpers[n].card \in Cards \union {Nobody} /\ n \in 0..Attempts
  BY <1>1, Fields, AttemptsAssumption
<1> QED BY <1>1, <1>2 DEF WriteReport, HelperAt, StatusRecord

\* A helper reports that it runs.
LEMMA ReportRunningKeeps ==
  ASSUME PaneInv, NEW n \in 1..Attempts, ReportRunning(n)
  PROVE  PaneInv'
<1>1. CASE ReadReport(n, {"started"}, "pending", "report_running") \/ ReadReport(n, {"prepared"}, "pending", "report_running")
  BY <1>1, ReadReportKeeps DEF HelperPlaces
<1>2. CASE WriteReport(n, "report_running", "running") /\ HelperTo(n, "attach") /\ UNCHANGED shown
  <2>1. /\ PaneTypeOK /\ helpers[n].at \notin {"none", "gone"}
        /\ status' \in StatusRecord /\ status'.card = helpers[n].card
        /\ UNCHANGED <<claim, running, user, tried, refused>>
    BY <1>2, WriteReportTypes DEF HelperPlaces, PanePhases
  <2>2. /\ helpers' \in [1..Attempts -> HelperRecord]
        /\ helpers'[n].at = "attach" /\ helpers'[n].card = helpers[n].card
        /\ \A m \in 1..Attempts : m # n => helpers'[m] = helpers[m]
    BY <1>2, <2>1, HelperGoesTo DEF HelperPlaces
  <2> QED BY <1>2, <2>1, <2>2, HelperGoesOn
<1> QED BY <1>1, <1>2 DEF ReportRunning

\* A helper reports that its Runtime is not ready.
LEMMA ReportUnreadyKeeps ==
  ASSUME PaneInv, NEW n \in 1..Attempts, ReportUnready(n)
  PROVE  PaneInv'
<1>1. CASE ReadReport(n, {"unready"}, "pending", "report_unready")
  BY <1>1, ReadReportKeeps DEF HelperPlaces
<1>2. CASE WriteReport(n, "report_unready", "failed") /\ Exits(n)
  <2>1. /\ helpers[n].at \notin {"none", "gone"} /\ status' \in StatusRecord /\ status'.card = helpers[n].card
        /\ UNCHANGED <<claim, running, user, tried>> /\ refused' \in BOOLEAN
    BY <1>2, WriteReportTypes DEF HelperPlaces, PanePhases
  <2> QED BY <1>2, <2>1, HelperLeaves
<1> QED BY <1>1, <1>2 DEF ReportUnready

\* The native client starts, or returns.
LEMMA AttachNativeKeeps ==
  ASSUME PaneInv, NEW n \in 1..Attempts, AttachNative(n) \/ NativeReturns(n)
  PROVE  PaneInv'
<1>1. /\ PaneTypeOK /\ status \in StatusRecord /\ helpers[n].at \notin {"none", "gone"}
      /\ UNCHANGED <<claim, status, shown, running, user, tried, refused>>
  BY PaneTyped DEF PaneInv, AttachNative, NativeReturns, HelperAt
<1>2. CASE HelperTo(n, "native")
  <2>1. /\ helpers' \in [1..Attempts -> HelperRecord]
        /\ helpers'[n].at = "native" /\ helpers'[n].card = helpers[n].card
        /\ \A m \in 1..Attempts : m # n => helpers'[m] = helpers[m]
    BY <1>1, <1>2, HelperGoesTo DEF HelperPlaces
  <2> QED BY <1>1, <2>1, HelperGoesOn
<1>3. ASSUME NEW result \in Terminal, helpers' = [helpers EXCEPT ![n].at = "ended", ![n].result = result]
      PROVE  PaneInv'
  <2>1. /\ helpers' \in [1..Attempts -> HelperRecord]
        /\ helpers'[n].at = "ended" /\ helpers'[n].card = helpers[n].card /\ helpers'[n].result = result
        /\ \A m \in 1..Attempts : m # n => helpers'[m] = helpers[m]
    BY <1>1, <1>3, HelperEndsAs DEF HelperPlaces
  <2> QED BY <1>1, <2>1, HelperGoesOn
<1> QED BY <1>2, <1>3 DEF AttachNative, NativeReturns

\* A helper reports how its attachment ended.
LEMMA ReportEndKeeps ==
  ASSUME PaneInv, NEW n \in 1..Attempts, ReportEnd(n)
  PROVE  PaneInv'
<1>1. helpers[n].at \in {"ended", "report_end"} => helpers[n].result \in Terminal
  BY DEF PaneInv, HelperIsShown
<1>2. CASE ReadReport(n, {"ended"}, "running", "report_end")
  <2>1. helpers[n].result \in Terminal
    BY <1>1, <1>2 DEF ReadReport
  <2> QED BY <1>2, <2>1, ReadReportKeeps DEF HelperPlaces
<1>3. CASE /\ WriteReport(n, "report_end", helpers[n].result)
           /\ helpers' = [helpers EXCEPT ![n].at = "waiting", ![n].result = "none"]
           /\ UNCHANGED shown
  <2>1. helpers[n].result \in PanePhases
    BY <1>1, <1>3 DEF WriteReport, HelperAt, Terminal, PanePhases
  <2>2. /\ PaneTypeOK /\ helpers[n].at \notin {"none", "gone"}
        /\ status' \in StatusRecord /\ status'.card = helpers[n].card
        /\ UNCHANGED <<claim, running, user, tried, refused>>
    BY <1>3, <2>1, WriteReportTypes DEF HelperPlaces
  <2>3. /\ helpers' \in [1..Attempts -> HelperRecord]
        /\ helpers'[n].at = "waiting" /\ helpers'[n].card = helpers[n].card
        /\ \A m \in 1..Attempts : m # n => helpers'[m] = helpers[m]
    BY <1>3, <2>2, HelperEndsAs DEF HelperPlaces
  <2> QED BY <1>3, <2>2, <2>3, HelperGoesOn
<1> QED BY <1>2, <1>3 DEF ReportEnd

\* A helper dies without a report.
LEMMA HelperDiesKeeps ==
  ASSUME PaneInv, NEW n \in 1..Attempts, HelperDies(n)
  PROVE  PaneInv'
<1>1. status' \in StatusRecord /\ status' = status
  BY PaneTyped DEF PaneInv, HelperDies
<1> QED BY <1>1, HelperLeaves DEF HelperDies

-----------------------------------------------------------------------------

\* What a user may begin.
LEMMA BeginKeeps ==
  ASSUME PaneInv, BeginAttach \/ BeginShell \/ BeginReview \/ \E k \in Keys : BeginCycle(k)
  PROVE  PaneInv'
<1>1. Navigator \in Users /\ Keys \subseteq Users
  BY DEF Users
<1>2. CASE BeginAttach
  <2>1. PICK w \in Cards : TakeClaim(Navigator, "attach", w, "pend")
    BY <1>2 DEF BeginAttach
  <2> QED BY <1>1, <2>1, TakeClaimKeeps DEF UserSet, Kinds
<1>3. CASE BeginShell
  BY <1>1, <1>3, TakeClaimKeeps DEF BeginShell, UserSet, Kinds
<1>4. CASE BeginReview
  BY <1>1, <1>4, TakeClaimKeeps DEF BeginReview, UserSet, Kinds
<1>5. CASE \E k \in Keys : BeginCycle(k)
  BY <1>1, <1>5, TakeClaimKeeps DEF BeginCycle, UserSet, Kinds
<1> QED BY <1>2, <1>3, <1>4, <1>5

\* Every step keeps PaneInv.
LEMMA PaneStep ==
  ASSUME PaneInv, [PaneNext]_paneVars
  PROVE  PaneInv'
<1>1. CASE UNCHANGED paneVars
  BY <1>1 DEF paneVars, PaneInv, PaneTypeOK, ClaimIsExclusive, HelperIsShown, RunningNames, UsersAreInOrder,
              ShownIsRecorded, KindIsRight, TagIsSet, NothingElseRuns, KeepsPrior, Shows
<1>2. CASE BeginAttach \/ BeginShell \/ BeginReview \/ \E k \in Keys : BeginCycle(k)
  BY <1>2, BeginKeeps
<1>3. CASE ReviewSteps
  BY <1>3, ReviewContextKeeps, ProveStoppedKeeps, ReadPreviousKeeps, UnfileStatusKeeps, UndoReviewKeeps,
     UndoReviewStatusKeeps DEF ReviewSteps
<1>4. CASE ReviewEnds
  BY <1>4, ReviewEndsKeeps
<1>5. ASSUME NEW k \in Keys, ReadStatus(k) \/ KeyDies(k)
      PROVE  PaneInv'
  BY <1>5, ReadStatusKeeps, KeyDiesKeeps DEF Users
<1>6. ASSUME NEW u \in Users, UserSteps(u) \/ ReplacementFails(u)
      PROVE  PaneInv'
  BY <1>6, ReleaseClaimKeeps, CycleSourceKeeps, CyclePriorKeeps, WritePendingKeeps, ClearTagKeeps, SetTagKeeps,
     RespawnHelperKeeps, RespawnOtherKeeps, FinishFailedKeeps, RestoreCheckKeeps, RestoreTagKeeps, RestoreStatusKeeps,
     ProbePaneKeeps, MarkFailedKeeps, ReplacementFailsKeeps DEF UserSteps
<1>7. ASSUME NEW n \in 1..Attempts, HelperStep(n) \/ NativeReturns(n) \/ HelperDies(n)
      PROVE  PaneInv'
  BY <1>7, PrepareCycleKeeps, ReportRunningKeeps, ReportUnreadyKeeps, AttachNativeKeeps, ReportEndKeeps, HelperDiesKeeps
  DEF HelperStep
<1>8. ASSUME NEW w \in Cards, ParkOrStart(w)
      PROVE  PaneInv'
  BY <1>8, ParkOrStartKeeps
<1> QED BY <1>1, <1>2, <1>3, <1>4, <1>5, <1>6, <1>7, <1>8 DEF PaneNext

\* Nothing is shown at first.
LEMMA PaneStart ==
  ASSUME PaneInit
  PROVE  PaneInv
<1>1. 0 \in 0..Attempts /\ NoStatus \in StatusRecord /\ NoStatus.phase = "none"
  BY AttemptsAssumption DEF StatusRecord, NoStatus, PanePhases
<1>2. NoHelper \in HelperRecord /\ NoHelper.at = "none"
  BY DEF NoHelper, HelperRecord, HelperPlaces
<1>3. Resting \in UserRecord /\ Resting.at = "idle" /\ Resting.prior = NoStatus /\ Resting.kind = "none"
  BY <1>1 DEF Resting, UserRecord, UserSet, Kinds
<1>4. shown \in ShownRecord
  BY <1>1 DEF PaneInit, ShownRecord
<1> HIDE DEF NoStatus, NoHelper, Resting
<1>5. PaneTypeOK
  <2>1. /\ claim \in Users \union {Nobody} /\ status \in StatusRecord
        /\ helpers \in [1..Attempts -> HelperRecord] /\ running \subseteq Cards
        /\ user \in [Users -> UserRecord] /\ tried \in 0..Attempts /\ refused \in BOOLEAN
    BY <1>1, <1>2, <1>3 DEF PaneInit
  <2> QED BY <1>4, <2>1, PaneTyped
<1>6. ClaimIsExclusive /\ HelperIsShown /\ RunningNames /\ ShownIsRecorded
  BY <1>1, <1>2, <1>3 DEF PaneInit, ClaimIsExclusive, HelperIsShown, RunningNames, ShownIsRecorded, Unclaimed
<1>7. UsersAreInOrder
  BY <1>1, <1>3 DEF PaneInit, UsersAreInOrder, KindIsRight, TagIsSet, NothingElseRuns, KeepsPrior, Decided
<1> QED BY <1>5, <1>6, <1>7 DEF PaneInv

\* PaneInv is an inductive invariant of the provider pane.
LEMMA PaneInvariant == PaneSpec => []PaneInv
BY PaneStart, PaneStep, PTL DEF PaneSpec

\* A live pane that is tagged with the Workstream of a running status shows the
\* helper of that Workstream, for any number of keys, Workstreams and attempts,
\* and whatever tmux refuses: the process a literal C-b goes to is the one the
\* status names (attach_workstream_claimed, restore_cycle_precommit,
\* start_observer_review).
THEOREM LiteralGoesToTheRecorded == PaneSpec => []ShownIsRecorded
BY PaneInvariant, PTL DEF PaneInv

\* The provider pane, its status and its helpers keep their types.
THEOREM PaneKeepsTypes == PaneSpec => []PaneTypeOK
BY PaneInvariant, PTL DEF PaneInv

-----------------------------------------------------------------------------
(* The safety half of AttemptsSettle.  While nothing is refused and nobody  *)
(* dies, the claim is held by somebody who is at work under it, and an      *)
(* attempt that is pending is waited for: by the user who prepares its      *)
(* pane, or by the helper in the pane, at a step before its report.  Only   *)
(* the shell takes the pane from an attempt that is pending.                *)

Failing == {"fail", "restore", "retag", "refile"}
UnderReview == {"clear", "unfile", "respawn", "undo", "undo_status"}
BeforeReport == {"started", "prepared", "report_running", "unready", "report_unready"}

Prepares(u) == user[u].kind \in Attaching /\ user[u].at \in {"clear", "tag", "respawn"}

HelperAnswers ==
  /\ shown.what = "helper" /\ shown.attempt = status.attempt /\ ~shown.dead
  /\ status.attempt \in 1..Attempts /\ helpers[status.attempt].at \in BeforeReport

\* The attempt a user prepares is the pending one, and a review finds none.
UserHolds(u) ==
  /\ claim = u => user[u].at \notin Unclaimed
  /\ user[u].at \notin Failing
  /\ Prepares(u) /\ status.phase = "pending" => status.attempt = user[u].attempt
  /\ user[u].kind = "review" /\ user[u].at \in UnderReview \union {"prove", "previous"} => status.phase # "pending"
  /\ user[u].kind = "review" /\ user[u].at \in UnderReview => user[u].prior.phase # "pending"

PendingIsHeld == status.phase = "pending" =>
  shown.what = "shell" \/ HelperAnswers \/ \E u \in Users : Prepares(u)

HeldInv == ~refused => PendingIsHeld /\ \A u \in Users : UserHolds(u)

\* The pane and the attempt in it stay.
PaneStays == /\ status' = status /\ helpers' = helpers
             /\ shown'.what = shown.what /\ shown'.attempt = shown.attempt /\ shown'.dead = shown.dead

\* A step of one user, who goes to the given state.
LEMMA HeldMoves ==
  ASSUME PaneInv, HeldInv, ~refused, NEW u \in Users, NEW at, NEW kind, NEW card, NEW attempt, NEW prior,
         UserMovesTo(u, at, kind, card, attempt, prior),
         claim' \in {claim, Nobody, u}, claim' = u => at \notin Unclaimed, at \notin Failing,
         OnlyHolder(u) \/ status' = status \/ status'.phase # "pending",
         kind \in Attaching /\ at \in {"clear", "tag", "respawn"} /\ status'.phase = "pending" => status'.attempt = attempt,
         kind = "review" /\ at \in UnderReview \union {"prove", "previous"} => status'.phase # "pending",
         kind = "review" /\ at \in UnderReview => prior.phase # "pending",
         status'.phase = "pending" => \/ PaneStays /\ ~Prepares(u)
                                      \/ kind \in Attaching /\ at \in {"clear", "tag", "respawn"}
                                      \/ HelperAnswers' \/ shown'.what = "shell"
  PROVE  HeldInv'
<1>1. PendingIsHeld /\ \A v \in Users : UserHolds(v)
  BY DEF HeldInv
<1>2. UserHolds(u)'
  BY DEF UserMovesTo, UserHolds, Prepares
<1>3. ASSUME NEW v \in Users, v # u PROVE UserHolds(v)'
  <2>1. user'[v] = user[v] /\ UserHolds(v) /\ v # Nobody
    BY <1>1, <1>3, UsersAssumption DEF UserMovesTo, Users
  <2>2. claim' = v => claim = v
    BY <1>3, <2>1
  <2>3. CASE OnlyHolder(u)
    <3>1. user[v].at \in Unclaimed
      BY <1>3, <2>3, OthersAreUnclaimed
    <3> QED BY <2>1, <2>2, <3>1 DEF UserHolds, Prepares, Unclaimed, Failing, UnderReview
  <2>4. CASE status' = status \/ status'.phase # "pending"
    BY <2>1, <2>2, <2>4 DEF UserHolds, Prepares
  <2> QED BY <2>3, <2>4
<1>4. PendingIsHeld'
  <2> SUFFICES ASSUME status'.phase = "pending", PaneStays, ~Prepares(u), shown'.what # "shell", ~HelperAnswers'
               PROVE  \E v \in Users : Prepares(v)'
    BY DEF PendingIsHeld, Prepares, UserMovesTo
  <2>1. ~HelperAnswers
    BY DEF HelperAnswers, PaneStays
  <2>2. PICK v \in Users : Prepares(v)
    BY <1>1, <2>1 DEF PendingIsHeld, PaneStays
  <2>3. Prepares(v)'
    BY <2>2 DEF Prepares, UserMovesTo
  <2> QED BY <2>3
<1> QED BY <1>2, <1>3, <1>4 DEF HeldInv

\* A user begins something under the claim.
LEMMA BeginHolds ==
  ASSUME PaneInv, HeldInv, ~refused, NEW u \in Users, NEW kind \in Kinds, NEW card \in Cards \union {Nobody}, NEW step \in UserSet,
         TakeClaim(u, kind, card, step),
         \/ step = "pend" /\ kind = "attach"
         \/ step = "clear" /\ kind = "shell"
         \/ step = "source" /\ kind = "cycle"
         \/ step = "context" /\ kind = "review"
  PROVE  HeldInv'
<1> DEFINE s == [Resting EXCEPT !.at = step, !.kind = kind, !.card = card]
<1>1. Resting \in UserRecord
  BY AttemptsAssumption DEF Resting, UserRecord, UserSet, Kinds, StatusRecord, NoStatus, PanePhases
<1>2. s \in UserRecord
  BY <1>1 DEF UserRecord
<1>3. s.at = step /\ s.kind = kind
  BY DEF Resting
<1>4. PaneTypeOK /\ user' = [user EXCEPT ![u] = s] /\ claim' = u /\ PaneStays
  BY DEF TakeClaim, PaneInv, PaneStays
<1> HIDE DEF s
<1>5. UserMovesTo(u, step, kind, s.card, s.attempt, s.prior)
  BY <1>2, <1>3, <1>4, UserGoes
<1>6. ~Prepares(u)
  BY DEF TakeClaim, UserAt, Prepares
<1> QED BY <1>4, <1>5, <1>6, HeldMoves DEF PaneStays, Unclaimed, Failing, UnderReview, Attaching

\* A step of which the user knows where it goes, and that leaves the pane.
LEMMA HolderHolds ==
  ASSUME PaneInv, HeldInv, ~refused, NEW u \in Users, user[u].at \notin Unclaimed, ~Prepares(u),
         NEW at, NEW kind, NEW card, NEW attempt, NEW prior,
         UserMovesTo(u, at, kind, card, attempt, prior), claim' = claim, PaneStays,
         at \notin Unclaimed \union Failing, at \in {"clear", "tag", "respawn"} => kind \notin Attaching,
         kind = "review" /\ at \in UnderReview \union {"prove", "previous"} => status.phase # "pending",
         kind = "review" /\ at \in UnderReview => prior.phase # "pending"
  PROVE  HeldInv'
BY HeldMoves DEF PaneStays

\* The steps of an attachment and of a cycle.
LEMMA AttachHolds ==
  ASSUME PaneInv, HeldInv, ~refused, NEW u \in Users,
         CycleSource(u) \/ CyclePrior(u) \/ WritePending(u) \/ SetTag(u) \/ RespawnHelper(u)
  PROVE  HeldInv'
<1>1. PaneTypeOK /\ KindIsRight(u) /\ UserHolds(u)
  BY HolderHasClaim DEF HeldInv
<1>2. CASE CycleSource(u)
  <2>1. user[u].at = "source" /\ PaneStays /\ claim' = claim /\ user[u].kind = "cycle"
    BY <1>1, <1>2 DEF CycleSource, UserAt, PaneStays, KindIsRight
  <2>2. PICK at \in {"prior", "release"}, w \in Cards \union {Nobody} :
          UserMovesTo(u, at, user[u].kind, w, user[u].attempt, user[u].prior)
    <3>1. CASE UserTo(u, "release")
      BY <1>1, <3>1, UserStepMoves, Fields DEF UserSet
    <3>2. ASSUME NEW w \in running, user' = [user EXCEPT ![u].at = "prior", ![u].card = w]
          PROVE  UserMovesTo(u, "prior", user[u].kind, w, user[u].attempt, user[u].prior) /\ w \in Cards
      BY <1>1, <3>2, CardGoes, PaneTyped DEF UserSet
    <3> QED BY <1>2, <3>1, <3>2 DEF CycleSource
  <2> QED BY <2>1, <2>2, HolderHolds DEF Unclaimed, Failing, Prepares, UnderReview
<1>3. CASE CyclePrior(u)
  <2>1. user[u].at = "prior" /\ PaneStays /\ claim' = claim /\ user[u].kind = "cycle"
    BY <1>1, <1>3 DEF CyclePrior, UserAt, PaneStays, KindIsRight
  <2>2. PICK at \in {"pend", "release"}, p \in StatusRecord :
          UserMovesTo(u, at, user[u].kind, user[u].card, user[u].attempt, p)
    <3>1. CASE status.phase = "running" /\ status.card = shown.tag
      BY <1>1, <1>3, <3>1, PriorGoes, PaneTyped DEF CyclePrior, UserSet
    <3>2. CASE ~(status.phase = "running" /\ status.card = shown.tag)
      BY <1>1, <1>3, <3>2, UserStepMoves, Fields DEF CyclePrior, UserTo, UserSet
    <3> QED BY <3>1, <3>2
  <2> QED BY <2>1, <2>2, HolderHolds DEF Unclaimed, Failing, Prepares, UnderReview
<1>4. CASE WritePending(u)
  <2>1. user[u].at = "pend" /\ user[u].at \notin Unclaimed /\ OnlyHolder(u) /\ user[u].kind \in Attaching
    BY <1>1, <1>4, HolderHasClaim DEF WritePending, UserAt, Unclaimed, KindIsRight
  <2>2. PICK n \in 0..Attempts : n = tried + 1
    BY <1>1, <1>4, PaneTyped, AttemptsAssumption DEF WritePending
  <2>3. /\ UserMovesTo(u, "clear", user[u].kind, user[u].card, n, user[u].prior)
        /\ status'.attempt = n /\ claim' = claim
    BY <1>1, <1>4, <2>2, AttemptGoes DEF WritePending, UserSet
  <2> QED BY <2>1, <2>3, HeldMoves DEF Unclaimed, Failing, Attaching
<1>5. CASE SetTag(u)
  <2>1. user[u].at = "tag" /\ user[u].kind \in Attaching /\ status' = status /\ claim' = claim
    BY <1>1, <1>5 DEF SetTag, UserAt, KindIsRight
  <2>2. UserMovesTo(u, "respawn", user[u].kind, user[u].card, user[u].attempt, user[u].prior)
    BY <1>1, <1>5, UserStepMoves DEF SetTag, UserSet
  <2>3. status.phase = "pending" => status.attempt = user[u].attempt
    BY <1>1, <2>1 DEF UserHolds, Prepares
  <2> QED BY <2>1, <2>2, <2>3, HeldMoves DEF Unclaimed, Failing, Attaching
<1>6. CASE RespawnHelper(u)
  <2>1. user[u].at = "respawn" /\ user[u].kind \in Attaching /\ status' = status /\ claim' = claim
    BY <1>6 DEF RespawnHelper, UserAt, Attaching
  <2>2. UserMovesTo(u, "release", user[u].kind, user[u].card, user[u].attempt, user[u].prior)
    BY <1>1, <1>6, UserStepMoves DEF RespawnHelper, UserSet
  <2>3. PICK n \in 1..Attempts : n = user[u].attempt
    BY <1>1, <2>1 DEF KindIsRight
  <2>4. /\ shown'.what = "helper" /\ shown'.attempt = n /\ ~shown'.dead
        /\ helpers'[n].at = "started"
    BY <1>1, <1>6, <2>3, PaneTyped DEF RespawnHelper, ShownRecord, Killed
  <2>5. status.phase = "pending" => status.attempt = n
    BY <1>1, <2>1, <2>3 DEF UserHolds, Prepares
  <2>6. status'.phase = "pending" => HelperAnswers'
    BY <2>1, <2>3, <2>4, <2>5 DEF HelperAnswers, BeforeReport
  <2> QED BY <2>1, <2>2, <2>6, HeldMoves DEF Unclaimed, Failing, UnderReview
<1> QED BY <1>2, <1>3, <1>4, <1>5, <1>6

\* The steps that every kind of replacement takes, and the shell's and review's.
LEMMA ReplaceHolds ==
  ASSUME PaneInv, HeldInv, ~refused, NEW u \in Users,
         ReleaseClaim(u) \/ ClearTag(u) \/ RespawnOther(u)
  PROVE  HeldInv'
<1>1. PaneTypeOK /\ KindIsRight(u) /\ UserHolds(u)
  BY HolderHasClaim DEF HeldInv
<1>2. CASE ReleaseClaim(u)
  <2>1. user[u].at = "release" /\ PaneStays /\ claim' \in {claim, Nobody} /\ claim' # u
    BY <1>2, UsersAssumption DEF ReleaseClaim, UserAt, PaneStays, Users
  <2>2. UserMovesTo(u, "idle", "none", Nobody, 0, NoStatus)
    BY <1>1, <1>2, RestGoes DEF ReleaseClaim
  <2> QED BY <2>1, <2>2, HeldMoves DEF PaneStays, Prepares, Failing, UnderReview, Attaching
<1>3. CASE ClearTag(u)
  <2>1. user[u].at = "clear" /\ user[u].kind \in Attaching \union {"shell", "review"} /\ claim' = claim
    BY <1>1, <1>3 DEF ClearTag, UserAt, KindIsRight
  <2>2. PaneStays
    BY <1>1, <1>3, PaneTyped DEF ClearTag, PaneStays, ShownRecord
  <2>3. PICK at \in {"respawn", "unfile", "tag"} :
          /\ UserMovesTo(u, at, user[u].kind, user[u].card, user[u].attempt, user[u].prior)
          /\ user[u].kind \in Attaching => at = "tag"
    <3>1. CASE user[u].kind = "shell"
      BY <1>1, <1>3, <3>1, UserStepMoves DEF ClearTag, UserSet, Attaching
    <3>2. CASE user[u].kind = "review"
      BY <1>1, <1>3, <3>2, UserStepMoves DEF ClearTag, UserSet, Attaching
    <3>3. CASE user[u].kind \in Attaching
      BY <1>1, <1>3, <3>3, UserStepMoves DEF ClearTag, UserSet, Attaching
    <3> QED BY <2>1, <3>1, <3>2, <3>3
  <2>4. status.phase = "pending" /\ user[u].kind \in Attaching => status.attempt = user[u].attempt
    BY <1>1, <2>1 DEF UserHolds, Prepares
  <2>5. user[u].kind = "review" => status.phase # "pending" /\ user[u].prior.phase # "pending"
    BY <1>1, <2>1 DEF UserHolds, UnderReview
  <2>6. at \notin Unclaimed \union Failing
    BY <2>3 DEF Unclaimed, Failing
  <2>7. Prepares(u) => user[u].kind \in Attaching
    BY DEF Prepares
  <2> QED BY <2>1, <2>2, <2>3, <2>4, <2>5, <2>6, <2>7, HeldMoves DEF PaneStays
<1>4. CASE RespawnOther(u)
  <2>1. user[u].at = "respawn" /\ user[u].kind \in {"shell", "review"} /\ status' = status /\ claim' = claim
    BY <1>4 DEF RespawnOther, UserAt
  <2>2. UserMovesTo(u, "release", user[u].kind, user[u].card, user[u].attempt, user[u].prior)
    BY <1>1, <1>4, UserStepMoves DEF RespawnOther, UserSet
  <2>3. shown'.what = user[u].kind
    BY <1>1, <1>4, PaneTyped DEF RespawnOther, ShownRecord
  <2>4. user[u].kind = "review" => status.phase # "pending"
    BY <1>1, <2>1 DEF UserHolds, UnderReview
  <2> QED BY <2>1, <2>2, <2>3, <2>4, HeldMoves DEF Unclaimed, Failing, UnderReview
<1> QED BY <1>2, <1>3, <1>4

\* The steps of a review.
LEMMA ReviewHolds ==
  ASSUME PaneInv, HeldInv, ~refused, ReviewSteps
  PROVE  HeldInv'
<1> DEFINE u == Navigator
<1>1. u \in Users /\ PaneTypeOK /\ KindIsRight(u) /\ UserHolds(u)
  BY HolderHasClaim DEF HeldInv, Users
<1>2. user[u].kind = "review" /\ ~Prepares(u) /\ user[u].at \notin Unclaimed /\ OnlyHolder(u) /\ claim' = claim
  <2>1. user[u].at \in {"context", "prove", "previous", "unfile", "undo", "undo_status"}
    BY DEF ReviewSteps, ReviewContext, ProveStopped, ReadPrevious, UnfileStatus, UndoReview, UndoReviewStatus, UserAt
  <2>2. claim' = claim
    BY DEF ReviewSteps, ReviewContext, ProveStopped, ReadPrevious, UnfileStatus, UndoReview, UndoReviewStatus
  <2> QED BY <1>1, <2>1, <2>2, HolderHasClaim DEF KindIsRight, Prepares, Unclaimed, Attaching
<1>3. CASE ReviewContext
  <2>1. PICK step \in {"previous", "prove", "release"}, w \in Cards \union {Nobody} :
          /\ UserMovesTo(u, step, "review", w, user[u].attempt, user[u].prior)
          /\ step # "release" => status'.phase # "pending"
    <3>1. CASE shown.tag = Nobody /\ status' = NoStatus
      <4>1. user' = [user EXCEPT ![u].at = "previous"]
        BY <1>3, <3>1 DEF ReviewContext
      <4>2. UserMovesTo(u, "previous", user[u].kind, user[u].card, user[u].attempt, user[u].prior)
        BY <1>1, <4>1, UserStepMoves DEF UserTo, UserSet
      <4> QED BY <1>1, <1>2, <3>1, <4>2, Fields DEF NoStatus
    <3>2. CASE shown.tag # Nobody /\ status'.card = shown.tag /\ status'.phase \in Terminal
      <4>1. user' = [user EXCEPT ![u].at = "prove", ![u].card = shown.tag]
        BY <1>3, <3>2 DEF ReviewContext
      <4>2. UserMovesTo(u, "prove", user[u].kind, shown.tag, user[u].attempt, user[u].prior) /\ shown.tag \in Cards \union {Nobody}
        BY <1>1, <4>1, CardGoes, Fields DEF UserSet
      <4> QED BY <1>2, <3>2, <4>2 DEF Terminal
    <3>3. CASE /\ ~(shown.tag = Nobody /\ status' = NoStatus)
               /\ ~(shown.tag # Nobody /\ status'.card = shown.tag /\ status'.phase \in Terminal)
      <4>1. user' = [user EXCEPT ![u].at = "release"]
        BY <1>3, <3>3 DEF ReviewContext
      <4>2. UserMovesTo(u, "release", user[u].kind, user[u].card, user[u].attempt, user[u].prior)
        BY <1>1, <4>1, UserStepMoves DEF UserTo, UserSet
      <4> QED BY <1>1, <1>2, <4>2, Fields
    <3> QED BY <3>1, <3>2, <3>3
  <2>2. status' = status \/ status'.phase # "pending"
    BY <1>1, <1>3, PaneTyped DEF ReviewContext, StatusRecord
  <2>3. PaneStays \/ status'.phase # "pending"
    BY <1>3, <2>2 DEF ReviewContext, PaneStays
  <2>4. step \notin Unclaimed \union Failing \union UnderReview
    BY DEF Unclaimed, Failing, UnderReview
  <2> QED BY <1>1, <1>2, <2>1, <2>2, <2>3, <2>4, HeldMoves DEF Attaching
<1>4. CASE ProveStopped
  <2>1. PICK at \in {"release", "previous"} :
          UserMovesTo(u, at, user[u].kind, user[u].card, user[u].attempt, user[u].prior)
    BY <1>1, <1>4, UserStepMoves DEF ProveStopped, UserSet
  <2>2. PaneStays /\ status.phase # "pending"
    BY <1>1, <1>2, <1>4 DEF ProveStopped, UserAt, PaneStays, UserHolds
  <2> QED BY <1>1, <1>2, <2>1, <2>2, HolderHolds DEF Unclaimed, Failing, UnderReview
<1>5. CASE ReadPrevious
  <2>1. UserMovesTo(u, "clear", user[u].kind, user[u].card, user[u].attempt, status)
    BY <1>1, <1>5, PriorGoes, PaneTyped DEF ReadPrevious, UserSet
  <2>2. PaneStays /\ status.phase # "pending"
    BY <1>1, <1>2, <1>5 DEF ReadPrevious, UserAt, PaneStays, UserHolds
  <2> QED BY <1>1, <1>2, <2>1, <2>2, HolderHolds DEF Unclaimed, Failing, Attaching
<1>6. CASE UnfileStatus \/ UndoReview
  <2>1. PICK at \in {"respawn", "undo", "undo_status"} :
          UserMovesTo(u, at, user[u].kind, user[u].card, user[u].attempt, user[u].prior)
    BY <1>1, <1>6, UserStepMoves DEF UnfileStatus, UndoReview, UserSet
  <2>2. user[u].prior.phase # "pending" /\ status'.phase # "pending"
    BY <1>1, <1>2, <1>6 DEF UnfileStatus, UndoReview, UserAt, UserHolds, UnderReview, NoStatus
  <2>3. at \notin Unclaimed \union Failing
    BY DEF Unclaimed, Failing
  <2> QED BY <1>1, <1>2, <2>1, <2>2, <2>3, HeldMoves
<1>7. CASE UndoReviewStatus
  <2>1. UserMovesTo(u, "release", user[u].kind, user[u].card, user[u].attempt, user[u].prior)
    BY <1>1, <1>7, UserStepMoves DEF UndoReviewStatus, UserSet
  <2>2. status'.phase # "pending"
    BY <1>1, <1>2, <1>7 DEF UndoReviewStatus, UserAt, UserHolds, UnderReview
  <2> QED BY <1>1, <1>2, <2>1, <2>2, HeldMoves DEF Unclaimed, Failing, UnderReview
<1> QED BY <1>3, <1>4, <1>5, <1>6, <1>7 DEF ReviewSteps

\* Whoever reads the status for a literal key works without the claim.
LEMMA LiteralHolds ==
  ASSUME PaneInv, HeldInv, ~refused, NEW u \in Users, ReadStatus(u) \/ ProbePane(u) \/ MarkFailed(u)
  PROVE  HeldInv'
<1>1. PaneTypeOK /\ UserHolds(u) /\ user[u].at \in {"idle", "look", "mark"}
  BY DEF PaneInv, HeldInv, ReadStatus, ProbePane, MarkFailed, UserAt
<1>2. claim # u /\ ~Prepares(u) /\ claim' = claim
  BY <1>1 DEF UserHolds, Unclaimed, Prepares, ReadStatus, ProbePane, MarkFailed
<1>3. \E at \in Unclaimed : \E kind, card, attempt, prior : UserMovesTo(u, at, kind, card, attempt, prior)
  <2>1. CASE ReadStatus(u)
    <3> DEFINE s == [Resting EXCEPT !.at = "look", !.kind = "literal", !.prior = status]
    <3>1. Resting \in UserRecord /\ status \in StatusRecord
      BY <1>1, AttemptsAssumption, PaneTyped DEF Resting, UserRecord, UserSet, Kinds, StatusRecord, NoStatus, PanePhases
    <3>2. s \in UserRecord /\ s.at = "look"
      BY <3>1 DEF UserRecord, UserSet, Kinds, Resting
    <3>3. user' = [user EXCEPT ![u] = s]
      BY <2>1 DEF ReadStatus
    <3> HIDE DEF s
    <3>4. UserMovesTo(u, "look", s.kind, s.card, s.attempt, s.prior)
      BY <1>1, <3>2, <3>3, UserGoes
    <3> QED BY <3>4 DEF Unclaimed
  <2>2. CASE user' = [user EXCEPT ![u] = Resting]
    <3>1. UserMovesTo(u, "idle", "none", Nobody, 0, NoStatus)
      BY <1>1, <2>2, RestGoes
    <3> QED BY <3>1 DEF Unclaimed
  <2>3. CASE UserTo(u, "mark")
    <3>1. UserMovesTo(u, "mark", user[u].kind, user[u].card, user[u].attempt, user[u].prior)
      BY <1>1, <2>3, UserStepMoves DEF UserSet
    <3> QED BY <3>1 DEF Unclaimed
  <2> QED BY <2>1, <2>2, <2>3 DEF ProbePane, MarkFailed, UserTo
<1>4. PICK at \in Unclaimed : \E kind, card, attempt, prior : UserMovesTo(u, at, kind, card, attempt, prior)
  BY <1>3
<1>5. PICK kind, card, attempt, prior : UserMovesTo(u, at, kind, card, attempt, prior)
  BY <1>4
<1>6. at \notin Failing \union UnderReview \union {"prove", "previous", "clear", "tag", "respawn"}
  BY DEF Unclaimed, Failing, UnderReview
<1>7. PaneStays \/ status'.phase # "pending"
  <2>1. CASE MarkFailed(u)
    BY <1>1, <2>1, Fields DEF MarkFailed, StatusRecord
  <2>2. CASE ReadStatus(u) \/ ProbePane(u)
    BY <2>2 DEF ReadStatus, ProbePane, PaneStays
  <2> QED BY <2>1, <2>2
<1> QED BY <1>2, <1>5, <1>6, <1>7, HeldMoves DEF PaneStays

\* A helper that is waited for goes on to its report, which settles its attempt;
\* any other helper is not in the pane of a pending attempt.
LEMMA HelperHolds ==
  ASSUME PaneInv, HeldInv, ~refused, NEW n \in 1..Attempts, HelperStep(n) \/ NativeReturns(n)
  PROVE  HeldInv'
<1>1. /\ PaneTypeOK /\ PendingIsHeld /\ user' = user /\ claim' = claim
      /\ \A u \in Users : UserHolds(u)
  BY DEF HeldInv, PaneInv, HelperStep, NativeReturns, PrepareCycle, ReportRunning, ReportUnready, AttachNative, ReportEnd,
     ReadReport, WriteReport
<1>2. helpers[n].at \notin {"none", "gone"}
  BY DEF HelperStep, NativeReturns, PrepareCycle, ReportRunning, ReportUnready, AttachNative, ReportEnd,
     ReadReport, WriteReport, HelperAt
<1>3. shown.what = "helper" /\ shown.attempt = n /\ ~shown.dead
  BY <1>2 DEF PaneInv, HelperIsShown
<1>4. status' = status \/ status'.phase # "pending"
  <2>1. helpers[n].result # "pending"
    BY <1>1, Fields DEF Terminal
  <2>2. CASE PrepareCycle(n) \/ AttachNative(n) \/ NativeReturns(n)
    BY <2>2 DEF PrepareCycle, AttachNative, NativeReturns
  <2>3. CASE ReportRunning(n)
    BY <2>3 DEF ReportRunning, ReadReport, WriteReport
  <2>4. CASE ReportUnready(n)
    BY <2>4 DEF ReportUnready, ReadReport, WriteReport
  <2>5. CASE ReportEnd(n)
    BY <2>1, <2>5 DEF ReportEnd, ReadReport, WriteReport
  <2> QED BY <2>2, <2>3, <2>4, <2>5 DEF HelperStep
<1>5. ASSUME NEW u \in Users PROVE UserHolds(u)'
  BY <1>1, <1>4 DEF UserHolds, Prepares
<1>6. ASSUME status'.phase = "pending", \A u \in Users : ~Prepares(u) PROVE HelperAnswers'
  <2>1. status' = status /\ HelperAnswers /\ status.attempt = n /\ helpers[n].at \in BeforeReport
    BY <1>1, <1>3, <1>4, <1>6 DEF PendingIsHeld, HelperAnswers
  <2>2. PrepareCycle(n) \/ ReportRunning(n) \/ ReportUnready(n)
    BY <2>1 DEF HelperStep, NativeReturns, AttachNative, ReportEnd, ReadReport, WriteReport, HelperAt, BeforeReport
  <2>3. /\ shown' = shown /\ helpers'[n].at \in BeforeReport
    <3>1. helpers \in [1..Attempts -> HelperRecord]
      BY <1>1, PaneTyped
    <3>2. CASE PrepareCycle(n)
      <4>1. \E s \in {"prepared", "unready"} : \E r \in Terminal \union {"none"} :
              /\ shown' = shown
              /\ helpers' = [helpers EXCEPT ![n] = [card |-> helpers[n].card, cycle |-> helpers[n].cycle,
                                                    at |-> s, result |-> r]]
        BY <3>1, <3>2 DEF PrepareCycle, HelperTo, HelperRecord
      <4> QED BY <3>1, <4>1 DEF BeforeReport
    <3>3. CASE ReportRunning(n)
      <4>1. shown' = shown /\ HelperTo(n, "report_running")
        BY <1>6, <2>1, <3>3 DEF ReportRunning, ReadReport, WriteReport
      <4> QED BY <3>1, <4>1 DEF HelperTo, HelperRecord, BeforeReport
    <3>4. CASE ReportUnready(n)
      <4>1. shown' = shown /\ HelperTo(n, "report_unready")
        BY <1>6, <2>1, <3>4 DEF ReportUnready, ReadReport, WriteReport
      <4> QED BY <3>1, <4>1 DEF HelperTo, HelperRecord, BeforeReport
    <3> QED BY <2>2, <3>2, <3>3, <3>4
  <2> QED BY <2>1, <2>3 DEF HelperAnswers
<1>7. PendingIsHeld'
  BY <1>1, <1>6 DEF PendingIsHeld, Prepares
<1> QED BY <1>5, <1>7 DEF HeldInv

\* Every step keeps HeldInv.
LEMMA HeldStep ==
  ASSUME PaneInv, HeldInv, [PaneNext]_paneVars
  PROVE  HeldInv'
<1>1. CASE UNCHANGED paneVars
  BY <1>1 DEF paneVars, HeldInv, PendingIsHeld, HelperAnswers, UserHolds, Prepares
<1> SUFFICES ASSUME PaneNext, ~refused' PROVE HeldInv'
  BY <1>1 DEF HeldInv
<1>2. ~refused
  BY DEF PaneNext, BeginAttach, BeginShell, BeginReview, BeginCycle, TakeClaim, ReviewSteps, ReviewContext, ProveStopped,
     ReadPrevious, UnfileStatus, UndoReview, UndoReviewStatus, ReviewEnds, ReadStatus, KeyDies, UserSteps, ReleaseClaim,
     CycleSource, CyclePrior, WritePending, ClearTag, SetTag, RespawnHelper, RespawnOther, FinishFailed, RestoreCheck,
     RestoreTag, RestoreStatus, ProbePane, MarkFailed, ReplacementFails, HelperStep, PrepareCycle, ReportRunning,
     ReportUnready, AttachNative, ReportEnd, ReadReport, WriteReport, NativeReturns, HelperDies, ParkOrStart
<1>3. CASE BeginAttach \/ BeginShell \/ BeginReview \/ \E k \in Keys : BeginCycle(k)
  <2>1. Navigator \in Users /\ Keys \subseteq Users
    BY DEF Users
  <2>2. CASE BeginAttach
    <3>1. PICK w \in Cards : TakeClaim(Navigator, "attach", w, "pend")
      BY <2>2 DEF BeginAttach
    <3> QED BY <1>2, <2>1, <3>1, BeginHolds DEF UserSet, Kinds
  <2>3. CASE BeginShell
    BY <1>2, <2>1, <2>3, BeginHolds DEF BeginShell, UserSet, Kinds
  <2>4. CASE BeginReview
    BY <1>2, <2>1, <2>4, BeginHolds DEF BeginReview, UserSet, Kinds
  <2>5. CASE \E k \in Keys : BeginCycle(k)
    BY <1>2, <2>1, <2>5, BeginHolds DEF BeginCycle, UserSet, Kinds
  <2> QED BY <1>3, <2>2, <2>3, <2>4, <2>5
<1>4. ASSUME NEW u \in Users, UserSteps(u) \/ ReplacementFails(u)
      PROVE  HeldInv'
  <2>1. UserHolds(u)
    BY <1>2 DEF HeldInv
  <2>2. ~(FinishFailed(u) \/ RestoreCheck(u) \/ RestoreTag(u) \/ RestoreStatus(u) \/ ReplacementFails(u))
    BY <2>1 DEF FinishFailed, RestoreCheck, RestoreTag, RestoreStatus, ReplacementFails, UserAt, UserHolds, Failing
  <2> QED BY <1>2, <1>4, <2>2, AttachHolds, ReplaceHolds, LiteralHolds DEF UserSteps
<1>5. ASSUME NEW k \in Keys, ReadStatus(k) PROVE HeldInv'
  BY <1>2, <1>5, LiteralHolds DEF Users
<1>6. CASE ReviewEnds
  <2>1. PaneTypeOK /\ UNCHANGED <<claim, status, helpers, user>> /\ shown.what = "review"
        /\ shown' = [shown EXCEPT !.dead = TRUE]
    BY <1>6 DEF ReviewEnds, PaneInv
  <2>2. shown'.what = "review"
    BY <2>1, PaneTyped DEF ShownRecord
  <2> QED BY <1>2, <2>1, <2>2 DEF HeldInv, PendingIsHeld, HelperAnswers, UserHolds, Prepares
<1>7. ASSUME NEW w \in Cards, ParkOrStart(w) PROVE HeldInv'
  BY <1>2, <1>7 DEF ParkOrStart, HeldInv, PendingIsHeld, HelperAnswers, UserHolds, Prepares
<1>8. CASE ReviewSteps
  BY <1>2, <1>8, ReviewHolds
<1>9. ASSUME NEW n \in 1..Attempts, HelperStep(n) \/ NativeReturns(n) PROVE HeldInv'
  BY <1>2, <1>9, HelperHolds
<1>10. /\ \A k \in Keys : ~KeyDies(k)
       /\ \A n \in 1..Attempts : ~HelperDies(n)
  BY DEF KeyDies, HelperDies
<1> QED BY <1>3, <1>4, <1>5, <1>6, <1>7, <1>8, <1>9, <1>10 DEF PaneNext

\* While tmux refuses nothing and nobody dies, nobody holds the claim who does
\* not work under it, and an attempt stays pending only while the helper in the
\* live pane has yet to report it (report_attachment_phase), once its user has
\* released the claim; the one way out is the shell, which takes the pane from a
\* pending attempt (attach_provisional_shell).
AttemptIsHeld ==
  ~refused =>
    /\ claim # Nobody => user[claim].at \notin Unclaimed
    /\ status.phase = "pending" /\ claim = Nobody => shown.what = "shell" \/ HelperAnswers

\* It holds for any number of keys, Workstreams and attempts.
THEOREM AttemptIsHeldHolds == PaneSpec => []AttemptIsHeld
<1>1. PaneInit => HeldInv
  <2> SUFFICES ASSUME PaneInit PROVE HeldInv
    OBVIOUS
  <2>1. Resting.at = "idle" /\ Resting.kind = "none" /\ NoStatus.phase = "none"
    BY DEF Resting, NoStatus
  <2> HIDE DEF Resting, NoStatus
  <2> QED BY <2>1, UsersAssumption
      DEF PaneInit, HeldInv, PendingIsHeld, UserHolds, Prepares, Failing, UnderReview, Users
<1>2. PaneInv /\ HeldInv => AttemptIsHeld
  <2> SUFFICES ASSUME PaneInv, HeldInv, ~refused PROVE AttemptIsHeld
    BY DEF AttemptIsHeld
  <2>1. claim \in Users \union {Nobody}
    BY PaneTyped DEF PaneInv
  <2>2. ASSUME claim = Nobody, NEW u \in Users PROVE ~Prepares(u)
    <3>1. u # Nobody
      BY UsersAssumption DEF Users
    <3> QED BY <2>2, <3>1 DEF PaneInv, ClaimIsExclusive, Prepares, Unclaimed
  <2> QED BY <2>1, <2>2 DEF HeldInv, AttemptIsHeld, UserHolds, PendingIsHeld
<1> QED BY <1>1, <1>2, HeldStep, PaneInvariant, PTL DEF PaneSpec

-----------------------------------------------------------------------------
(* The directory of a presentation.                                        *)

\* The steps of a terminal that makes its own directory, that removes the
\* files of one, and that has killed a server.
Making == Starting \ {"mkdir"}
Emptying == {"rm_status", "rm_config", "rm_socket", "rm_marker", "rmdir"}
Clearing == Emptying \union {"remove"}

\* Steps at which a terminal has not chosen a directory.
Choosing == {"idle", "scan", "mkdir"}
DirIsChosen == \A t \in Terminals : terminal[t].at \notin Choosing => Dir(t) \in Directories

TerminalAt(t, d, steps) == Dir(t) = d /\ terminal[t].at \in steps

\* What a terminal that makes d has written so far.
Written(at, f, s) ==
  /\ f.made /\ (at # "config" => f.config)
  /\ at \in {"config", "create"} => f.marker = "none"
  /\ at = "context" => f.marker = "bare"
  /\ at \in {"bare", "current", "captured"} => f.marker = "torn"
  /\ at \in {"server", "capture"} => f.marker = "current"
  /\ at \in {"navigator", "provider", "bindings"} => f.marker = "captured"
  /\ IF at \in {"config", "create", "bare", "context", "current", "server"}
     THEN ~f.socket /\ s = NoServer ELSE f.socket
  /\ at # "bindings" => ~s.provider /\ f.temporary = "none"
  /\ f.temporary # "left"

\* What a terminal that closes d has read and removed so far.
ClearedAway(o, f, s) ==
  /\ o.marker \in {"current", "captured"} /\ (o.marker = "captured" => o.socket)
  /\ o.at \in Clearing => s = NoServer
  /\ o.at \in Emptying => \/ f = Missing
                              \/ /\ f.made /\ f.temporary = "none" /\ f.marker \in {"none", o.marker}
                                 /\ f.socket => o.socket
                                 /\ o.at # "rm_status" => ~f.status
                                 /\ o.at \in {"rm_socket", "rm_marker", "rmdir"} => ~f.config
                                 /\ o.at \in {"rm_marker", "rmdir"} => ~f.socket
                                 /\ o.at = "rmdir" => f.marker = "none"

\* A directory that was made and that nobody has begun to remove.
WrittenOut(f, s) ==
  /\ f.made /\ f.config /\ f.temporary # "left"
  /\ f.marker \in {"current", "captured"} /\ (f.marker = "captured" => f.socket)
  /\ s.live => f.socket

\* Nobody makes d, and it is whole, gone, or being removed.
Settled(d) ==
  /\ entries[d].marker = "current" => ~entries[d].socket
  /\ entries[d].config /\ entries[d].marker = "captured" => entries[d].socket
  /\ \/ WrittenOut(entries[d], tmux[d])
     \/ entries[d] = Missing /\ tmux[d] = NoServer
     \/ \E t \in Terminals : TerminalAt(t, d, Emptying)

InOrder(d) ==
  /\ \A t \in Terminals : TerminalAt(t, d, Making) =>
       /\ Written(terminal[t].at, entries[d], tmux[d])
       /\ \A o \in Terminals \ {t} : ~TerminalAt(o, d, Making \union Clearing)
  /\ \A t \in Terminals : TerminalAt(t, d, Clearing \union {"kill"}) => ClearedAway(terminal[t], entries[d], tmux[d])
  /\ (\A t \in Terminals : ~TerminalAt(t, d, Making)) => Settled(d)

PresInv ==
  /\ PresentationTypeOK /\ DirIsChosen
  /\ \A d \in Directories \ harmed : InOrder(d)

FileStates == [made : BOOLEAN, config : BOOLEAN, marker : Markers, status : BOOLEAN,
               temporary : {"none", "open", "left"}, socket : BOOLEAN]
ServerStates == [live : BOOLEAN, navigator : {"none", "alive", "leaving", "dead"},
                 provider : BOOLEAN, clients : SUBSET Terminals]
TerminalSteps == {"idle", "scan", "inspect", "count", "prepare", "attach", "attached", "left", "failed"}
                 \union Starting \union Closing
TerminalStates == [at : TerminalSteps, dir : Directories \union {NoDirectory}, todo : SUBSET Directories,
                   live : SUBSET Directories, marker : Markers, socket : BOOLEAN, after : {"none", "scan", "end"}]

-----------------------------------------------------------------------------

\* The types with each record set under a name.
LEMMA PresTypes ==
  ASSUME PresInv
  PROVE  /\ entries \in [Directories -> FileStates] /\ tmux \in [Directories -> ServerStates]
         /\ terminal \in [Terminals -> TerminalStates] /\ harmed \in SUBSET Directories
BY DEF PresInv, PresentationTypeOK, FileStates, ServerStates, TerminalStates, TerminalSteps

\* And back.
LEMMA PresTypesBack ==
  ASSUME entries \in [Directories -> FileStates], tmux \in [Directories -> ServerStates],
         terminal \in [Terminals -> TerminalStates], harmed \in SUBSET Directories
  PROVE  PresentationTypeOK
BY DEF PresentationTypeOK, FileStates, ServerStates, TerminalStates, TerminalSteps

\* A directory, a server and a terminal before anything happens.
LEMMA NothingIsTyped ==
  /\ Missing \in FileStates /\ NoServer \in ServerStates /\ Idle \in TerminalStates
  /\ Idle.at = "idle" /\ Idle.dir = NoDirectory
  /\ ~Missing.made /\ Missing.marker = "none" /\ ~Missing.socket /\ Missing.temporary = "none" /\ ~Missing.config
  /\ ~NoServer.live /\ ~NoServer.provider /\ NoServer.clients = {}
<1>1. Missing \in FileStates /\ ~Missing.made /\ Missing.marker = "none" /\ ~Missing.socket
      /\ Missing.temporary = "none" /\ ~Missing.config
  BY DEF Missing, FileStates, Markers
<1>2. NoServer \in ServerStates /\ ~NoServer.live /\ ~NoServer.provider /\ NoServer.clients = {}
  BY DEF NoServer, ServerStates
<1>3. Idle \in TerminalStates /\ Idle.at = "idle" /\ Idle.dir = NoDirectory
  BY DEF Idle, TerminalStates, TerminalSteps, Markers
<1> QED BY <1>1, <1>2, <1>3

\* The server of d has ended, or only its Navigator and its clients differ.
Quiets(d) ==
  /\ tmux'[d].live => tmux[d].live
  /\ tmux'[d].provider => tmux[d].provider
  /\ tmux[d] = NoServer => tmux'[d] = NoServer

\* What d is owed does not see a terminal that is at none of the steps that
\* concern it, before and after.
LEMMA Bystander ==
  ASSUME PresInv, NEW d \in Directories, d \notin harmed, NEW t \in Terminals,
         \A o \in Terminals \ {t} : terminal'[o] = terminal[o],
         ~TerminalAt(t, d, Making \union Emptying), ~TerminalAt(t, d, Making \union Clearing \union {"kill"})',
         entries'[d] = entries[d], Quiets(d)
  PROVE  InOrder(d)'
<1>1. InOrder(d)
  BY DEF PresInv
<1>2. \A o \in Terminals : TerminalAt(o, d, Making)' => o # t /\ TerminalAt(o, d, Making) /\ terminal'[o] = terminal[o]
  BY DEF TerminalAt, Dir
<1>3. \A o \in Terminals : TerminalAt(o, d, Making) => TerminalAt(o, d, Making)' /\ o # t
  BY DEF TerminalAt, Dir
<1>4. \A o \in Terminals : TerminalAt(o, d, Clearing \union {"kill"})' =>
        TerminalAt(o, d, Clearing \union {"kill"}) /\ terminal'[o] = terminal[o]
  BY DEF TerminalAt, Dir
<1>5. \A o \in Terminals : TerminalAt(o, d, Making \union Clearing)' => TerminalAt(o, d, Making \union Clearing)
  BY DEF TerminalAt, Dir
<1>6. \A o \in Terminals : TerminalAt(o, d, Emptying) => TerminalAt(o, d, Emptying)'
  BY DEF TerminalAt, Dir
<1>7. \A o \in Terminals : TerminalAt(o, d, Making)' =>
        /\ Written(terminal'[o].at, entries'[d], tmux'[d])
        /\ \A r \in Terminals \ {o} : ~TerminalAt(r, d, Making \union Clearing)'
  <2> SUFFICES ASSUME NEW o \in Terminals, TerminalAt(o, d, Making)'
               PROVE  /\ Written(terminal'[o].at, entries'[d], tmux'[d])
                      /\ \A r \in Terminals \ {o} : ~TerminalAt(r, d, Making \union Clearing)'
    OBVIOUS
  <2>1. /\ Written(terminal[o].at, entries[d], tmux[d]) /\ terminal'[o] = terminal[o]
        /\ \A r \in Terminals \ {o} : ~TerminalAt(r, d, Making \union Clearing)
    BY <1>1, <1>2 DEF InOrder
  <2>2. Written(terminal'[o].at, entries'[d], tmux'[d])
    BY <2>1 DEF Written, Quiets
  <2> QED BY <1>5, <2>1, <2>2
<1>8. \A o \in Terminals : TerminalAt(o, d, Clearing \union {"kill"})' => ClearedAway(terminal'[o], entries'[d], tmux'[d])
  BY <1>1, <1>4 DEF InOrder, ClearedAway, Quiets
<1>9. (\A o \in Terminals : ~TerminalAt(o, d, Making)') => Settled(d)'
  <2> SUFFICES ASSUME \A o \in Terminals : ~TerminalAt(o, d, Making)' PROVE Settled(d)'
    OBVIOUS
  <2>1. Settled(d)
    BY <1>1, <1>3 DEF InOrder
  <2> QED BY <1>6, <2>1 DEF Settled, WrittenOut, Quiets
<1> QED BY <1>7, <1>8, <1>9 DEF InOrder

\* A directory that no terminal turns to or away from.
LEMMA Elsewhere ==
  ASSUME PresInv, NEW d \in Directories, d \notin harmed, NEW t \in Terminals,
         \A o \in Terminals \ {t} : terminal'[o] = terminal[o],
         Dir(t) # d, Dir(t)' # d, entries'[d] = entries[d], Quiets(d)
  PROVE  InOrder(d)'
<1>1. ~TerminalAt(t, d, Making \union Emptying) /\ ~TerminalAt(t, d, Making \union Clearing \union {"kill"})'
  BY DEF TerminalAt
<1> QED BY <1>1, Bystander

\* A step of a terminal that neither makes, kills nor removes.
LEMMA PlainStep ==
  ASSUME PresInv, NEW t \in Terminals,
         terminal' = [terminal EXCEPT ![t] = terminal'[t]], terminal'[t] \in TerminalStates,
         terminal'[t].at \notin Choosing => terminal'[t].dir \in Directories,
         terminal[t].at \notin Making \union Emptying,
         terminal'[t].at \notin Making \union Clearing \union {"kill"},
         entries' = entries, tmux' \in [Directories -> ServerStates],
         \A d \in Directories : Quiets(d),
         harmed' \in SUBSET Directories, harmed \subseteq harmed'
  PROVE  PresInv'
<1>1. \A o \in Terminals \ {t} : terminal'[o] = terminal[o]
  BY PresTypes
<1>2. terminal' \in [Terminals -> TerminalStates]
  BY PresTypes
<1>3. PresentationTypeOK'
  BY <1>2, PresTypes DEF PresentationTypeOK, FileStates, ServerStates, TerminalStates, TerminalSteps
<1>4. DirIsChosen'
  BY <1>1 DEF PresInv, DirIsChosen, Dir
<1>5. ASSUME NEW d \in Directories \ harmed' PROVE InOrder(d)'
  <2>1. ~TerminalAt(t, d, Making \union Emptying) /\ ~TerminalAt(t, d, Making \union Clearing \union {"kill"})'
    BY DEF TerminalAt
  <2> QED BY <1>1, <2>1, Bystander
<1> QED BY <1>3, <1>4, <1>5 DEF PresInv

-----------------------------------------------------------------------------
(* How a terminal moves.                                                   *)

\* A terminal that proceeds keeps its directory and what it read there.
LEMMA Proceeds ==
  ASSUME PresInv, NEW t \in Terminals, NEW step \in TerminalSteps, Proceed(t, step)
  PROVE  /\ terminal' = [terminal EXCEPT ![t] = terminal'[t]] /\ terminal'[t] \in TerminalStates
         /\ terminal'[t].at = step /\ terminal'[t].dir = terminal[t].dir
         /\ terminal'[t].marker = terminal[t].marker /\ terminal'[t].socket = terminal[t].socket
         /\ Dir(t)' = Dir(t)
<1>1. PICK s : s = [terminal[t] EXCEPT !.at = step]
  OBVIOUS
<1>2. terminal[t] \in TerminalStates
  BY PresTypes
<1>3. s \in TerminalStates /\ s.at = step /\ s.dir = terminal[t].dir /\ s.marker = terminal[t].marker
      /\ s.socket = terminal[t].socket
  BY <1>1, <1>2 DEF TerminalStates
<1>4. terminal' = [terminal EXCEPT ![t] = s]
  BY <1>1, PresTypes DEF Proceed
<1>5. terminal'[t] = s
  BY <1>4, PresTypes
<1> HIDE <1>1
<1> QED BY <1>3, <1>4, <1>5 DEF Dir

\* A terminal that ends forgets its directory.
LEMMA EndsIdle ==
  ASSUME PresInv, NEW t \in Terminals, Ends(t)
  PROVE  /\ terminal' = [terminal EXCEPT ![t] = terminal'[t]] /\ terminal'[t] \in TerminalStates
         /\ terminal'[t].at = "idle" /\ terminal'[t].dir = NoDirectory
BY PresTypes, NothingIsTyped DEF Ends

\* A terminal that begins a close keeps its directory.
LEMMA BeginsClose ==
  ASSUME PresInv, NEW t \in Terminals, NEW after \in {"scan", "end"}, BeginClose(t, after)
  PROVE  /\ terminal' = [terminal EXCEPT ![t] = terminal'[t]] /\ terminal'[t] \in TerminalStates
         /\ terminal'[t].at = "close" /\ terminal'[t].dir = terminal[t].dir
<1>1. PICK s : s = [terminal[t] EXCEPT !.at = "close", !.after = after]
  OBVIOUS
<1>2. terminal[t] \in TerminalStates
  BY PresTypes
<1>3. s \in TerminalStates /\ s.at = "close" /\ s.dir = terminal[t].dir
  BY <1>1, <1>2 DEF TerminalStates, TerminalSteps, Closing
<1>4. terminal' = [terminal EXCEPT ![t] = s]
  BY <1>1, PresTypes DEF BeginClose
<1>5. terminal'[t] = s
  BY <1>4, PresTypes
<1> HIDE <1>1
<1> QED BY <1>3, <1>4, <1>5

\* A terminal that closed looks for another directory, or ends.
LEMMA Closes ==
  ASSUME PresInv, NEW t \in Terminals, Closed(t)
  PROVE  /\ terminal' = [terminal EXCEPT ![t] = terminal'[t]] /\ terminal'[t] \in TerminalStates
         /\ terminal'[t].at \in {"scan", "idle"}
BY EndsIdle, Proceeds DEF Closed, TerminalSteps

\* A server that is gone has no clients.
LEMMA NoClients == [NoServer EXCEPT !.clients = {}] = NoServer
BY DEF NoServer

\* No server changes.
LEMMA StepIsQuiet ==
  ASSUME tmux' = tmux
  PROVE  \A d \in Directories : Quiets(d)
BY DEF Quiets

-----------------------------------------------------------------------------
(* Discovery, attachment, and what follows.                                *)

\* A terminal looks for presentations.
LEMMA OpenInv ==
  ASSUME PresInv, NEW t \in Terminals, OpenPresentation(t)
  PROVE  PresInv'
<1>1. PICK s : s = [terminal[t] EXCEPT !.at = "scan", !.todo = {d \in Directories : entries[d].made}]
  OBVIOUS
<1>2. terminal[t] \in TerminalStates /\ terminal[t].at = "idle"
  BY PresTypes DEF OpenPresentation, Reached
<1>3. s \in TerminalStates /\ s.at = "scan"
  BY <1>1, <1>2 DEF TerminalStates, TerminalSteps
<1>4. terminal' = [terminal EXCEPT ![t] = s]
  BY <1>1, PresTypes DEF OpenPresentation
<1>5. terminal'[t] = s
  BY <1>4, PresTypes
<1>6. /\ terminal[t].at \notin Making \union Emptying
      /\ s.at \notin Making \union Clearing \union {"kill"} /\ s.at \in Choosing
  BY <1>2, <1>3 DEF Making, Starting, Emptying, Clearing, Choosing
<1>7. entries' = entries /\ tmux' = tmux /\ harmed' = harmed
  BY DEF OpenPresentation
<1> QED BY <1>3, <1>4, <1>5, <1>6, <1>7, PresTypes, StepIsQuiet, PlainStep

\* It probes one directory.
LEMMA ProbeInv ==
  ASSUME PresInv, NEW t \in Terminals, ProbeDirectory(t)
  PROVE  PresInv'
<1>1. PICK d \in terminal[t].todo :
        terminal' = [terminal EXCEPT ![t].todo = @ \ {d}, ![t].dir = d, ![t].after = "scan",
                                     ![t].at = IF tmux[d].live THEN "inspect" ELSE "close"]
  BY DEF ProbeDirectory
<1>2. PICK s : s = [terminal[t] EXCEPT !.todo = @ \ {d}, !.dir = d, !.after = "scan",
                                       !.at = IF tmux[d].live THEN "inspect" ELSE "close"]
  OBVIOUS
<1>3. terminal[t] \in TerminalStates /\ terminal[t].at = "scan"
  BY PresTypes DEF ProbeDirectory, Reached
<1>4. d \in Directories
  BY <1>3 DEF TerminalStates
<1>5. s \in TerminalStates /\ s.at \in {"inspect", "close"} /\ s.dir = d
  BY <1>2, <1>3, <1>4 DEF TerminalStates, TerminalSteps, Closing
<1>6. terminal' = [terminal EXCEPT ![t] = s]
  BY <1>1, <1>2, PresTypes
<1>7. terminal'[t] = s
  BY <1>6, PresTypes
<1>8. /\ terminal[t].at \notin Making \union Emptying
      /\ s.at \notin Making \union Clearing \union {"kill"}
  BY <1>3, <1>5 DEF Making, Starting, Emptying, Clearing
<1>9. entries' = entries /\ tmux' = tmux /\ harmed' = harmed
  BY DEF ProbeDirectory
<1> QED BY <1>4, <1>5, <1>6, <1>7, <1>8, <1>9, PresTypes, StepIsQuiet, PlainStep

\* It inspects the Navigator there.
LEMMA InspectInv ==
  ASSUME PresInv, NEW t \in Terminals, InspectNavigator(t)
  PROVE  PresInv'
<1>1. /\ terminal[t].at = "inspect" /\ entries' = entries /\ tmux' = tmux /\ harmed' = harmed
      /\ Dir(t) \in Directories /\ terminal[t] \in TerminalStates
  BY PresTypes DEF InspectNavigator, Reached, PresInv, DirIsChosen, Choosing
<1>2. terminal[t].at \notin Making \union Emptying
  BY <1>1 DEF Making, Starting, Emptying
<1>3. /\ terminal' = [terminal EXCEPT ![t] = terminal'[t]] /\ terminal'[t] \in TerminalStates
      /\ terminal'[t].at \in {"idle", "count", "scan"} /\ (terminal'[t].at = "count" => Dir(t)' = Dir(t))
  <2>1. CASE Ends(t)
    BY <2>1, EndsIdle
  <2>2. CASE Proceed(t, "count")
    BY <2>2, Proceeds DEF TerminalSteps
  <2>3. CASE terminal' = [terminal EXCEPT ![t].at = "scan", ![t].live = @ \union {Dir(t)}]
    <3>1. PICK s : s = [terminal[t] EXCEPT !.at = "scan", !.live = @ \union {Dir(t)}]
      OBVIOUS
    <3>2. s \in TerminalStates /\ s.at = "scan"
      BY <1>1, <3>1 DEF TerminalStates, TerminalSteps
    <3>3. terminal' = [terminal EXCEPT ![t] = s]
      BY <2>3, <3>1, PresTypes
    <3>4. terminal'[t] = s
      BY <3>3, PresTypes
    <3> HIDE <3>1
    <3> QED BY <3>2, <3>3, <3>4
  <2> QED BY <2>1, <2>2, <2>3 DEF InspectNavigator
<1>4. terminal'[t].at \notin Making \union Clearing \union {"kill"}
  BY <1>3 DEF Making, Starting, Emptying, Clearing
<1> QED BY <1>1, <1>2, <1>3, <1>4, PresTypes, StepIsQuiet, PlainStep DEF Choosing, Dir

\* It counts the clients.
LEMMA CountInv ==
  ASSUME PresInv, NEW t \in Terminals, CountClients(t)
  PROVE  PresInv'
<1>1. /\ terminal[t].at = "count" /\ entries' = entries /\ tmux' = tmux /\ harmed' = harmed
      /\ Dir(t) \in Directories
  BY DEF CountClients, Reached, PresInv, DirIsChosen, Choosing
<1>2. terminal[t].at \notin Making \union Emptying
  BY <1>1 DEF Making, Starting, Emptying
<1>3. /\ terminal' = [terminal EXCEPT ![t] = terminal'[t]] /\ terminal'[t] \in TerminalStates
      /\ terminal'[t].at \in {"idle", "close"} /\ (terminal'[t].at = "close" => terminal'[t].dir = terminal[t].dir)
  BY EndsIdle, BeginsClose DEF CountClients
<1>4. terminal'[t].at \notin Making \union Clearing \union {"kill"}
  BY <1>3 DEF Making, Starting, Emptying, Clearing
<1> QED BY <1>1, <1>2, <1>3, <1>4, PresTypes, StepIsQuiet, PlainStep DEF Choosing, Dir

\* It attaches to one, or makes its own.
LEMMA ChooseInv ==
  ASSUME PresInv, NEW t \in Terminals, ChoosePresentation(t)
  PROVE  PresInv'
<1>1. /\ terminal[t].at = "scan" /\ entries' = entries /\ tmux' = tmux /\ harmed' = harmed
      /\ terminal[t] \in TerminalStates
  BY PresTypes DEF ChoosePresentation, Reached
<1>2. terminal[t].at \notin Making \union Emptying
  BY <1>1 DEF Making, Starting, Emptying
<1>3. /\ terminal' = [terminal EXCEPT ![t] = terminal'[t]] /\ terminal'[t] \in TerminalStates
      /\ terminal'[t].at \in {"idle", "mkdir", "prepare"}
      /\ terminal'[t].at = "prepare" => terminal'[t].dir \in Directories
  <2>1. CASE Ends(t)
    BY <2>1, EndsIdle
  <2>2. CASE Proceed(t, "mkdir")
    BY <2>2, Proceeds DEF TerminalSteps, Starting
  <2>3. ASSUME NEW d \in terminal[t].live, terminal' = [terminal EXCEPT ![t].at = "prepare", ![t].dir = d]
        PROVE  /\ terminal' = [terminal EXCEPT ![t] = terminal'[t]] /\ terminal'[t] \in TerminalStates
               /\ terminal'[t].at = "prepare" /\ terminal'[t].dir \in Directories
    <3>1. PICK s : s = [terminal[t] EXCEPT !.at = "prepare", !.dir = d]
      OBVIOUS
    <3>2. s \in TerminalStates /\ s.at = "prepare" /\ s.dir = d /\ d \in Directories
      BY <1>1, <3>1 DEF TerminalStates, TerminalSteps
    <3>3. terminal' = [terminal EXCEPT ![t] = s]
      BY <2>3, <3>1, PresTypes
    <3>4. terminal'[t] = s
      BY <3>3, PresTypes
    <3> HIDE <3>1
    <3> QED BY <3>2, <3>3, <3>4
  <2> QED BY <2>1, <2>2, <2>3 DEF ChoosePresentation
<1>4. terminal'[t].at \notin Making \union Clearing \union {"kill"}
  BY <1>3 DEF Making, Starting, Emptying, Clearing
<1> QED BY <1>1, <1>2, <1>3, <1>4, PresTypes, StepIsQuiet, PlainStep DEF Choosing

\* It attaches, and comes back.
LEMMA PrepareInv ==
  ASSUME PresInv, NEW t \in Terminals, PrepareAttach(t) \/ AfterAttach(t)
  PROVE  PresInv'
<1>1. /\ terminal[t].at \in {"prepare", "left", "failed"} /\ entries' = entries /\ tmux' = tmux /\ harmed' = harmed
      /\ Dir(t) \in Directories
  BY DEF PrepareAttach, AfterAttach, Reached, PresInv, DirIsChosen, Choosing
<1>2. terminal[t].at \notin Making \union Emptying
  BY <1>1 DEF Making, Starting, Emptying
<1>3. Proceed(t, "attach") \/ BeginClose(t, "end") \/ Ends(t)
  BY DEF PrepareAttach, AfterAttach
<1>4. /\ terminal' = [terminal EXCEPT ![t] = terminal'[t]] /\ terminal'[t] \in TerminalStates
      /\ terminal'[t].at \in {"idle", "close", "attach"}
      /\ terminal'[t].at # "idle" => terminal'[t].dir = terminal[t].dir
  BY <1>3, EndsIdle, BeginsClose, Proceeds DEF TerminalSteps
<1>5. terminal'[t].at \notin Making \union Clearing \union {"kill"}
  BY <1>4 DEF Making, Starting, Emptying, Clearing
<1> QED BY <1>1, <1>2, <1>4, <1>5, PresTypes, StepIsQuiet, PlainStep DEF Choosing, Dir

\* A client comes or goes.
LEMMA AttachInv ==
  ASSUME PresInv, NEW t \in Terminals, AttachClient(t) \/ ClientReturns(t)
  PROVE  PresInv'
<1>1. /\ terminal[t].at \in {"attach", "attached"} /\ entries' = entries /\ harmed' = harmed
      /\ Dir(t) \in Directories
  BY DEF AttachClient, ClientReturns, Reached, PresInv, DirIsChosen, Choosing
<1>2. terminal[t].at \notin Making \union Emptying
  BY <1>1 DEF Making, Starting, Emptying
<1>3. PICK step \in {"attached", "failed", "left"} : Proceed(t, step)
  BY DEF AttachClient, ClientReturns
<1>4. /\ terminal' = [terminal EXCEPT ![t] = terminal'[t]] /\ terminal'[t] \in TerminalStates
      /\ terminal'[t].at = step /\ terminal'[t].dir = terminal[t].dir
  BY <1>3, Proceeds DEF TerminalSteps
<1>5. terminal'[t].at \notin Making \union Clearing \union {"kill"}
  BY <1>4 DEF Making, Starting, Emptying, Clearing
<1>6. tmux' \in [Directories -> ServerStates] /\ \A d \in Directories : Quiets(d)
  <2>1. CASE tmux' = tmux
    BY <2>1, PresTypes, StepIsQuiet
  <2>2. CASE tmux' # tmux
    <3>1. PICK clients \in SUBSET Terminals :
            /\ tmux' = [tmux EXCEPT ![Dir(t)].clients = clients]
            /\ tmux[Dir(t)] = NoServer => clients = {}
      <4>1. tmux[Dir(t)] \in ServerStates
        BY <1>1, PresTypes
      <4>2. tmux[Dir(t)].clients \union {t} \in SUBSET Terminals /\ tmux[Dir(t)].clients \ {t} \in SUBSET Terminals
        BY <4>1 DEF ServerStates
      <4> QED BY <2>2, <4>2, NothingIsTyped DEF AttachClient, ClientReturns
    <3>2. PICK s : s = [tmux[Dir(t)] EXCEPT !.clients = clients]
      OBVIOUS
    <3>3. /\ s \in ServerStates /\ s.live = tmux[Dir(t)].live /\ s.provider = tmux[Dir(t)].provider
          /\ tmux[Dir(t)] = NoServer => s = NoServer
      <4>1. tmux[Dir(t)] \in ServerStates
        BY <1>1, PresTypes
      <4>2. s \in ServerStates /\ s.live = tmux[Dir(t)].live /\ s.provider = tmux[Dir(t)].provider
        BY <3>2, <4>1 DEF ServerStates
      <4>3. tmux[Dir(t)] = NoServer => s = NoServer
        BY <3>1, <3>2, NoClients
      <4> QED BY <4>2, <4>3
    <3>4. tmux' = [tmux EXCEPT ![Dir(t)] = s]
      BY <1>1, <3>1, <3>2, PresTypes
    <3> HIDE <3>1, <3>2
    <3> QED BY <1>1, <3>3, <3>4, PresTypes DEF Quiets
  <2> QED BY <2>1, <2>2
<1> QED BY <1>1, <1>2, <1>4, <1>5, <1>6, PresTypes, PlainStep DEF Choosing, Dir

-----------------------------------------------------------------------------
(* A terminal makes its directory.                                         *)

\* Nobody else makes or removes the files of a directory that is being made.
LEMMA MakerIsAlone ==
  ASSUME PresInv, NEW t \in Terminals, terminal[t].at \in Making, Dir(t) \notin harmed
  PROVE  /\ Dir(t) \in Directories /\ Written(terminal[t].at, entries[Dir(t)], tmux[Dir(t)])
         /\ \A o \in Terminals \ {t} : ~TerminalAt(o, Dir(t), Making \union Clearing)
<1>1. Dir(t) \in Directories
  BY DEF PresInv, DirIsChosen, Making, Starting, Choosing
<1>2. TerminalAt(t, Dir(t), Making)
  BY DEF TerminalAt
<1> QED BY <1>1, <1>2 DEF PresInv, InOrder

\* The maker of a directory goes on, alone in it.
LEMMA MakingStep ==
  ASSUME PresInv, NEW t \in Terminals, terminal[t].at \in Making,
         terminal' = [terminal EXCEPT ![t] = terminal'[t]], terminal'[t] \in TerminalStates,
         terminal'[t].at \in Making, terminal'[t].dir = terminal[t].dir,
         entries' = [entries EXCEPT ![Dir(t)] = entries'[Dir(t)]], entries'[Dir(t)] \in FileStates,
         tmux' = [tmux EXCEPT ![Dir(t)] = tmux'[Dir(t)]], tmux'[Dir(t)] \in ServerStates,
         harmed' = harmed,
         Dir(t) \notin harmed => Written(terminal'[t].at, entries'[Dir(t)], tmux'[Dir(t)])
  PROVE  PresInv'
<1>1. /\ Dir(t) \in Directories /\ Dir(t)' = Dir(t)
      /\ \A o \in Terminals \ {t} : terminal'[o] = terminal[o]
      /\ terminal' \in [Terminals -> TerminalStates]
  BY PresTypes DEF PresInv, DirIsChosen, Making, Starting, Choosing, Dir
<1>2. \A d \in Directories \ {Dir(t)} : entries'[d] = entries[d] /\ tmux'[d] = tmux[d]
  BY PresTypes
<1>3. entries' \in [Directories -> FileStates] /\ tmux' \in [Directories -> ServerStates]
  BY <1>1, PresTypes
<1>4. PresentationTypeOK'
  BY <1>1, <1>3, PresTypes DEF PresentationTypeOK, FileStates, ServerStates, TerminalStates, TerminalSteps
<1>5. DirIsChosen'
  BY <1>1 DEF PresInv, DirIsChosen, Dir
<1>6. ASSUME NEW d \in Directories \ harmed, d # Dir(t) PROVE InOrder(d)'
  BY <1>1, <1>2, <1>6, Elsewhere DEF Quiets
<1>7. PICK own \in Directories : own = Dir(t)
  BY <1>1
<1>8. ASSUME own \notin harmed PROVE InOrder(own)'
  <2>1. \A o \in Terminals \ {t} : ~TerminalAt(o, own, Making \union Clearing)'
    BY <1>1, <1>7, <1>8, MakerIsAlone DEF TerminalAt, Dir
  <2>2. \A o \in Terminals : TerminalAt(o, own, Making)' => o = t
    BY <1>1, <2>1 DEF TerminalAt, Dir
  <2>3. \A o \in Terminals : TerminalAt(o, own, Clearing \union {"kill"})' =>
          o # t /\ TerminalAt(o, own, Clearing \union {"kill"}) /\ terminal'[o] = terminal[o] /\ terminal[o].at = "kill"
    BY <1>1, <2>1 DEF TerminalAt, Dir, Making, Starting, Clearing, Emptying
  <2>4. \A o \in Terminals : TerminalAt(o, own, Clearing \union {"kill"})' =>
          ClearedAway(terminal'[o], entries'[own], tmux'[own])
    BY <1>1, <1>8, <2>3 DEF PresInv, InOrder, ClearedAway, Clearing, Emptying
  <2>5. ~(\A o \in Terminals : ~TerminalAt(o, own, Making)')
    BY <1>1, <1>7 DEF TerminalAt, Dir
  <2>6. Written(terminal'[t].at, entries'[own], tmux'[own])
    BY <1>7, <1>8
  <2> QED BY <2>1, <2>2, <2>4, <2>5, <2>6 DEF InOrder
<1> QED BY <1>1, <1>4, <1>5, <1>6, <1>7, <1>8 DEF PresInv

\* A start that ends, or that succeeded, leaves a whole presentation.
LEMMA LeavesMaking ==
  ASSUME PresInv, NEW t \in Terminals, terminal[t].at \in Making,
         terminal' = [terminal EXCEPT ![t] = terminal'[t]], terminal'[t] \in TerminalStates,
         terminal'[t].at \in {"idle", "close", "prepare"},
         terminal'[t].at # "idle" => terminal'[t].dir = terminal[t].dir,
         entries' = entries, tmux' = tmux, harmed' = harmed,
         Dir(t) \notin harmed => terminal[t].at \in {"server", "capture", "navigator", "provider", "bindings"},
         Dir(t) \notin harmed => (terminal[t].at # "capture")
  PROVE  PresInv'
<1>1. /\ Dir(t) \in Directories
      /\ \A o \in Terminals \ {t} : terminal'[o] = terminal[o]
      /\ terminal' \in [Terminals -> TerminalStates]
  BY PresTypes DEF PresInv, DirIsChosen, Making, Starting, Choosing, Dir
<1>2. PresentationTypeOK'
  BY <1>1, PresTypes DEF PresentationTypeOK, FileStates, ServerStates, TerminalStates, TerminalSteps
<1>3. DirIsChosen'
  BY <1>1 DEF PresInv, DirIsChosen, Dir, Choosing
<1>4. ASSUME NEW d \in Directories \ harmed, d # Dir(t) PROVE InOrder(d)'
  <2>1. ~TerminalAt(t, d, Making \union Emptying) /\ ~TerminalAt(t, d, Making \union Clearing \union {"kill"})'
    BY <1>4 DEF TerminalAt, Dir, Making, Starting, Clearing, Emptying
  <2> QED BY <1>1, <2>1, Bystander DEF Quiets
<1>5. PICK own \in Directories : own = Dir(t)
  BY <1>1
<1>6. ASSUME own \notin harmed PROVE InOrder(own)'
  <2>1. /\ \A o \in Terminals \ {t} : ~TerminalAt(o, own, Making \union Clearing)
        /\ Written(terminal[t].at, entries[own], tmux[own])
    BY <1>5, <1>6, MakerIsAlone
  <2>2. WrittenOut(entries[own], tmux[own]) /\ (entries[own].marker = "current" => ~entries[own].socket)
    BY <1>5, <1>6, <2>1, NothingIsTyped DEF Written, WrittenOut
  <2>3. \A o \in Terminals : ~TerminalAt(o, own, Making)'
    BY <1>1, <2>1 DEF TerminalAt, Dir, Making, Starting
  <2>4. \A o \in Terminals : TerminalAt(o, own, Clearing \union {"kill"})' =>
          TerminalAt(o, own, Clearing \union {"kill"}) /\ terminal'[o] = terminal[o]
    BY <1>1 DEF TerminalAt, Dir, Clearing, Emptying
  <2>5. \A o \in Terminals : TerminalAt(o, own, Clearing \union {"kill"})' => ClearedAway(terminal'[o], entries[own], tmux[own])
    BY <1>1, <1>6, <2>4 DEF PresInv, InOrder
  <2>6. Settled(own)'
    BY <2>2 DEF Settled, WrittenOut
  <2> QED BY <2>3, <2>5, <2>6 DEF InOrder
<1> QED BY <1>2, <1>3, <1>4, <1>5, <1>6 DEF PresInv

\* A stage that fails leads to the close of what was made.
LEMMA FailsInv ==
  ASSUME PresInv, NEW t \in Terminals, terminal[t].at \in Making, StageFails(t),
         Dir(t) \notin harmed => terminal[t].at \in {"server", "navigator", "provider", "bindings"}
  PROVE  PresInv'
<1>1. entries' = entries /\ tmux' = tmux /\ harmed' = harmed /\ (Ends(t) \/ BeginClose(t, "end"))
  BY DEF StageFails
<1>2. /\ terminal' = [terminal EXCEPT ![t] = terminal'[t]] /\ terminal'[t] \in TerminalStates
      /\ terminal'[t].at \in {"idle", "close", "prepare"}
      /\ terminal'[t].at # "idle" => terminal'[t].dir = terminal[t].dir
  BY <1>1, EndsIdle, BeginsClose
<1> QED BY <1>1, <1>2, LeavesMaking

\* A marker is truncated, and then written.
LEMMA OwnerMarkerInv ==
  ASSUME PresInv, NEW t \in Terminals,
         \/ WriteMarker(t, "bare", "context") \/ WriteMarker(t, "current", "server")
         \/ WriteMarker(t, "captured", "navigator") \/ InitializeContext(t) \/ CaptureSocket(t)
  PROVE  PresInv'
<1>1. terminal[t].at \in {"bare", "current", "captured", "context", "capture"} /\ terminal[t].at \in Making
  BY DEF WriteMarker, InitializeContext, CaptureSocket, TruncateMarker, Reached, Making, Starting
<1>2. Dir(t) \notin harmed => Written(terminal[t].at, entries[Dir(t)], tmux[Dir(t)])
  BY <1>1, MakerIsAlone
<1>3. Dir(t) \in Directories /\ entries[Dir(t)] \in FileStates /\ tmux[Dir(t)] \in ServerStates
  BY <1>1, PresTypes DEF PresInv, DirIsChosen, Choosing
<1>4. CASE StageFails(t)
  <2>1. CASE Dir(t) \in harmed
    BY <1>1, <1>4, <2>1, FailsInv
  <2>2. CASE Dir(t) \notin harmed
    <3>1. \/ terminal[t].at \in {"bare", "current", "captured"} /\ entries[Dir(t)].marker = "torn"
          \/ terminal[t].at = "context" /\ ReadableUninitialized(Dir(t))
          \/ terminal[t].at = "capture" /\ Readable(Dir(t)) /\ entries[Dir(t)].socket
      BY <1>1, <1>2, <2>2 DEF Written, ReadableUninitialized, Readable, Named
    <3>2. tmux' = tmux /\ harmed' = harmed /\ entries' = entries
      BY <1>4 DEF StageFails
    <3>3. PICK content \in Markers : entries' = [entries EXCEPT ![Dir(t)].marker = content] /\ entries[Dir(t)].marker # content
      BY <3>1, NothingIsTyped
      DEF WriteMarker, InitializeContext, CaptureSocket, TruncateMarker, Reached, Readable, ReadableUninitialized, Markers
    <3>4. entries'[Dir(t)].marker = content
      BY <1>3, <3>3, PresTypes DEF FileStates
    <3> QED BY <3>2, <3>3, <3>4
  <2> QED BY <2>1, <2>2
<1>5. CASE ~StageFails(t)
  <2>1. PICK content \in Markers, step \in Making :
          /\ entries' = [entries EXCEPT ![Dir(t)].marker = content]
          /\ Proceed(t, step) /\ tmux' = tmux /\ harmed' = harmed
          /\ step \in {"current", "captured"} => content = "torn"
          /\ step = "context" => content = "bare"
          /\ step = "server" => content = "current" /\ terminal[t].at = "current"
          /\ step = "navigator" => content = "captured" /\ terminal[t].at = "captured"
          /\ step = "captured" => terminal[t].at = "capture"
          /\ step = "context" => terminal[t].at = "bare"
          /\ step = "current" => terminal[t].at = "context"
          /\ step \in {"current", "captured", "context", "server", "navigator"}
    BY <1>5 DEF WriteMarker, InitializeContext, CaptureSocket, TruncateMarker, Reached, Making, Starting, Markers
  <2>2. /\ terminal' = [terminal EXCEPT ![t] = terminal'[t]] /\ terminal'[t] \in TerminalStates
        /\ terminal'[t].at = step /\ terminal'[t].dir = terminal[t].dir /\ Dir(t)' = Dir(t)
    BY <2>1, Proceeds DEF TerminalSteps, Making
  <2>3. PICK f : f = [entries[Dir(t)] EXCEPT !.marker = content]
    OBVIOUS
  <2>4. /\ f \in FileStates /\ f.marker = content /\ f.made = entries[Dir(t)].made
        /\ f.config = entries[Dir(t)].config /\ f.socket = entries[Dir(t)].socket
        /\ f.temporary = entries[Dir(t)].temporary
    BY <1>3, <2>3 DEF FileStates
  <2>5. entries' = [entries EXCEPT ![Dir(t)] = f]
    BY <1>3, <2>1, <2>3, PresTypes
  <2> HIDE <2>3
  <2>6. entries'[Dir(t)] = f
    BY <1>3, <2>5, PresTypes
  <2>7. Dir(t) \notin harmed => Written(step, f, tmux[Dir(t)])
    BY <1>2, <2>1, <2>4 DEF Written
  <2>8. tmux' = [tmux EXCEPT ![Dir(t)] = tmux'[Dir(t)]] /\ tmux'[Dir(t)] \in ServerStates
    BY <1>3, <2>1, PresTypes
  <2>9. tmux'[Dir(t)] = tmux[Dir(t)]
    BY <2>1
  <2> QED BY <1>1, <2>1, <2>2, <2>4, <2>5, <2>6, <2>7, <2>8, <2>9, MakingStep
<1> QED BY <1>4, <1>5

\* A fresh directory is one that no terminal has turned to.
LEMMA MakeDirectoryInv ==
  ASSUME PresInv, NEW t \in Terminals, MakeDirectory(t)
  PROVE  PresInv'
<1>1. PICK d \in Directories :
        /\ entries[d] = Missing /\ d \notin harmed /\ \A o \in Terminals : Dir(o) # d
        /\ entries' = [entries EXCEPT ![d].made = TRUE]
        /\ terminal' = [terminal EXCEPT ![t].at = "config", ![t].dir = d]
  BY DEF MakeDirectory
<1>2. terminal[t].at = "mkdir" /\ tmux' = tmux /\ harmed' = harmed /\ terminal[t] \in TerminalStates
  BY PresTypes DEF MakeDirectory, Reached
<1>3. PICK s : s = [terminal[t] EXCEPT !.at = "config", !.dir = d]
  OBVIOUS
<1>4. s \in TerminalStates /\ s.at = "config" /\ s.dir = d
  BY <1>2, <1>3 DEF TerminalStates, TerminalSteps, Starting
<1>5. terminal' = [terminal EXCEPT ![t] = s]
  BY <1>1, <1>3, PresTypes
<1>6. /\ terminal'[t] = s /\ terminal' \in [Terminals -> TerminalStates]
      /\ \A o \in Terminals \ {t} : terminal'[o] = terminal[o]
  BY <1>4, <1>5, PresTypes
<1>7. PICK f : f = [Missing EXCEPT !.made = TRUE]
  OBVIOUS
<1>8. f \in FileStates /\ f.made /\ f.marker = "none" /\ ~f.socket /\ f.temporary = "none"
  BY <1>7, NothingIsTyped DEF FileStates, Missing
<1>9. /\ entries' = [entries EXCEPT ![d] = f] /\ entries'[d] = f
      /\ entries' \in [Directories -> FileStates]
      /\ \A e \in Directories \ {d} : entries'[e] = entries[e]
  BY <1>1, <1>7, <1>8, PresTypes
<1> HIDE <1>3, <1>7
<1>10. PresentationTypeOK'
  BY <1>2, <1>6, <1>9, PresTypes DEF PresentationTypeOK, FileStates, ServerStates, TerminalStates, TerminalSteps
<1>11. DirIsChosen'
  BY <1>4, <1>6 DEF PresInv, DirIsChosen, Dir
<1>12. ASSUME NEW e \in Directories \ harmed, e # d PROVE InOrder(e)'
  <2>1. ~TerminalAt(t, e, Making \union Emptying)
    BY <1>2 DEF TerminalAt, Making, Starting, Emptying
  <2>2. ~TerminalAt(t, e, Making \union Clearing \union {"kill"})'
    BY <1>4, <1>6, <1>12 DEF TerminalAt, Dir
  <2> QED BY <1>2, <1>6, <1>9, <1>12, <2>1, <2>2, Bystander DEF Quiets
<1>13. InOrder(d)'
  <2>1. \A o \in Terminals : ~TerminalAt(o, d, Making \union Emptying)
    BY <1>1 DEF TerminalAt
  <2>2. tmux[d] = NoServer
    BY <1>1, <2>1, NothingIsTyped DEF PresInv, InOrder, Settled, WrittenOut, TerminalAt
  <2>3. \A o \in Terminals : terminal'[o].dir = d => o = t
    BY <1>1, <1>6 DEF Dir
  <2>4. Written("config", f, NoServer)
    BY <1>8, NothingIsTyped DEF Written
  <2>5. /\ TerminalAt(t, d, Making)' /\ ~TerminalAt(t, d, Clearing \union {"kill"})'
    BY <1>4, <1>6 DEF TerminalAt, Dir, Making, Starting, Clearing, Emptying
  <2> QED BY <1>2, <1>4, <1>6, <1>9, <2>2, <2>3, <2>4, <2>5 DEF InOrder, TerminalAt, Dir
<1> QED BY <1>2, <1>10, <1>11, <1>12, <1>13 DEF PresInv

\* A step of the maker that writes a file.
LEMMA WritesInv ==
  ASSUME PresInv, NEW t \in Terminals, WriteConfig(t) \/ CreateMarker(t)
  PROVE  PresInv'
<1>1. terminal[t].at \in {"config", "create"} /\ terminal[t].at \in Making /\ tmux' = tmux /\ harmed' = harmed
  BY DEF WriteConfig, CreateMarker, Reached, Making, Starting
<1>2. Dir(t) \notin harmed => Written(terminal[t].at, entries[Dir(t)], tmux[Dir(t)])
  BY <1>1, MakerIsAlone
<1>3. Dir(t) \in Directories /\ entries[Dir(t)] \in FileStates /\ tmux[Dir(t)] \in ServerStates
  BY <1>1, PresTypes DEF PresInv, DirIsChosen, Choosing
<1>4. PICK f \in FileStates, step \in {"create", "bare"} :
        /\ entries' = [entries EXCEPT ![Dir(t)] = f] /\ Proceed(t, step)
        /\ Dir(t) \notin harmed => Written(step, f, tmux[Dir(t)])
  <2>1. CASE WriteConfig(t)
    <3>1. PICK f : f = [entries[Dir(t)] EXCEPT !.config = TRUE]
      OBVIOUS
    <3>2. /\ f \in FileStates /\ f.config /\ f.made = entries[Dir(t)].made /\ f.marker = entries[Dir(t)].marker
          /\ f.socket = entries[Dir(t)].socket /\ f.temporary = entries[Dir(t)].temporary
      BY <1>3, <3>1 DEF FileStates
    <3>3. entries' = [entries EXCEPT ![Dir(t)] = f] /\ Proceed(t, "create") /\ terminal[t].at = "config"
      BY <1>3, <2>1, <3>1, PresTypes DEF WriteConfig, Reached
    <3> HIDE <3>1
    <3>4. Dir(t) \notin harmed => Written("create", f, tmux[Dir(t)])
      BY <1>2, <3>2, <3>3 DEF Written
    <3> QED BY <3>2, <3>3, <3>4
  <2>2. CASE CreateMarker(t)
    <3>1. PICK f : f = [entries[Dir(t)] EXCEPT !.marker = "torn"]
      OBVIOUS
    <3>2. /\ f \in FileStates /\ f.marker = "torn" /\ f.made = entries[Dir(t)].made /\ f.config = entries[Dir(t)].config
          /\ f.socket = entries[Dir(t)].socket /\ f.temporary = entries[Dir(t)].temporary
      BY <1>3, <3>1 DEF FileStates, Markers
    <3>3. entries' = [entries EXCEPT ![Dir(t)] = f] /\ Proceed(t, "bare") /\ terminal[t].at = "create"
      BY <1>3, <2>2, <3>1, PresTypes DEF CreateMarker, Reached
    <3> HIDE <3>1
    <3>4. Dir(t) \notin harmed => Written("bare", f, tmux[Dir(t)])
      BY <1>2, <3>2, <3>3 DEF Written
    <3> QED BY <3>2, <3>3, <3>4
  <2> QED BY <2>1, <2>2
<1>5. /\ terminal' = [terminal EXCEPT ![t] = terminal'[t]] /\ terminal'[t] \in TerminalStates
      /\ terminal'[t].at = step /\ terminal'[t].dir = terminal[t].dir /\ step \in Making
  BY <1>4, Proceeds DEF TerminalSteps, Making, Starting
<1>6. entries'[Dir(t)] = f
  BY <1>3, <1>4, PresTypes
<1>7. tmux' = [tmux EXCEPT ![Dir(t)] = tmux'[Dir(t)]] /\ tmux'[Dir(t)] = tmux[Dir(t)]
  BY <1>1, <1>3, PresTypes
<1> QED BY <1>1, <1>3, <1>4, <1>5, <1>6, <1>7, MakingStep

\* The server starts, with a socket of its own.
LEMMA NewServerInv ==
  ASSUME PresInv, NEW t \in Terminals, NewServer(t)
  PROVE  PresInv'
<1>1. terminal[t].at = "server" /\ terminal[t].at \in Making
  BY DEF NewServer, Reached, Making, Starting
<1>2. Dir(t) \notin harmed => Written("server", entries[Dir(t)], tmux[Dir(t)])
  BY <1>1, MakerIsAlone
<1>3. Dir(t) \in Directories /\ entries[Dir(t)] \in FileStates
  BY <1>1, PresTypes DEF PresInv, DirIsChosen, Choosing
<1>4. CASE StageFails(t)
  BY <1>1, <1>4, FailsInv
<1>5. CASE /\ entries' = [entries EXCEPT ![Dir(t)].socket = TRUE]
           /\ tmux' = [tmux EXCEPT ![Dir(t)] = [NoServer EXCEPT !.live = TRUE, !.navigator = "alive"]]
           /\ Proceed(t, "capture") /\ harmed' = harmed
  <2>1. PICK f : f = [entries[Dir(t)] EXCEPT !.socket = TRUE]
    OBVIOUS
  <2>2. /\ f \in FileStates /\ f.socket /\ f.made = entries[Dir(t)].made /\ f.config = entries[Dir(t)].config
        /\ f.marker = entries[Dir(t)].marker /\ f.temporary = entries[Dir(t)].temporary
    BY <1>3, <2>1 DEF FileStates
  <2>3. entries' = [entries EXCEPT ![Dir(t)] = f] /\ entries'[Dir(t)] = f
    BY <1>3, <1>5, <2>1, PresTypes
  <2>4. PICK s : s = [NoServer EXCEPT !.live = TRUE, !.navigator = "alive"]
    OBVIOUS
  <2>5. s \in ServerStates /\ ~s.provider
    BY <2>4, NothingIsTyped DEF ServerStates
  <2>6. tmux' = [tmux EXCEPT ![Dir(t)] = s] /\ tmux'[Dir(t)] = s
    BY <1>3, <1>5, <2>4, PresTypes
  <2> HIDE <2>1, <2>4
  <2>7. /\ terminal' = [terminal EXCEPT ![t] = terminal'[t]] /\ terminal'[t] \in TerminalStates
        /\ terminal'[t].at = "capture" /\ terminal'[t].dir = terminal[t].dir /\ "capture" \in Making
    BY <1>5, Proceeds DEF TerminalSteps, Making, Starting
  <2>8. Dir(t) \notin harmed => Written("capture", f, s)
    BY <1>2, <2>2, <2>5 DEF Written
  <2> QED BY <1>1, <1>5, <2>2, <2>3, <2>5, <2>6, <2>7, <2>8, MakingStep
<1> QED BY <1>4, <1>5 DEF NewServer

\* The Navigator and the provider pane are launched.
LEMMA StageInv ==
  ASSUME PresInv, NEW t \in Terminals, LaunchNavigator(t) \/ SplitProvider(t)
  PROVE  PresInv'
<1>1. terminal[t].at \in {"navigator", "provider"} /\ terminal[t].at \in Making
  BY DEF LaunchNavigator, SplitProvider, Stage, Reached, Making, Starting
<1>2. Dir(t) \notin harmed => Written(terminal[t].at, entries[Dir(t)], tmux[Dir(t)])
  BY <1>1, MakerIsAlone
<1>3. Dir(t) \in Directories /\ entries[Dir(t)] \in FileStates /\ tmux[Dir(t)] \in ServerStates
  BY <1>1, PresTypes DEF PresInv, DirIsChosen, Choosing
<1>4. CASE StageFails(t)
  BY <1>1, <1>4, FailsInv
<1>5. CASE ~StageFails(t)
  <2>1. PICK s \in ServerStates, step \in {"provider", "bindings"} :
          /\ tmux' = [tmux EXCEPT ![Dir(t)] = s] /\ Proceed(t, step) /\ entries' = entries /\ harmed' = harmed
          /\ step = "provider" => ~s.provider \/ Dir(t) \in harmed
    <3>1. CASE LaunchNavigator(t)
      BY <1>2, <1>3, <1>5, <3>1 DEF LaunchNavigator, Stage, Reached, Written
    <3>2. CASE SplitProvider(t)
      <4>1. [tmux[Dir(t)] EXCEPT !.provider = TRUE] \in ServerStates
        BY <1>3 DEF ServerStates
      <4> QED BY <1>5, <3>2, <4>1 DEF SplitProvider, Stage
    <3> QED BY <3>1, <3>2
  <2>2. /\ terminal' = [terminal EXCEPT ![t] = terminal'[t]] /\ terminal'[t] \in TerminalStates
        /\ terminal'[t].at = step /\ terminal'[t].dir = terminal[t].dir /\ step \in Making
    BY <2>1, Proceeds DEF TerminalSteps, Making, Starting
  <2>3. tmux'[Dir(t)] = s /\ entries'[Dir(t)] = entries[Dir(t)] /\ entries' = [entries EXCEPT ![Dir(t)] = entries'[Dir(t)]]
    BY <1>3, <2>1, PresTypes
  <2>4. Dir(t) \notin harmed => Written(step, entries[Dir(t)], s)
    BY <1>1, <1>2, <2>1 DEF Written
  <2> QED BY <1>1, <1>3, <2>1, <2>2, <2>3, <2>4, MakingStep
<1> QED BY <1>4, <1>5

\* The bindings are installed, and the directory is whole.
LEMMA BindingsInv ==
  ASSUME PresInv, NEW t \in Terminals, InstallBindings(t)
  PROVE  PresInv'
<1>1. terminal[t].at = "bindings" /\ terminal[t].at \in Making
  BY DEF InstallBindings, Reached, Making, Starting
<1>2. CASE StageFails(t)
  BY <1>1, <1>2, FailsInv
<1>3. CASE Proceed(t, "prepare") /\ entries' = entries /\ tmux' = tmux /\ harmed' = harmed
  <2>1. /\ terminal' = [terminal EXCEPT ![t] = terminal'[t]] /\ terminal'[t] \in TerminalStates
        /\ terminal'[t].at = "prepare" /\ terminal'[t].dir = terminal[t].dir
    BY <1>3, Proceeds DEF TerminalSteps
  <2> QED BY <1>1, <1>3, <2>1, LeavesMaking
<1> QED BY <1>2, <1>3 DEF InstallBindings

-----------------------------------------------------------------------------
(* A terminal closes a presentation.                                       *)

\* A terminal that removes files and did not meet a start.
LEMMA CloserKnows ==
  ASSUME PresInv, NEW t \in Terminals, terminal[t].at \in Clearing \union {"kill"}, Dir(t) \notin harmed
  PROVE  /\ Dir(t) \in Directories /\ ClearedAway(terminal[t], entries[Dir(t)], tmux[Dir(t)])
         /\ terminal[t].at \in Clearing =>
              Settled(Dir(t)) /\ \A o \in Terminals : ~TerminalAt(o, Dir(t), Making)
<1>1. Dir(t) \in Directories
  BY DEF PresInv, DirIsChosen, Clearing, Emptying, Choosing
<1>2. TerminalAt(t, Dir(t), Clearing \union {"kill"}) /\ InOrder(Dir(t))
  BY <1>1 DEF TerminalAt, PresInv
<1>3. ASSUME terminal[t].at \in Clearing, NEW o \in Terminals PROVE ~TerminalAt(o, Dir(t), Making)
  <2>1. TerminalAt(t, Dir(t), Making \union Clearing) /\ ~TerminalAt(t, Dir(t), Making)
    BY <1>3 DEF TerminalAt, Making, Starting, Clearing, Emptying
  <2> QED BY <1>2, <2>1 DEF InOrder
<1> QED BY <1>1, <1>2, <1>3 DEF InOrder

\* A closer reads the marker and the socket, or refuses.
LEMMA ReadOwnershipInv ==
  ASSUME PresInv, NEW t \in Terminals, ReadOwnership(t)
  PROVE  PresInv'
<1>1. /\ terminal[t].at = "close" /\ entries' = entries /\ tmux' = tmux /\ harmed' = harmed
      /\ terminal[t].at \notin Making \union Emptying /\ terminal[t] \in TerminalStates
  BY PresTypes DEF ReadOwnership, Reached, Making, Starting, Emptying
<1>2. Dir(t) \in Directories
  BY <1>1 DEF PresInv, DirIsChosen, Choosing
<1>3. CASE Closed(t) \/ Ends(t)
  <2>1. /\ terminal' = [terminal EXCEPT ![t] = terminal'[t]] /\ terminal'[t] \in TerminalStates
        /\ terminal'[t].at \in {"scan", "idle"}
    BY <1>3, Closes, EndsIdle
  <2>2. terminal'[t].at \notin Making \union Clearing \union {"kill"} /\ terminal'[t].at \in Choosing
    BY <2>1 DEF Making, Starting, Clearing, Emptying, Choosing
  <2> QED BY <1>1, <2>1, <2>2, PresTypes, StepIsQuiet, PlainStep
<1>4. CASE /\ Readable(Dir(t))
           /\ terminal' = [terminal EXCEPT ![t].at = "kill", ![t].marker = entries[Dir(t)].marker,
                                           ![t].socket = entries[Dir(t)].socket]
  <2>1. PICK s : s = [terminal[t] EXCEPT !.at = "kill", !.marker = entries[Dir(t)].marker,
                                         !.socket = entries[Dir(t)].socket]
    OBVIOUS
  <2>2. entries[Dir(t)] \in FileStates
    BY <1>2, PresTypes
  <2>3. /\ s \in TerminalStates /\ s.at = "kill" /\ s.marker = entries[Dir(t)].marker
        /\ s.socket = entries[Dir(t)].socket /\ s.dir = terminal[t].dir
    BY <1>1, <2>1, <2>2 DEF TerminalStates, TerminalSteps, Closing, FileStates
  <2>4. terminal' = [terminal EXCEPT ![t] = s]
    BY <1>4, <2>1, PresTypes
  <2> HIDE <2>1
  <2>5. /\ terminal'[t] = s /\ terminal' \in [Terminals -> TerminalStates]
        /\ \A o \in Terminals \ {t} : terminal'[o] = terminal[o]
    BY <2>3, <2>4, PresTypes
  <2>6. PresentationTypeOK'
    BY <1>1, <2>5, PresTypes DEF PresentationTypeOK, FileStates, ServerStates, TerminalStates, TerminalSteps
  <2>7. DirIsChosen'
    BY <1>2, <2>3, <2>5 DEF PresInv, DirIsChosen, Dir
  <2>8. PICK own \in Directories : own = Dir(t)
    BY <1>2
  <2>9. ASSUME NEW d \in Directories \ harmed, d # own PROVE InOrder(d)'
    BY <1>1, <2>3, <2>5, <2>8, <2>9, Elsewhere DEF Quiets, Dir
  <2>10. ASSUME own \notin harmed PROVE InOrder(own)'
    <3>1. InOrder(own)
      BY <2>10 DEF PresInv
    <3>2. ClearedAway(s, entries[own], tmux[own])
      <4>1. entries[own].marker \in {"current", "captured"} /\ entries[own].config
        BY <1>4, <2>8 DEF Readable
      <4>2. CASE \E o \in Terminals : TerminalAt(o, own, Making)
        BY <2>3, <2>8, <3>1, <4>1, <4>2 DEF InOrder, Written, ClearedAway, Clearing, Emptying, TerminalAt, Making, Starting
      <4>3. CASE \A o \in Terminals : ~TerminalAt(o, own, Making)
        BY <2>3, <2>8, <3>1, <4>1, <4>3 DEF InOrder, Settled, ClearedAway, Clearing, Emptying
      <4> QED BY <4>2, <4>3
    <3>3. \A o \in Terminals : TerminalAt(o, own, Making \union Clearing)' <=> TerminalAt(o, own, Making \union Clearing)
      BY <1>1, <2>3, <2>5 DEF TerminalAt, Dir, Making, Starting, Clearing, Emptying
    <3>4. \A o \in Terminals : TerminalAt(o, own, Making)' <=> TerminalAt(o, own, Making)
      BY <1>1, <2>3, <2>5 DEF TerminalAt, Dir, Making, Starting
    <3>5. \A o \in Terminals : TerminalAt(o, own, Emptying) => TerminalAt(o, own, Emptying)'
      BY <1>1, <2>3, <2>5 DEF TerminalAt, Dir, Emptying
    <3>6. \A o \in Terminals : TerminalAt(o, own, Clearing \union {"kill"})' => ClearedAway(terminal'[o], entries[own], tmux[own])
      BY <2>5, <3>1, <3>2 DEF InOrder, TerminalAt, Dir
    <3>7. \A o \in Terminals : TerminalAt(o, own, Making)' => terminal'[o] = terminal[o]
      BY <2>3, <2>5 DEF TerminalAt, Dir, Making, Starting
    <3>8. (\A o \in Terminals : ~TerminalAt(o, own, Making)') => Settled(own)'
      BY <1>1, <3>1, <3>4, <3>5 DEF InOrder, Settled
    <3> QED BY <1>1, <3>1, <3>3, <3>4, <3>6, <3>7, <3>8 DEF InOrder
  <2> QED BY <1>1, <2>6, <2>7, <2>8, <2>9, <2>10 DEF PresInv
<1> QED BY <1>3, <1>4 DEF ReadOwnership

\* Nobody makes a directory whose server a close ends without harm.
LEMMA KillInv ==
  ASSUME PresInv, NEW t \in Terminals, KillServer(t)
  PROVE  PresInv'
<1>1. /\ terminal[t].at = "kill" /\ entries' = entries /\ tmux' = [tmux EXCEPT ![Dir(t)] = NoServer]
      /\ Proceed(t, "remove") /\ harmed \subseteq harmed'
      /\ Contested(t) => Dir(t) \in harmed'
      /\ harmed' \subseteq harmed \union {Dir(t)}
  BY DEF KillServer, Reached
<1>2. PICK own \in Directories : own = Dir(t)
  BY <1>1 DEF PresInv, DirIsChosen, Choosing
<1>3. /\ terminal' = [terminal EXCEPT ![t] = terminal'[t]] /\ terminal'[t] \in TerminalStates
      /\ terminal'[t].at = "remove" /\ terminal'[t].dir = terminal[t].dir
      /\ terminal'[t].marker = terminal[t].marker /\ terminal'[t].socket = terminal[t].socket
      /\ Dir(t)' = Dir(t)
  BY <1>1, Proceeds DEF TerminalSteps, Closing
<1>4. /\ terminal' \in [Terminals -> TerminalStates]
      /\ \A o \in Terminals \ {t} : terminal'[o] = terminal[o]
  BY <1>3, PresTypes
<1>5. /\ tmux' \in [Directories -> ServerStates] /\ tmux'[own] = NoServer
      /\ \A d \in Directories \ {own} : tmux'[d] = tmux[d]
  BY <1>1, <1>2, PresTypes, NothingIsTyped
<1>6. PresentationTypeOK'
  BY <1>1, <1>2, <1>4, <1>5, PresTypes
  DEF PresentationTypeOK, FileStates, ServerStates, TerminalStates, TerminalSteps
<1>7. DirIsChosen'
  BY <1>2, <1>3, <1>4 DEF PresInv, DirIsChosen, Dir
<1>8. ASSUME NEW d \in Directories \ harmed', d # own PROVE InOrder(d)'
  BY <1>1, <1>2, <1>3, <1>4, <1>5, <1>8, Elsewhere DEF Quiets
<1>9. ASSUME own \notin harmed' PROVE InOrder(own)'
  <2>1. InOrder(own) /\ own \notin harmed
    BY <1>1, <1>9 DEF PresInv
  <2>2. \A o \in Terminals : ~TerminalAt(o, own, Making) /\ ~TerminalAt(o, own, Making)'
    BY <1>1, <1>2, <1>3, <1>4, <1>9 DEF TerminalAt, Dir, Contested, Making, Starting
  <2>3. \A o \in Terminals : TerminalAt(o, own, Clearing \union {"kill"})' => TerminalAt(o, own, Clearing \union {"kill"})
    BY <1>1, <1>2, <1>4 DEF TerminalAt, Dir
  <2>4. \A o \in Terminals : TerminalAt(o, own, Clearing \union {"kill"})' => ClearedAway(terminal'[o], entries[own], NoServer)
    <3> SUFFICES ASSUME NEW o \in Terminals, TerminalAt(o, own, Clearing \union {"kill"})'
                 PROVE  ClearedAway(terminal'[o], entries[own], NoServer)
      OBVIOUS
    <3>1. ClearedAway(terminal[o], entries[own], tmux[own])
      BY <2>1, <2>3 DEF InOrder
    <3> QED BY <1>3, <1>4, <3>1 DEF ClearedAway, Emptying
  <2>5. \A o \in Terminals : TerminalAt(o, own, Emptying) => TerminalAt(o, own, Emptying)'
    BY <1>1, <1>4 DEF TerminalAt, Dir, Emptying
  <2>6. Settled(own)'
    BY <1>1, <1>5, <2>1, <2>2, <2>5, NothingIsTyped DEF InOrder, Settled, WrittenOut
  <2> QED BY <1>1, <1>5, <2>2, <2>4, <2>6 DEF InOrder
<1> QED BY <1>6, <1>7, <1>8, <1>9 DEF PresInv

\* A removal takes one file away.
Shrinks(g, f) ==
  /\ g.made = f.made /\ g.temporary = f.temporary /\ g.marker \in {f.marker, "none"}
  /\ (g.status => f.status) /\ (g.config => f.config) /\ (g.socket => f.socket)
  /\ g.config /\ g.marker = "captured" /\ f.socket => g.socket

\* A closer removes one more file of a directory without a server.
LEMMA EmptyingStep ==
  ASSUME PresInv, NEW t \in Terminals, terminal[t].at \in Clearing,
         terminal' = [terminal EXCEPT ![t] = terminal'[t]], terminal'[t] \in TerminalStates,
         terminal'[t].at \in Emptying, terminal'[t].dir = terminal[t].dir,
         NEW g \in FileStates, entries' = [entries EXCEPT ![Dir(t)] = g],
         tmux' = tmux, harmed' = harmed,
         Dir(t) \notin harmed => /\ Shrinks(g, entries[Dir(t)]) /\ entries[Dir(t)].made
                                 /\ ClearedAway(terminal'[t], g, tmux[Dir(t)])
  PROVE  PresInv'
<1>1. PICK own \in Directories : own = Dir(t)
  BY DEF PresInv, DirIsChosen, Clearing, Emptying, Choosing
<1>2. /\ terminal' \in [Terminals -> TerminalStates]
      /\ \A o \in Terminals \ {t} : terminal'[o] = terminal[o]
      /\ entries' \in [Directories -> FileStates] /\ entries'[own] = g
      /\ \A d \in Directories \ {own} : entries'[d] = entries[d]
  BY <1>1, PresTypes
<1>3. PresentationTypeOK'
  BY <1>2, PresTypes DEF PresentationTypeOK, FileStates, ServerStates, TerminalStates, TerminalSteps
<1>4. DirIsChosen'
  BY <1>1, <1>2 DEF PresInv, DirIsChosen, Dir
<1>5. ASSUME NEW d \in Directories \ harmed, d # own PROVE InOrder(d)'
  BY <1>1, <1>2, <1>5, Elsewhere DEF Quiets, Dir
<1>6. ASSUME own \notin harmed PROVE InOrder(own)'
  <2>1. /\ InOrder(own) /\ Settled(own) /\ \A o \in Terminals : ~TerminalAt(o, own, Making)
        /\ Shrinks(g, entries[own]) /\ entries[own].made /\ ClearedAway(terminal'[t], g, tmux[own])
    BY <1>1, <1>6, CloserKnows DEF PresInv
  <2>2. \A o \in Terminals : ~TerminalAt(o, own, Making)'
    BY <1>2, <2>1 DEF TerminalAt, Dir, Making, Starting, Emptying
  <2>3. TerminalAt(t, own, Emptying)'
    BY <1>1 DEF TerminalAt, Dir
  <2>4. \A o \in Terminals : TerminalAt(o, own, Clearing \union {"kill"})' => ClearedAway(terminal'[o], g, tmux[own])
    <3> SUFFICES ASSUME NEW o \in Terminals, o # t, TerminalAt(o, own, Clearing \union {"kill"})'
                 PROVE  ClearedAway(terminal'[o], g, tmux[own])
      BY <2>1
    <3>1. ClearedAway(terminal[o], entries[own], tmux[own]) /\ terminal'[o] = terminal[o]
      BY <1>2, <2>1 DEF InOrder, TerminalAt, Dir
    <3> QED BY <2>1, <3>1, NothingIsTyped DEF ClearedAway, Shrinks
  <2>5. /\ g.marker = "current" => ~g.socket
        /\ g.config /\ g.marker = "captured" => g.socket
    BY <2>1 DEF Settled, Shrinks
  <2>6. Settled(own)'
    BY <1>2, <2>3, <2>5 DEF Settled
  <2> QED BY <1>2, <2>2, <2>4, <2>6 DEF InOrder
<1> QED BY <1>1, <1>3, <1>4, <1>5, <1>6 DEF PresInv

\* A closer that stops finds the directory gone, or has removed it.
LEMMA EmptiedStep ==
  ASSUME PresInv, NEW t \in Terminals, terminal[t].at \in Emptying,
         terminal' = [terminal EXCEPT ![t] = terminal'[t]], terminal'[t] \in TerminalStates,
         terminal'[t].at \in {"idle", "scan"},
         entries' = entries \/ entries' = [entries EXCEPT ![Dir(t)] = Missing],
         tmux' = tmux, harmed' = harmed,
         Dir(t) \notin harmed => entries'[Dir(t)] = Missing
  PROVE  PresInv'
<1>1. PICK own \in Directories : own = Dir(t)
  BY DEF PresInv, DirIsChosen, Emptying, Choosing
<1>2. /\ terminal' \in [Terminals -> TerminalStates]
      /\ \A o \in Terminals \ {t} : terminal'[o] = terminal[o]
      /\ entries' \in [Directories -> FileStates]
      /\ \A d \in Directories \ {own} : entries'[d] = entries[d]
  BY <1>1, PresTypes, NothingIsTyped
<1>3. PresentationTypeOK'
  BY <1>2, PresTypes DEF PresentationTypeOK, FileStates, ServerStates, TerminalStates, TerminalSteps
<1>4. DirIsChosen'
  BY <1>1, <1>2 DEF PresInv, DirIsChosen, Dir, Choosing
<1>5. ASSUME NEW d \in Directories \ harmed, d # own PROVE InOrder(d)'
  <2>1. ~TerminalAt(t, d, Making \union Emptying) /\ ~TerminalAt(t, d, Making \union Clearing \union {"kill"})'
    BY <1>1, <1>5 DEF TerminalAt, Dir, Making, Starting, Clearing, Emptying
  <2> QED BY <1>2, <1>5, <2>1, Bystander DEF Quiets
<1>6. ASSUME own \notin harmed PROVE InOrder(own)'
  <2>0. terminal[t].at \in Clearing
    BY DEF Clearing
  <2>1. /\ InOrder(own) /\ \A o \in Terminals : ~TerminalAt(o, own, Making)
        /\ ClearedAway(terminal[t], entries[own], tmux[own]) /\ entries'[own] = Missing
    BY <1>1, <1>6, <2>0, CloserKnows DEF PresInv
  <2>2. \A o \in Terminals : ~TerminalAt(o, own, Making)'
    BY <1>2, <2>1 DEF TerminalAt, Dir, Making, Starting
  <2>3. tmux[own] = NoServer
    BY <2>0, <2>1 DEF ClearedAway
  <2>4. \A o \in Terminals : TerminalAt(o, own, Clearing \union {"kill"})' => ClearedAway(terminal'[o], Missing, tmux[own])
    <3> SUFFICES ASSUME NEW o \in Terminals, TerminalAt(o, own, Clearing \union {"kill"})'
                 PROVE  ClearedAway(terminal'[o], Missing, tmux[own])
      OBVIOUS
    <3>1. ClearedAway(terminal[o], entries[own], tmux[own]) /\ terminal'[o] = terminal[o]
      BY <1>2, <2>1 DEF InOrder, TerminalAt, Dir, Clearing, Emptying
    <3> QED BY <2>3, <3>1 DEF ClearedAway
  <2>5. Settled(own)'
    BY <2>1, <2>3, NothingIsTyped DEF Settled
  <2> QED BY <2>1, <2>2, <2>4, <2>5 DEF InOrder
<1> QED BY <1>1, <1>3, <1>4, <1>5, <1>6 DEF PresInv

\* One removal, which a directory that is gone refuses.
LEMMA RemoveInv ==
  ASSUME PresInv, NEW t \in Terminals, RemoveFiles(t)
  PROVE  PresInv'
<1>1. PICK step \in Clearing \ {"rmdir"}, next \in Emptying, g \in FileStates, allowed \in BOOLEAN :
        /\ Remove(t, step, allowed, g, next)
        /\ step = "remove" => /\ next = "rm_status" /\ g = entries[Dir(t)]
                              /\ allowed => Readable(Dir(t)) /\ SameMarker(t)
        /\ step = "rm_status" => allowed
        /\ step = "rm_config" => allowed
        /\ step = "rm_socket" => allowed \/ (entries[Dir(t)].socket /\ ~terminal[t].socket)
        /\ step = "rm_marker" => allowed \/ (entries[Dir(t)].marker # "none" /\ ~SameMarker(t))
        /\ step # "remove" => Shrinks(g, entries[Dir(t)]) \/ step = "rm_socket"
        /\ step = "rm_status" => next = "rm_config" /\ ~g.status /\ g.config = entries[Dir(t)].config
                                 /\ g.socket = entries[Dir(t)].socket
        /\ step = "rm_config" => /\ next = "rm_socket" /\ ~g.config
        /\ step = "rm_socket" => /\ next = "rm_marker" /\ ~g.socket /\ g.config = entries[Dir(t)].config
                                 /\ g.made = entries[Dir(t)].made /\ g.temporary = entries[Dir(t)].temporary
                                 /\ g.marker = entries[Dir(t)].marker /\ g.status = entries[Dir(t)].status
        /\ step = "rm_marker" => next = "rmdir" /\ g.marker = "none"
  <2>1. PICK f \in FileStates : f = entries[Dir(t)]
    BY PresTypes DEF RemoveFiles, Remove, Reached, PresInv, DirIsChosen, Choosing
  <2>2. CASE Remove(t, "remove", Readable(Dir(t)) /\ SameMarker(t), f, "rm_status")
    <3>1. PICK allowed \in BOOLEAN : allowed = (Readable(Dir(t)) /\ SameMarker(t))
      OBVIOUS
    <3>2. Remove(t, "remove", allowed, f, "rm_status") /\ (allowed => Readable(Dir(t)) /\ SameMarker(t))
      BY <2>2, <3>1
    <3> HIDE <3>1
    <3> QED BY <2>1, <3>2 DEF Clearing, Emptying
  <2>3. CASE Remove(t, "rm_status", TRUE, [f EXCEPT !.status = FALSE], "rm_config")
    <3>1. PICK g : g = [f EXCEPT !.status = FALSE]
      OBVIOUS
    <3>2. /\ g \in FileStates /\ ~g.status /\ g.config = f.config /\ g.socket = f.socket
          /\ g.made = f.made /\ g.temporary = f.temporary /\ g.marker = f.marker
      BY <2>1, <3>1 DEF FileStates
    <3>3. Remove(t, "rm_status", TRUE, g, "rm_config") /\ Shrinks(g, f)
      BY <2>3, <3>1, <3>2 DEF Shrinks
    <3>4. PICK allowed \in BOOLEAN : allowed = (f \in FileStates)
      OBVIOUS
    <3>5. Remove(t, "rm_status", allowed, g, "rm_config") /\ (allowed \/ f \notin FileStates) /\ Shrinks(g, f)
      BY <2>1, <3>3, <3>4 DEF Remove
    <3> HIDE <3>1, <3>4
    <3> QED BY <2>1, <3>2, <3>5 DEF Clearing, Emptying
  <2>4. CASE Remove(t, "rm_config", TRUE, [f EXCEPT !.config = FALSE], "rm_socket")
    <3>1. PICK g : g = [f EXCEPT !.config = FALSE]
      OBVIOUS
    <3>2. /\ g \in FileStates /\ g.status = f.status /\ ~g.config /\ g.socket = f.socket
          /\ g.made = f.made /\ g.temporary = f.temporary /\ g.marker = f.marker
      BY <2>1, <3>1 DEF FileStates
    <3>3. Remove(t, "rm_config", TRUE, g, "rm_socket") /\ Shrinks(g, f)
      BY <2>4, <3>1, <3>2 DEF Shrinks
    <3>4. PICK allowed \in BOOLEAN : allowed = (f \in FileStates)
      OBVIOUS
    <3>5. Remove(t, "rm_config", allowed, g, "rm_socket") /\ (allowed \/ f \notin FileStates) /\ Shrinks(g, f)
      BY <2>1, <3>3, <3>4 DEF Remove
    <3> HIDE <3>1, <3>4
    <3> QED BY <2>1, <3>2, <3>5 DEF Clearing, Emptying
  <2>5. CASE Remove(t, "rm_socket", ~f.socket \/ terminal[t].socket, [f EXCEPT !.socket = FALSE], "rm_marker")
    <3>1. PICK g : g = [f EXCEPT !.socket = FALSE]
      OBVIOUS
    <3>2. /\ g \in FileStates /\ g.status = f.status /\ g.config = f.config /\ ~g.socket
          /\ g.made = f.made /\ g.temporary = f.temporary /\ g.marker = f.marker
      BY <2>1, <3>1 DEF FileStates
    <3>3. PICK allowed \in BOOLEAN : allowed = (~f.socket \/ terminal[t].socket)
      OBVIOUS
    <3>4. Remove(t, "rm_socket", allowed, g, "rm_marker") /\ (allowed \/ (f.socket /\ ~terminal[t].socket))
      BY <2>5, <3>1, <3>3
    <3> HIDE <3>1, <3>3
    <3> QED BY <2>1, <3>2, <3>4 DEF Clearing, Emptying
  <2>6. CASE Remove(t, "rm_marker", f.marker = "none" \/ SameMarker(t), [f EXCEPT !.marker = "none"], "rmdir")
    <3>1. PICK g : g = [f EXCEPT !.marker = "none"]
      OBVIOUS
    <3>2. /\ g \in FileStates /\ g.status = f.status /\ g.config = f.config /\ g.socket = f.socket
          /\ g.made = f.made /\ g.temporary = f.temporary /\ g.marker = "none"
      BY <2>1, <3>1 DEF FileStates, Markers
    <3>3. PICK allowed \in BOOLEAN : allowed = (f.marker = "none" \/ SameMarker(t))
      OBVIOUS
    <3>4. /\ Remove(t, "rm_marker", allowed, g, "rmdir") /\ (allowed \/ (f.marker # "none" /\ ~SameMarker(t)))
          /\ Shrinks(g, f)
      BY <2>6, <3>1, <3>2, <3>3 DEF Shrinks
    <3> HIDE <3>1, <3>3
    <3> QED BY <2>1, <3>2, <3>4 DEF Clearing, Emptying
  <2> QED BY <2>1, <2>2, <2>3, <2>4, <2>5, <2>6 DEF RemoveFiles
<1>2. /\ terminal[t].at = step /\ terminal[t].at \in Clearing /\ tmux' = tmux /\ harmed' = harmed
      /\ Dir(t) \in Directories
  BY <1>1 DEF Remove, Reached, PresInv, DirIsChosen, Clearing, Emptying, Choosing
<1>3. Dir(t) \notin harmed => /\ ClearedAway(terminal[t], entries[Dir(t)], tmux[Dir(t)]) /\ Settled(Dir(t))
  BY <1>2, CloserKnows
<1>4. CASE Ends(t) /\ entries' = entries /\ ~(entries[Dir(t)].made /\ Named(Dir(t)) /\ allowed)
  <2>1. /\ terminal' = [terminal EXCEPT ![t] = terminal'[t]] /\ terminal'[t] \in TerminalStates
        /\ terminal'[t].at = "idle"
    BY <1>4, EndsIdle
  <2>2. CASE step = "remove"
    <3>1. /\ terminal[t].at \notin Making \union Emptying
          /\ terminal'[t].at \notin Making \union Clearing \union {"kill"} /\ terminal'[t].at \in Choosing
      BY <1>2, <2>1, <2>2 DEF Making, Starting, Clearing, Emptying, Choosing
    <3> QED BY <1>2, <1>4, <2>1, <3>1, PresTypes, StepIsQuiet, PlainStep
  <2>3. CASE step # "remove"
    <3>1. terminal[t].at \in Emptying
      BY <1>2, <2>3 DEF Clearing
    <3>2. Dir(t) \notin harmed => entries'[Dir(t)] = Missing
      BY <1>1, <1>2, <1>3, <1>4, <3>1 DEF ClearedAway, SameMarker, Named, Clearing, Emptying
    <3> QED BY <1>2, <1>4, <2>1, <3>1, <3>2, EmptiedStep
  <2> QED BY <2>2, <2>3
<1>5. CASE entries[Dir(t)].made /\ Named(Dir(t)) /\ allowed /\ entries' = [entries EXCEPT ![Dir(t)] = g] /\ Proceed(t, next)
  <2>1. /\ terminal' = [terminal EXCEPT ![t] = terminal'[t]] /\ terminal'[t] \in TerminalStates
        /\ terminal'[t].at = next /\ terminal'[t].dir = terminal[t].dir
        /\ terminal'[t].marker = terminal[t].marker /\ terminal'[t].socket = terminal[t].socket
    BY <1>5, Proceeds DEF TerminalSteps, Closing, Emptying
  <2>2. CASE Dir(t) \in harmed
    BY <1>2, <1>5, <2>1, <2>2, EmptyingStep
  <2>3. CASE Dir(t) \notin harmed
    <3>1. entries[Dir(t)] # Missing
      BY <1>5, NothingIsTyped
    <3>2. Shrinks(g, entries[Dir(t)])
      BY <1>1, <1>2, <1>3, <1>5, <2>3, <3>1 DEF Shrinks, ClearedAway, Emptying
    <3>3. ClearedAway(terminal'[t], g, tmux[Dir(t)])
      <4>1. CASE step = "remove"
        BY <1>1, <1>2, <1>3, <1>5, <2>1, <2>3, <4>1 DEF ClearedAway, Settled, Readable, SameMarker, Named, Clearing, Emptying
      <4>2. CASE step # "remove"
        BY <1>1, <1>2, <1>3, <2>1, <2>3, <3>1, <3>2, <4>2 DEF ClearedAway, Shrinks, Clearing, Emptying
      <4> QED BY <4>1, <4>2
    <3> QED BY <1>2, <1>5, <2>1, <3>2, <3>3, EmptyingStep
  <2> QED BY <2>2, <2>3
<1> QED BY <1>1, <1>4, <1>5 DEF Remove

\* The empty directory is removed.
LEMMA RemoveDirectoryInv ==
  ASSUME PresInv, NEW t \in Terminals, RemoveDirectory(t)
  PROVE  PresInv'
<1>1. /\ terminal[t].at = "rmdir" /\ terminal[t].at \in Emptying /\ terminal[t].at \in Clearing
      /\ tmux' = tmux /\ harmed' = harmed
  BY DEF RemoveDirectory, Reached, Emptying, Clearing
<1>2. Dir(t) \in Directories /\ entries[Dir(t)] \in FileStates
  BY <1>1, PresTypes DEF PresInv, DirIsChosen, Choosing
<1>3. /\ terminal' = [terminal EXCEPT ![t] = terminal'[t]] /\ terminal'[t] \in TerminalStates
      /\ terminal'[t].at \in {"idle", "scan"}
  BY EndsIdle, Closes DEF RemoveDirectory
<1>4. entries' = entries \/ entries' = [entries EXCEPT ![Dir(t)] = Missing]
  BY DEF RemoveDirectory
<1>5. Dir(t) \notin harmed => entries'[Dir(t)] = Missing
  <2> SUFFICES ASSUME Dir(t) \notin harmed PROVE entries'[Dir(t)] = Missing
    OBVIOUS
  <2>1. ClearedAway(terminal[t], entries[Dir(t)], tmux[Dir(t)])
    BY <1>1, CloserKnows
  <2>2. CASE ~entries[Dir(t)].made
    BY <1>1, <1>2, <1>4, <2>1, <2>2, PresTypes DEF ClearedAway
  <2>3. CASE entries[Dir(t)].made
    <3>1. LET f == entries[Dir(t)]
          IN  ~f.status /\ ~f.config /\ ~f.socket /\ f.marker = "none" /\ f.temporary = "none" /\ f.made
      BY <1>1, <2>1, <2>3, NothingIsTyped DEF ClearedAway
    <3>2. PICK g : g = [Missing EXCEPT !.made = TRUE]
      OBVIOUS
    <3>3. g \in FileStates /\ g.made /\ ~g.config /\ g.marker = "none" /\ ~g.status /\ g.temporary = "none" /\ ~g.socket
      BY <3>2, NothingIsTyped DEF FileStates, Missing
    <3>4. entries[Dir(t)] = g
      BY <1>2, <3>1, <3>3 DEF FileStates
    <3> QED BY <1>2, <2>3, <3>2, <3>4, PresTypes DEF RemoveDirectory
  <2> QED BY <2>2, <2>3
<1> QED BY <1>1, <1>3, <1>4, <1>5, EmptiedStep

-----------------------------------------------------------------------------
(* The panes, and the mishaps.                                             *)

\* No terminal moves, and d keeps its files and at most its server.
LEMMA EntriesUnmoved ==
  ASSUME PresInv, NEW d \in Directories, d \notin harmed, terminal' = terminal, entries'[d] = entries[d], Quiets(d)
  PROVE  InOrder(d)'
<1>1. InOrder(d)
  BY DEF PresInv
<1>2. ASSUME NEW t \in Terminals, TerminalAt(t, d, Making)
      PROVE  /\ Written(terminal[t].at, entries'[d], tmux'[d])
             /\ \A o \in Terminals \ {t} : ~TerminalAt(o, d, Making \union Clearing)
  <2>1. Written(terminal[t].at, entries[d], tmux[d]) /\ \A o \in Terminals \ {t} : ~TerminalAt(o, d, Making \union Clearing)
    BY <1>1, <1>2 DEF InOrder
  <2> QED BY <2>1 DEF Written, Quiets
<1>3. ASSUME NEW t \in Terminals, TerminalAt(t, d, Clearing \union {"kill"}) PROVE ClearedAway(terminal[t], entries'[d], tmux'[d])
  BY <1>1, <1>3 DEF InOrder, ClearedAway, Quiets
<1>4. (\A t \in Terminals : ~TerminalAt(t, d, Making)) => Settled(d)'
  BY <1>1 DEF InOrder, Settled, WrittenOut, Quiets, TerminalAt, Dir
<1> QED BY <1>2, <1>3, <1>4 DEF InOrder, TerminalAt, Dir

\* A Navigator stops, or a server dies.
LEMMA ServerMovesInv ==
  ASSUME PresInv, NEW d \in Directories, NavigatorStops(d) \/ NavigatorExits(d) \/ ServerDies(d)
  PROVE  PresInv'
<1>1. entries' = entries /\ terminal' = terminal /\ harmed' = harmed
  BY DEF NavigatorStops, NavigatorExits, ServerDies
<1>2. PICK s \in ServerStates :
        /\ tmux' = [tmux EXCEPT ![d] = s] /\ (s.live => tmux[d].live) /\ (s.provider => tmux[d].provider)
        /\ tmux[d] # NoServer \/ s = NoServer
  <2>1. tmux[d] \in ServerStates
    BY PresTypes
  <2>2. CASE ServerDies(d)
    BY <2>2, NothingIsTyped DEF ServerDies
  <2>3. CASE NavigatorExits(d)
    <3>1. PICK s : s = [tmux[d] EXCEPT !.navigator = "dead"]
      OBVIOUS
    <3>2. s \in ServerStates /\ s.live = tmux[d].live /\ s.provider = tmux[d].provider
      BY <2>1, <3>1 DEF ServerStates
    <3>3. tmux' = [tmux EXCEPT ![d] = s]
      BY <2>3, <3>1, PresTypes DEF NavigatorExits
    <3>4. tmux[d] # NoServer
      BY <2>3 DEF NavigatorExits, NoServer
    <3> HIDE <3>1
    <3> QED BY <3>2, <3>3, <3>4
  <2>4. CASE NavigatorStops(d)
    <3>1. PICK clients \in SUBSET Terminals :
            tmux' = [tmux EXCEPT ![d].navigator = "leaving", ![d].clients = clients]
      BY <2>1, <2>4 DEF NavigatorStops, ServerStates
    <3>2. PICK s : s = [tmux[d] EXCEPT !.navigator = "leaving", !.clients = clients]
      OBVIOUS
    <3>3. s \in ServerStates /\ s.live = tmux[d].live /\ s.provider = tmux[d].provider
      BY <2>1, <3>2 DEF ServerStates
    <3>4. tmux' = [tmux EXCEPT ![d] = s]
      BY <3>1, <3>2, PresTypes
    <3>5. tmux[d] # NoServer
      BY <2>4 DEF NavigatorStops, NoServer
    <3> HIDE <3>2
    <3> QED BY <3>3, <3>4, <3>5
  <2> QED BY <2>2, <2>3, <2>4
<1>3. /\ tmux' \in [Directories -> ServerStates] /\ \A e \in Directories : Quiets(e)
  BY <1>2, PresTypes DEF Quiets
<1>4. PresentationTypeOK'
  BY <1>1, <1>3, PresTypes DEF PresentationTypeOK, FileStates, ServerStates, TerminalStates, TerminalSteps
<1>5. DirIsChosen'
  BY <1>1 DEF PresInv, DirIsChosen, Dir
<1> QED BY <1>1, <1>3, <1>4, <1>5, EntriesUnmoved DEF PresInv

\* A status is written beside its file, and renamed or left behind.
LEMMA StatusInv ==
  ASSUME PresInv, NEW d \in Directories, BeginStatus(d) \/ RenameStatus(d) \/ WriterDies(d)
  PROVE  PresInv'
<1>1. terminal' = terminal /\ tmux' = tmux /\ harmed \subseteq harmed' /\ harmed' \in SUBSET Directories
  BY PresTypes DEF BeginStatus, RenameStatus, WriterDies
<1>2. PICK f \in FileStates :
        /\ entries' = [entries EXCEPT ![d] = f] /\ f.made = entries[d].made /\ f.config = entries[d].config
        /\ f.marker = entries[d].marker /\ f.socket = entries[d].socket
        /\ f.temporary = "left" => d \in harmed'
        /\ \/ f.temporary \in {"left", "none"} /\ entries[d].temporary = "open"
           \/ tmux[d].live /\ tmux[d].provider /\ entries[d].made
  <2>1. entries[d] \in FileStates
    BY PresTypes
  <2>2. CASE BeginStatus(d) \/ WriterDies(d)
    <3>1. PICK kind \in {"open", "left"} :
            /\ entries' = [entries EXCEPT ![d].temporary = kind] /\ (kind = "left" => d \in harmed')
            /\ \/ kind = "left" /\ entries[d].temporary = "open"
               \/ tmux[d].live /\ tmux[d].provider /\ entries[d].made
      BY <2>2 DEF BeginStatus, WriterDies
    <3>2. PICK f : f = [entries[d] EXCEPT !.temporary = kind]
      OBVIOUS
    <3>3. /\ f \in FileStates /\ f.made = entries[d].made /\ f.config = entries[d].config
          /\ f.marker = entries[d].marker /\ f.socket = entries[d].socket /\ f.temporary = kind
      BY <2>1, <3>2 DEF FileStates
    <3>4. entries' = [entries EXCEPT ![d] = f]
      BY <3>1, <3>2, PresTypes
    <3> HIDE <3>2
    <3> QED BY <3>1, <3>3, <3>4
  <2>3. CASE RenameStatus(d)
    <3>2. PICK f : f = [entries[d] EXCEPT !.temporary = "none", !.status = TRUE]
      OBVIOUS
    <3>3. /\ f \in FileStates /\ f.made = entries[d].made /\ f.config = entries[d].config
          /\ f.marker = entries[d].marker /\ f.socket = entries[d].socket /\ f.temporary = "none"
      BY <2>1, <3>2 DEF FileStates
    <3>4. entries' = [entries EXCEPT ![d] = f] /\ entries[d].temporary = "open"
      BY <2>3, <3>2, PresTypes DEF RenameStatus
    <3> HIDE <3>2
    <3> QED BY <3>3, <3>4
  <2> QED BY <2>2, <2>3
<1>3. /\ entries' \in [Directories -> FileStates] /\ entries'[d] = f
      /\ \A e \in Directories \ {d} : entries'[e] = entries[e]
  BY <1>2, PresTypes
<1>4. PresentationTypeOK'
  BY <1>1, <1>3, PresTypes DEF PresentationTypeOK, FileStates, ServerStates, TerminalStates, TerminalSteps
<1>5. DirIsChosen'
  BY <1>1 DEF PresInv, DirIsChosen, Dir
<1>6. ASSUME NEW e \in Directories \ harmed', e # d PROVE InOrder(e)'
  BY <1>1, <1>3, <1>6, EntriesUnmoved DEF Quiets
<1>7. ASSUME d \notin harmed' PROVE InOrder(d)'
  <2>1. InOrder(d) /\ f.temporary # "left" /\ entries[d] # Missing
    BY <1>1, <1>2, <1>7, NothingIsTyped DEF PresInv
  <2>2. \A t \in Terminals : ~TerminalAt(t, d, Emptying)
    <3> SUFFICES ASSUME NEW t \in Terminals, TerminalAt(t, d, Emptying) PROVE FALSE
      OBVIOUS
    <3>1. ClearedAway(terminal[t], entries[d], tmux[d]) /\ terminal[t].at \in Emptying /\ terminal[t].at \in Clearing
      BY <2>1 DEF InOrder, TerminalAt, Clearing
    <3> QED BY <1>2, <2>1, <3>1, NothingIsTyped DEF ClearedAway
  <2>3. ASSUME NEW t \in Terminals, TerminalAt(t, d, Making)
        PROVE  /\ Written(terminal[t].at, f, tmux[d])
               /\ \A o \in Terminals \ {t} : ~TerminalAt(o, d, Making \union Clearing)
    <3>1. Written(terminal[t].at, entries[d], tmux[d]) /\ \A o \in Terminals \ {t} : ~TerminalAt(o, d, Making \union Clearing)
      BY <2>1, <2>3 DEF InOrder
    <3>2. terminal[t].at = "bindings"
      BY <1>2, <3>1 DEF Written
    <3> QED BY <1>2, <2>1, <3>1, <3>2 DEF Written
  <2>4. ASSUME NEW t \in Terminals, TerminalAt(t, d, Clearing \union {"kill"}) PROVE ClearedAway(terminal[t], f, tmux[d])
    BY <2>1, <2>2, <2>4 DEF InOrder, ClearedAway, TerminalAt, Clearing
  <2>5. (\A t \in Terminals : ~TerminalAt(t, d, Making)) => Settled(d)'
    BY <1>1, <1>2, <1>3, <2>1, <2>2 DEF InOrder, Settled, WrittenOut
  <2> QED BY <1>1, <1>3, <2>3, <2>4, <2>5 DEF InOrder, TerminalAt, Dir
<1> QED BY <1>1, <1>4, <1>5, <1>6, <1>7 DEF PresInv

\* A terminal dies: what it made or removed half-way is recorded.
LEMMA TerminalDiesInv ==
  ASSUME PresInv, NEW t \in Terminals, TerminalDies(t)
  PROVE  PresInv'
<1>1. /\ Ends(t) /\ entries' = entries
      /\ tmux' = [d \in Directories |-> [tmux[d] EXCEPT !.clients = @ \ {t}]]
      /\ harmed \subseteq harmed'
      /\ Dir(t) # NoDirectory /\ terminal[t].at \in Starting \union Closing => Dir(t) \in harmed'
      /\ harmed' \in SUBSET Directories
  BY PresTypes DEF TerminalDies, TerminalStates, Dir
<1>2. /\ terminal' = [terminal EXCEPT ![t] = terminal'[t]] /\ terminal'[t] \in TerminalStates
      /\ terminal'[t].at = "idle"
  BY <1>1, EndsIdle
<1>3. /\ terminal' \in [Terminals -> TerminalStates] /\ \A o \in Terminals \ {t} : terminal'[o] = terminal[o]
  BY <1>2, PresTypes
<1>4. tmux' \in [Directories -> ServerStates] /\ \A d \in Directories : Quiets(d)
  <2>1. ASSUME NEW d \in Directories PROVE tmux'[d] \in ServerStates /\ Quiets(d)
    <3>1. PICK s : s = [tmux[d] EXCEPT !.clients = @ \ {t}]
      OBVIOUS
    <3>2. tmux[d] \in ServerStates /\ tmux'[d] = s
      BY <1>1, <3>1, PresTypes
    <3>3. s \in ServerStates /\ s.live = tmux[d].live /\ s.provider = tmux[d].provider
      BY <3>1, <3>2 DEF ServerStates
    <3>4. tmux[d] = NoServer => s = NoServer
      <4>1. tmux[d] = NoServer => s = [NoServer EXCEPT !.clients = {}]
        BY <3>1, NothingIsTyped
      <4> QED BY <4>1, NoClients
    <3> QED BY <3>2, <3>3, <3>4 DEF Quiets
  <2>2. tmux' = [d \in Directories |-> tmux'[d]]
    BY <1>1
  <2> QED BY <2>1, <2>2
<1>5. PresentationTypeOK'
  BY <1>1, <1>3, <1>4, PresTypes DEF PresentationTypeOK, FileStates, ServerStates, TerminalStates, TerminalSteps
<1>6. DirIsChosen'
  BY <1>2, <1>3 DEF PresInv, DirIsChosen, Dir, Choosing
<1>7. ASSUME NEW d \in Directories \ harmed' PROVE InOrder(d)'
  <2>1. ~TerminalAt(t, d, Making \union Emptying)
    BY <1>1, <1>7, NoDirectoryAssumption DEF TerminalAt, Making, Emptying, Closing
  <2>2. ~TerminalAt(t, d, Making \union Clearing \union {"kill"})'
    BY <1>2 DEF TerminalAt, Making, Starting, Clearing, Emptying
  <2> QED BY <1>1, <1>3, <1>4, <1>7, <2>1, <2>2, Bystander
<1> QED BY <1>5, <1>6, <1>7 DEF PresInv

-----------------------------------------------------------------------------

\* No directory at first.
LEMMA PresStart ==
  ASSUME PresentationInit
  PROVE  PresInv
<1>1. PresentationTypeOK
  BY PresTypesBack, NothingIsTyped DEF PresentationInit
<1>2. \A t \in Terminals : terminal[t].at = "idle"
  BY NothingIsTyped DEF PresentationInit
<1>3. DirIsChosen
  BY <1>2 DEF DirIsChosen, Choosing
<1>4. ASSUME NEW d \in Directories PROVE InOrder(d)
  <2>1. entries[d] = Missing /\ tmux[d] = NoServer
    BY DEF PresentationInit
  <2>2. \A t \in Terminals : ~TerminalAt(t, d, Making) /\ ~TerminalAt(t, d, Clearing \union {"kill"})
    BY <1>2 DEF TerminalAt, Making, Starting, Clearing, Emptying
  <2> QED BY <2>1, <2>2, NothingIsTyped DEF InOrder, Settled
<1> QED BY <1>1, <1>3, <1>4 DEF PresInv

\* Every step keeps PresInv.
LEMMA PresStep ==
  ASSUME PresInv, [PresentationNext]_presentationVars
  PROVE  PresInv'
<1>1. ASSUME NEW t \in Terminals, StartFresh(t) PROVE PresInv'
  BY <1>1, MakeDirectoryInv, WritesInv, OwnerMarkerInv, NewServerInv, StageInv, BindingsInv DEF StartFresh
<1>2. ASSUME NEW t \in Terminals, ClosePresentation(t) PROVE PresInv'
  BY <1>2, ReadOwnershipInv, KillInv, RemoveInv, RemoveDirectoryInv DEF ClosePresentation
<1>3. ASSUME NEW t \in Terminals, Command(t) \/ TerminalDies(t) PROVE PresInv'
  BY <1>1, <1>2, <1>3, OpenInv, ProbeInv, InspectInv, CountInv, ChooseInv, PrepareInv, AttachInv, TerminalDiesInv
  DEF Command
<1>4. ASSUME NEW d \in Directories, Panes(d) \/ ServerDies(d) PROVE PresInv'
  BY <1>4, ServerMovesInv, StatusInv DEF Panes
<1>5. CASE UNCHANGED presentationVars
  <2>1. entries' = entries /\ tmux' = tmux /\ terminal' = terminal /\ harmed' = harmed
    BY <1>5 DEF presentationVars
  <2>2. PresentationTypeOK'
    BY <2>1, PresTypes DEF PresentationTypeOK, FileStates, ServerStates, TerminalStates, TerminalSteps
  <2> QED BY <2>1, <2>2, EntriesUnmoved, StepIsQuiet DEF PresInv, DirIsChosen, Dir
<1> QED BY <1>3, <1>4, <1>5 DEF PresentationNext

\* PresInv is an inductive invariant.
LEMMA PresAlways == PresentationSpec => []PresInv
BY PresStart, PresStep, PTL DEF PresentationSpec

\* The files, the servers and the terminals keep their types
\* (presentation/ownership.rs, presentation/cleanup.rs).
THEOREM PresentationKeepsTypes == PresentationSpec => []PresentationTypeOK
<1>1. PresInv => PresentationTypeOK
  BY DEF PresInv
<1> QED BY <1>1, PresAlways, PTL

\* The invariant of the presentations says what the property says.
LEMMA PresMeans == PresInv => LeftInOrder
<1> SUFFICES ASSUME PresInv, NEW d \in Directories \ harmed, Untouched(d)
             PROVE  \/ Readable(d) /\ (tmux[d].live => entries[d].socket)
                    \/ entries[d] = Missing /\ tmux[d] = NoServer
  BY DEF LeftInOrder
<1>1. \A t \in Terminals : ~TerminalAt(t, d, Making) /\ ~TerminalAt(t, d, Emptying)
  BY DEF Untouched, TerminalAt, Making, Emptying, Closing
<1>2. Settled(d) /\ entries[d] \in FileStates
  BY <1>1, PresTypes DEF PresInv, InOrder
<1> QED BY <1>1, <1>2 DEF Settled, WrittenOut, Readable, Named, Untouched, FileStates

\* However many terminals start, attach to and close however many
\* presentations: one that nobody works on is gone with its server or can be
\* read by the next command, but for those that a process abandoned half-way
\* or that another closed while they were starting (presentation/ownership.rs,
\* presentation/cleanup.rs, presentation/attachment.rs).
THEOREM PresentationsAreLeftInOrder == PresentationSpec => []LeftInOrder
BY PresMeans, PresAlways, PTL
=============================================================================
