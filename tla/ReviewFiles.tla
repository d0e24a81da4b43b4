----------------------------- MODULE ReviewFiles -----------------------------
(***************************************************************************)
(* The disposable directory of a native observer review (review.rs): its   *)
(* creation by a reviewer, its removal by the same process, and what the   *)
(* close of the presentation validates and recovers.                       *)
(*                                                                         *)
(* One marker file names the reviewer in charge.  A removal first moves    *)
(* the marker to a name of the reviewer's own, then the folder, and takes  *)
(* both away in the opposite order.  Every read of the inventory and every *)
(* change of a name is a step.  Closing kills the presentation's server;   *)
(* its reviewers die of that, but not at once.                             *)
(***************************************************************************)

CONSTANTS
  Reviewers,   \* processes with one review each: Navigators and shells
  Closer       \* the process that closes the presentation

ASSUME CloserAssumption == Closer \notin Reviewers

VARIABLES
  folder,        \* the folder of each reviewer
  littered,      \* folders that the native review left a file in
  reviewMarker,  \* the marker file
  retired,       \* reviewers whose marker has its retiring name
  owner,         \* what each reviewer and the closer are doing
  stopping,      \* the server of the presentation was killed
  mishaps        \* history: what no fence of the code covers

reviewVars == <<folder, littered, reviewMarker, retired, owner, stopping, mishaps>>

NoMarker == [reviewer |-> Closer, whole |-> FALSE]
Everyone == Reviewers \union {Closer}

ReviewInit ==
  /\ folder = [r \in Reviewers |-> "none"]
  /\ littered = {}
  /\ reviewMarker = NoMarker
  /\ retired = {}
  /\ owner = [x \in Everyone |-> [at |-> "idle", record |-> x, marked |-> FALSE, tries |-> 0]]
  /\ stopping = FALSE
  /\ mishaps = {}

Marked == reviewMarker # NoMarker
Folders == {r \in Reviewers : folder[r] # "none"}
NothingThere == ~Marked /\ retired = {} /\ Folders = {}

(* marker_proofs: every marker is read, and a torn one is ambiguous.       *)
MarkerOwners == retired \union (IF Marked THEN {reviewMarker.reviewer} ELSE {})
OneMarker == IF Marked THEN reviewMarker.whole /\ retired = {} ELSE \E r \in Reviewers : retired = {r}
OneFolder == ~Marked /\ retired = {} /\ \E r \in Reviewers : Folders = {r}

(* validate_artifacts                                                      *)
Valid ==
  /\ NothingThere \/ OneFolder \/ (OneMarker /\ Folders \subseteq MarkerOwners)
  /\ Folders \intersect littered = {}

-----------------------------------------------------------------------------
(* Steps of a process.                                                     *)

OwnerAt(x, step) == owner[x].at = step
MakingReview == {"make", "mark", "write"}

OwnerBecomes(x, state) ==
  /\ owner' = [owner EXCEPT ![x] = state]
  /\ mishaps' = IF \E r, s \in Reviewers : r # s /\ owner'[r].at \in MakingReview /\ owner'[s].at \in MakingReview
                THEN mishaps \union {"overlapped"} ELSE mishaps
OwnerTo(x, step) == OwnerBecomes(x, [owner[x] EXCEPT !.at = step])

KeepFiles == UNCHANGED <<folder, littered, reviewMarker, retired>>

(* create: nothing review-shaped may exist.                                *)
CreateReview(r) ==
  /\ OwnerAt(r, "idle") /\ ~stopping /\ NothingThere
  /\ OwnerTo(r, "make")
  /\ KeepFiles /\ UNCHANGED stopping

MakeFolder(r) ==
  /\ OwnerAt(r, "make")
  /\ folder' = [folder EXCEPT ![r] = "active"]
  /\ OwnerTo(r, "mark")
  /\ UNCHANGED <<littered, reviewMarker, retired, stopping>>

\* Mutant: the marker is created whether or not there is one.
CreateMarkerAnyway(r) ==
  /\ OwnerAt(r, "mark")
  /\ OwnerTo(r, "write") /\ reviewMarker' = [reviewer |-> r, whole |-> FALSE]
  /\ UNCHANGED <<folder, littered, retired, stopping>>

(* create_new: another reviewer's marker is never replaced.                *)
CreateReviewMarker(r) ==
  /\ OwnerAt(r, "mark")
  /\ IF Marked THEN OwnerTo(r, "unmake") /\ UNCHANGED reviewMarker
     ELSE OwnerTo(r, "write") /\ reviewMarker' = [reviewer |-> r, whole |-> FALSE]
  /\ UNCHANGED <<folder, littered, retired, stopping>>

WriteReviewMarker(r) ==
  /\ OwnerAt(r, "write")
  /\ \/ /\ reviewMarker' = [reviewMarker EXCEPT !.whole = TRUE]
        /\ OwnerTo(r, "review")
     \/ /\ owner' = [owner EXCEPT ![r].at = "unmake"]
        /\ mishaps' = mishaps \union {"torn"} /\ UNCHANGED reviewMarker
  /\ UNCHANGED <<folder, littered, retired, stopping>>

UnmakeFolder(r) ==
  /\ OwnerAt(r, "unmake")
  /\ folder' = [folder EXCEPT ![r] = "none"]
  /\ OwnerTo(r, "done")
  /\ UNCHANGED <<littered, reviewMarker, retired, stopping>>

(* The native review ends, or the sync of a creation failed: then nobody   *)
(* is left in charge of what was created.                                  *)
ReviewOver(r) ==
  /\ OwnerAt(r, "review")
  /\ \/ OwnerBecomes(r, [owner[r] EXCEPT !.at = "locate", !.tries = 1])
     \/ /\ owner' = [owner EXCEPT ![r].at = "done"]
        /\ mishaps' = mishaps \union {"abandoned"}
  /\ KeepFiles /\ UNCHANGED stopping

(* The review runs in the folder and may write to it.                      *)
Litter(r) ==
  /\ OwnerAt(r, "review") /\ r \notin littered
  /\ littered' = littered \union {r}
  /\ mishaps' = mishaps \union {"littered"}
  /\ UNCHANGED <<folder, reviewMarker, retired, owner, stopping>>

-----------------------------------------------------------------------------
(* cleanup_expected, by the reviewer or for it by the closer.              *)

(* A cleanup that failed is tried once more when its owner is dropped.     *)
CleanupFails(x) ==
  IF x = Closer THEN OwnerTo(x, "idle")
  ELSE IF owner[x].tries = 1 THEN OwnerBecomes(x, [owner[x] EXCEPT !.at = "locate", !.tries = 2])
  ELSE OwnerTo(x, "done")
CleanupEnds(x) == OwnerTo(x, IF x = Closer THEN "check" ELSE "done")

(* The marker of r under one of its two names.                             *)
MarkerOf(r) ==
  CASE ~Marked /\ r \notin retired -> "absent"
    [] ~Marked /\ r \in retired -> "retiring"
    [] Marked -> IF r \notin retired /\ reviewMarker = [reviewer |-> r, whole |-> TRUE]
                 THEN "active" ELSE "ambiguous"

(* Without a marker only the record's own folder may be there              *)
(* (cleanup_orphan_for_record).                                            *)
Locate(x) ==
  LET r == owner[x].record IN
  /\ OwnerAt(x, "locate")
  /\ CASE MarkerOf(r) = "ambiguous" -> CleanupFails(x)
       [] MarkerOf(r) = "active" -> OwnerBecomes(x, [owner[x] EXCEPT !.at = "moveMarker", !.marked = TRUE])
       [] MarkerOf(r) = "retiring" -> OwnerBecomes(x, [owner[x] EXCEPT !.at = "moveFolder", !.marked = TRUE])
       [] MarkerOf(r) = "absent" ->
            IF retired = {} /\ Folders \subseteq {r}
            THEN OwnerBecomes(x, [owner[x] EXCEPT !.at = "moveFolder", !.marked = FALSE])
            ELSE CleanupFails(x)
  /\ KeepFiles /\ UNCHANGED stopping

MoveMarker(x) ==
  LET r == owner[x].record IN
  /\ OwnerAt(x, "moveMarker")
  /\ IF r \notin retired /\ reviewMarker.reviewer = r
     THEN /\ reviewMarker' = NoMarker /\ retired' = retired \union {r}
          /\ OwnerTo(x, "moveFolder")
     ELSE CleanupFails(x) /\ UNCHANGED <<reviewMarker, retired>>
  /\ UNCHANGED <<folder, littered, stopping>>

FolderGone(x) == IF owner[x].marked THEN OwnerTo(x, "removeMarker") ELSE CleanupEnds(x)

MoveFolder(x) ==
  LET r == owner[x].record IN
  /\ OwnerAt(x, "moveFolder")
  /\ CASE folder[r] = "none" -> FolderGone(x) /\ UNCHANGED folder
       [] folder[r] # "none" /\ r \in littered -> CleanupFails(x) /\ UNCHANGED folder
       [] folder[r] # "none" /\ r \notin littered ->
            folder' = [folder EXCEPT ![r] = "retiring"] /\ OwnerTo(x, "removeFolder")
  /\ UNCHANGED <<littered, reviewMarker, retired, stopping>>

RemoveFolder(x) ==
  LET r == owner[x].record IN
  /\ OwnerAt(x, "removeFolder")
  /\ IF folder[r] = "retiring"
     THEN folder' = [folder EXCEPT ![r] = "none"] /\ FolderGone(x)
     ELSE CleanupFails(x) /\ UNCHANGED folder
  /\ UNCHANGED <<littered, reviewMarker, retired, stopping>>

RemoveMarker(x) ==
  /\ OwnerAt(x, "removeMarker")
  /\ IF owner[x].record \in retired
     THEN retired' = retired \ {owner[x].record} /\ CleanupEnds(x)
     ELSE CleanupFails(x) /\ UNCHANGED retired
  /\ UNCHANGED <<folder, littered, reviewMarker, stopping>>

-----------------------------------------------------------------------------
(* The close of a presentation.                                            *)

(* Its ownership is read before the server is killed.                      *)
ValidateReview ==
  /\ OwnerAt(Closer, "idle") /\ Valid
  /\ OwnerTo(Closer, "kill")
  /\ KeepFiles /\ UNCHANGED stopping

KillPresentation ==
  /\ OwnerAt(Closer, "kill")
  /\ stopping' = TRUE
  /\ OwnerTo(Closer, "recover")
  /\ KeepFiles

(* recover_without_liveness                                                *)
RecoverReview ==
  /\ OwnerAt(Closer, "recover")
  /\ CASE NothingThere -> OwnerTo(Closer, "check")
       [] OneMarker ->
            \E r \in MarkerOwners : OwnerBecomes(Closer, [owner[Closer] EXCEPT !.at = "locate", !.record = r])
       [] OneFolder /\ Valid ->
            \E r \in Folders : OwnerBecomes(Closer,
              [owner[Closer] EXCEPT !.at = "moveFolder", !.record = r, !.marked = FALSE])
       [] OTHER -> OwnerTo(Closer, "idle")
  /\ KeepFiles /\ UNCHANGED stopping

(* validate_no_review_artifacts, and the presentation is removed.          *)
CheckNothingLeft ==
  /\ OwnerAt(Closer, "check")
  /\ OwnerTo(Closer, IF NothingThere THEN "closed" ELSE "idle")
  /\ KeepFiles /\ UNCHANGED stopping

OwnerDies(x) ==
  /\ owner[x].at \notin {"idle", "done", "closed"}
  /\ owner' = [owner EXCEPT ![x].at = IF x = Closer THEN "idle" ELSE "done"]
  /\ mishaps' = mishaps \union {"abandoned"} \union (IF OwnerAt(x, "write") THEN {"torn"} ELSE {})
  /\ KeepFiles /\ UNCHANGED stopping

CleanupStep(x) == Locate(x) \/ MoveMarker(x) \/ MoveFolder(x) \/ RemoveFolder(x) \/ RemoveMarker(x)

ReviewNext ==
  \/ \E r \in Reviewers :
       \/ CreateReview(r) \/ MakeFolder(r) \/ CreateReviewMarker(r) \/ WriteReviewMarker(r) \/ UnmakeFolder(r)
       \/ ReviewOver(r) \/ Litter(r)
  \/ \E x \in Everyone : CleanupStep(x) \/ OwnerDies(x)
  \/ ValidateReview \/ KillPresentation \/ RecoverReview \/ CheckNothingLeft

ReviewSpec == ReviewInit /\ [][ReviewNext]_reviewVars

-----------------------------------------------------------------------------

(* Every variable keeps its type.                                          *)
ReviewTypeOK ==
  /\ folder \in [Reviewers -> {"none", "active", "retiring"}]
  /\ littered \subseteq Reviewers
  /\ reviewMarker \in [reviewer : Everyone, whole : BOOLEAN]
  /\ retired \subseteq Reviewers
  /\ owner \in [Everyone ->
       [at : {"idle", "make", "mark", "write", "unmake", "review", "locate", "moveMarker", "moveFolder",
              "removeFolder", "removeMarker", "kill", "recover", "check", "done", "closed"},
        record : Everyone, marked : BOOLEAN, tries : {0, 1, 2}]]
  /\ stopping \in BOOLEAN
  /\ mishaps \subseteq {"overlapped", "torn", "littered", "abandoned"}

(* A native review that runs has its folder, and the marker names it,      *)
(* until the presentation is stopped: no other review takes it away.       *)
ReviewIsOwned ==
  \A r \in Reviewers : OwnerAt(r, "review") /\ ~stopping =>
    folder[r] = "active" /\ reviewMarker = [reviewer |-> r, whole |-> TRUE]

(* Wherever reviewers and closers died: once none of them runs, what they  *)
(* left is what a close accepts and can recover (validate_artifacts,       *)
(* recover_without_liveness).  Not covered are a marker that was created   *)
(* but not written, a review that wrote to its folder, and two creations   *)
(* at once, one of which is abandoned by a death or a failed sync.         *)
RestIsRecoverable ==
  /\ \A x \in Everyone : owner[x].at \in {"idle", "done"}
  /\ mishaps \intersect {"torn", "littered"} = {} /\ ~({"overlapped", "abandoned"} \subseteq mishaps)
  => Valid

(* Reviews keep what is theirs and leave nothing that blocks the close.    *)
ReviewIsTidy == ReviewIsOwned /\ RestIsRecoverable
=============================================================================
