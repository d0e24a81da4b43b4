---------------------------- MODULE ObserverSetup ----------------------------
(***************************************************************************)
(* The Codex observer profile: its file, its ownership row and the native  *)
(* trust review (app/observer.rs, provider/codex/profile.rs, state/host.rs *)
(* and the setup flows of navigator/controller.rs and shell_control.rs).   *)
(*                                                                         *)
(* A party is a process of some wsnav executable.  It sets the profile up, *)
(* from the Navigator after a consent or from the account shell, removes   *)
(* it, or launches Codex under it.  Setups write under the provisional     *)
(* lease; removals and launches take no lease.                             *)
(*                                                                         *)
(* The file has three regions: provider settings before the declaration,   *)
(* the declaration, which names one executable, and the trust records that *)
(* Codex appends.  The row and the file of one readiness check are read in *)
(* one step: readiness is always checked again before it is acted on.      *)
(***************************************************************************)
EXTENDS Naturals

CONSTANTS
  Parties,
  Executables,
  Undeclared,    \* stands for no executable and for no party
  Operations     \* bound: setups, removals and launches

ASSUME UndeclaredAssumption == Undeclared \notin Parties \union Executables
ASSUME OperationsAssumption == Operations \in Nat

VARIABLES
  profile,       \* the file
  integration,   \* the row of codex_integrations
  setupLease,    \* the holder of the provisional lease
  party,         \* what each party is doing
  live,          \* a managed Codex Runtime is live
  started,       \* operations begun
  accidents      \* history: what no fence of the code covers

setupVars == <<profile, integration, setupLease, party, live, started, accidents>>

Declarations == Executables \union {Undeclared}
NoProfile == [decl |-> Undeclared, trusted |-> Undeclared, settings |-> FALSE]
NoIntegration == [owner |-> 0, decl |-> Undeclared, life |-> "none", rev |-> 0]

Unoccupied == [at |-> "idle", exe |-> Undeclared, readiness |-> "none", row |-> NoIntegration,
               settings |-> FALSE, seen |-> Undeclared]

SetupInit ==
  /\ profile = NoProfile
  /\ integration = NoIntegration
  /\ setupLease = Undeclared
  /\ party = [p \in Parties |-> Unoccupied]
  /\ live = FALSE
  /\ started = 0
  /\ accidents = {}

(* The document of a row carries the row's declaration byte by byte.       *)
Carries(row) == profile.decl = row.decl

(* Every hook has a well-formed record; which declaration a record was     *)
(* made for is not compared.                                               *)
TrustComplete == profile.trusted # Undeclared

(* What the executable e finds.                                            *)
Readiness(e) ==
  CASE integration = NoIntegration ->
         IF profile = NoProfile THEN "SetupRequired" ELSE "Foreign"
    [] integration # NoIntegration /\ profile = NoProfile -> "Unknown"
    [] integration # NoIntegration /\ profile # NoProfile ->
         CASE ~Carries(integration) -> "Modified"
           [] Carries(integration) /\ integration.decl # e -> "UpdateRequired"
           [] Carries(integration) /\ integration.decl = e ->
                IF ~TrustComplete THEN "TrustReviewRequired"
                ELSE IF integration.life = "ready" THEN "Ready" ELSE "TrustFinalizationRequired"

NeedsSetup == {"SetupRequired", "UpdateRequired", "TrustReviewRequired", "TrustFinalizationRequired"}

Owns(row) == integration # NoIntegration /\ integration.owner = row.owner /\ integration.decl = row.decl

-----------------------------------------------------------------------------
(* Steps of a party.                                                       *)

Removing == {"readProfile", "unlink", "deleteRow"}
Writing == {"install", "readPrevious", "rewrite", "record", "replace"}

Overlap == \E p, q \in Parties : p # q /\ party'[p].at \in Removing /\ party'[q].at \in Removing \union Writing
Raced == \E p, q \in Parties :
           party'[p].at = "launch" /\ party'[q].at \in Removing \union Writing \union {"readRow"}

PartyBecomes(p, state) ==
  /\ party' = [party EXCEPT ![p] = state]
  /\ accidents' = accidents \union (IF Overlap THEN {"overlapped"} ELSE {})
                            \union (IF Raced THEN {"raced"} ELSE {})

PartyAt(p, step) == party[p].at = step
PartyTo(p, step) == PartyBecomes(p, [party[p] EXCEPT !.at = step])

(* An operation that ends, in success or with an error, drops its lease.   *)
PartyLeaves(p) ==
  /\ PartyBecomes(p, Unoccupied)
  /\ setupLease' = IF setupLease = p THEN Undeclared ELSE setupLease

ProfileKept == UNCHANGED <<profile, integration>>
Bystanders == UNCHANGED <<live, started>>

Starts(p) == PartyAt(p, "idle") /\ started < Operations /\ started' = started + 1

(* The Navigator shows the readiness and asks for consent.                 *)
RequestSetup(p, e) ==
  /\ Starts(p) /\ Readiness(e) \in NeedsSetup
  /\ PartyBecomes(p, [Unoccupied EXCEPT !.at = "consent", !.exe = e,
                                        !.readiness = Readiness(e), !.row = integration])
  /\ ProfileKept /\ UNCHANGED <<setupLease, live>>

AcceptSetup(p) ==
  /\ PartyAt(p, "consent")
  /\ IF setupLease = Undeclared /\ Readiness(party[p].exe) = party[p].readiness /\ integration = party[p].row
     THEN PartyTo(p, "activate") /\ setupLease' = p
     ELSE PartyLeaves(p)
  /\ ProfileKept /\ Bystanders

CancelSetup(p) == PartyAt(p, "consent") /\ PartyLeaves(p) /\ ProfileKept /\ Bystanders

(* The account shell holds the lease from its first look on.               *)
SetupFromShell(p, e) ==
  /\ Starts(p) /\ setupLease = Undeclared /\ Readiness(e) \in NeedsSetup
  /\ setupLease' = p
  /\ PartyBecomes(p, [Unoccupied EXCEPT !.at = "activate", !.exe = e,
                                        !.readiness = Readiness(e), !.row = integration])
  /\ ProfileKept /\ UNCHANGED live

Activate(p) ==
  /\ PartyAt(p, "activate")
  /\ IF integration = party[p].row /\ Readiness(party[p].exe) = party[p].readiness
     THEN PartyTo(p, "absence") /\ UNCHANGED setupLease
     ELSE PartyLeaves(p)
  /\ ProfileKept /\ Bystanders

NextWrite(readiness) ==
  CASE readiness = "SetupRequired" -> "install"
    [] readiness = "UpdateRequired" -> "readPrevious"
    [] readiness = "TrustReviewRequired" -> "release"
    [] readiness = "TrustFinalizationRequired" -> "verify"

(* require_no_live_runtime of a setup.                                     *)
ProveAbsence(p) ==
  /\ PartyAt(p, "absence")
  /\ IF live THEN PartyLeaves(p)
     ELSE PartyTo(p, NextWrite(party[p].readiness)) /\ UNCHANGED setupLease
  /\ ProfileKept /\ Bystanders

InstallProfile(p) ==
  /\ PartyAt(p, "install")
  /\ IF profile = NoProfile
     THEN /\ profile' = [NoProfile EXCEPT !.decl = party[p].exe]
          /\ PartyTo(p, "record") /\ UNCHANGED setupLease
     ELSE PartyLeaves(p) /\ UNCHANGED profile
  /\ UNCHANGED integration /\ Bystanders

(* The number of the operation stands for the new owner id.                *)
RecordIntegration(p) ==
  /\ PartyAt(p, "record")
  /\ IF integration = NoIntegration
     THEN /\ integration' = [owner |-> started, decl |-> party[p].exe, life |-> "pending", rev |-> 1]
          /\ PartyBecomes(p, [party[p] EXCEPT !.at = "release", !.row = integration'])
          /\ UNCHANGED setupLease
     ELSE PartyLeaves(p) /\ UNCHANGED integration
  /\ UNCHANGED profile /\ Bystanders

ReadDeclaration(p) ==
  /\ PartyAt(p, "readPrevious")
  /\ IF Carries(party[p].row)
     THEN /\ PartyBecomes(p, [party[p] EXCEPT !.at = "rewrite", !.settings = profile.settings])
          /\ UNCHANGED setupLease
     ELSE PartyLeaves(p)
  /\ ProfileKept /\ Bystanders

\* Mutant: an update keeps the trust records behind the new declaration.
RewriteKeepsTrust(p) ==
  /\ PartyAt(p, "rewrite")
  /\ profile' = [decl |-> party[p].exe, trusted |-> profile.trusted, settings |-> party[p].settings]
  /\ PartyTo(p, "replace")
  /\ UNCHANGED <<integration, setupLease>> /\ Bystanders

RewriteProfile(p) ==
  /\ PartyAt(p, "rewrite")
  /\ profile' = [decl |-> party[p].exe, trusted |-> Undeclared, settings |-> party[p].settings]
  /\ PartyTo(p, "replace")
  /\ UNCHANGED <<integration, setupLease>> /\ Bystanders

ReplaceIntegration(p) ==
  /\ PartyAt(p, "replace")
  /\ IF Owns(party[p].row)
     THEN /\ integration' = [integration EXCEPT !.decl = party[p].exe, !.life = "pending", !.rev = @ + 1]
          /\ PartyBecomes(p, [party[p] EXCEPT !.at = "release", !.row = integration'])
          /\ UNCHANGED setupLease
     ELSE PartyLeaves(p) /\ UNCHANGED integration
  /\ UNCHANGED profile /\ Bystanders

(* No lease is held while a human reviews; the review may not even start.  *)
StartReview(p) ==
  /\ PartyAt(p, "release")
  /\ \/ PartyLeaves(p)
     \/ /\ PartyBecomes(p, [party[p] EXCEPT !.at = "review", !.seen = profile.decl])
        /\ setupLease' = Undeclared
  /\ ProfileKept /\ Bystanders

(* Codex writes a trust record for every hook that it showed.              *)
NativeTrust(p) ==
  /\ PartyAt(p, "review") /\ profile.decl # Undeclared /\ party[p].seen # Undeclared
  /\ profile' = [profile EXCEPT !.trusted = party[p].seen]
  /\ accidents' = IF party[p].seen = profile.decl THEN accidents ELSE accidents \union {"overtaken"}
  /\ UNCHANGED <<integration, setupLease, party>> /\ Bystanders

TrustReviewEnds(p) ==
  /\ PartyAt(p, "review")
  /\ PartyTo(p, "finalize")
  /\ ProfileKept /\ UNCHANGED setupLease /\ Bystanders

(* finalize_observer_trust_under_lease, up to the proof of native trust.   *)
FinalizeTrust(p) ==
  /\ PartyAt(p, "finalize")
  /\ IF setupLease = Undeclared /\ integration = party[p].row
     THEN PartyTo(p, "verify") /\ setupLease' = p
     ELSE PartyLeaves(p)
  /\ ProfileKept /\ Bystanders

VerifyTrust(p) ==
  /\ PartyAt(p, "verify")
  /\ IF Carries(party[p].row) /\ party[p].row.decl = party[p].exe /\ TrustComplete
     THEN PartyTo(p, "setReady") /\ UNCHANGED setupLease
     ELSE PartyLeaves(p)
  /\ ProfileKept /\ Bystanders

SetReady(p) ==
  /\ PartyAt(p, "setReady")
  /\ integration' = IF integration # NoIntegration /\ Owns(party[p].row) /\ integration.rev = party[p].row.rev
                    THEN [integration EXCEPT !.life = "ready", !.rev = @ + 1] ELSE integration
  /\ PartyLeaves(p)
  /\ UNCHANGED profile /\ Bystanders

-----------------------------------------------------------------------------
(* remove_observer_exact.                                                  *)

RemoveObserver(p, e) ==
  /\ Starts(p) /\ ~live
  /\ PartyBecomes(p, [Unoccupied EXCEPT !.at = "readRow", !.exe = e])
  /\ ProfileKept /\ UNCHANGED <<setupLease, live>>

ReadOwner(p) ==
  /\ PartyAt(p, "readRow")
  /\ IF integration.decl = party[p].exe
     THEN /\ PartyBecomes(p, [party[p] EXCEPT !.at = "readProfile", !.row = integration])
          /\ UNCHANGED setupLease
     ELSE PartyLeaves(p)
  /\ ProfileKept /\ Bystanders

(* The file does not name its owner: any exact declaration will do.        *)
ReadProfile(p) ==
  /\ PartyAt(p, "readProfile")
  /\ IF Carries(party[p].row)
     THEN /\ PartyBecomes(p, [party[p] EXCEPT !.at = "unlink", !.settings = profile.settings])
          /\ UNCHANGED setupLease
     ELSE PartyLeaves(p)
  /\ ProfileKept /\ Bystanders

UnlinkProfile(p) ==
  /\ PartyAt(p, "unlink")
  /\ profile' = [NoProfile EXCEPT !.settings = party[p].settings]
  /\ PartyTo(p, "deleteRow")
  /\ UNCHANGED <<integration, setupLease>> /\ Bystanders

DeleteIntegration(p) ==
  /\ PartyAt(p, "deleteRow")
  /\ integration' = IF Owns(party[p].row) THEN NoIntegration ELSE integration
  /\ PartyLeaves(p)
  /\ UNCHANGED profile /\ Bystanders

-----------------------------------------------------------------------------
(* Launches, Codex and faults.                                             *)

(* The preflight of the Navigator, the shell gate and the command line.    *)
CheckReadiness(p, e) ==
  /\ Starts(p) /\ Readiness(e) = "Ready"
  /\ PartyBecomes(p, [Unoccupied EXCEPT !.at = "launch", !.exe = e])
  /\ ProfileKept /\ UNCHANGED <<setupLease, live>>

LaunchCodex(p) ==
  /\ PartyAt(p, "launch")
  /\ live' = TRUE
  /\ PartyLeaves(p)
  /\ ProfileKept /\ UNCHANGED started

CodexExits ==
  /\ live /\ live' = FALSE
  /\ UNCHANGED <<profile, integration, setupLease, party, started, accidents>>

(* Codex keeps its model settings in front of the declaration.             *)
CodexWritesSettings ==
  /\ live \/ \E p \in Parties : PartyAt(p, "review")
  /\ profile.decl # Undeclared /\ ~profile.settings
  /\ profile' = [profile EXCEPT !.settings = TRUE]
  /\ UNCHANGED <<integration, setupLease, party, live, started, accidents>>

(* A death between the write of the file and that of the row.  A row that  *)
(* SQLite fails to write ends the operation in the same state.             *)
PartyDies(p) ==
  /\ ~PartyAt(p, "idle")
  /\ party' = [party EXCEPT ![p] = Unoccupied]
  /\ setupLease' = IF setupLease = p THEN Undeclared ELSE setupLease
  /\ accidents' = IF party[p].at \in {"record", "replace", "deleteRow"}
                  THEN accidents \union {"died"} ELSE accidents
  /\ ProfileKept /\ Bystanders

SetupStep(p) ==
  \/ AcceptSetup(p) \/ CancelSetup(p) \/ Activate(p) \/ ProveAbsence(p) \/ InstallProfile(p)
  \/ RecordIntegration(p) \/ ReadDeclaration(p) \/ RewriteProfile(p) \/ ReplaceIntegration(p)
  \/ StartReview(p) \/ NativeTrust(p) \/ TrustReviewEnds(p) \/ FinalizeTrust(p) \/ VerifyTrust(p)
  \/ SetReady(p)

RemovalStep(p) == ReadOwner(p) \/ ReadProfile(p) \/ UnlinkProfile(p) \/ DeleteIntegration(p)

SetupNext ==
  \/ \E p \in Parties : SetupStep(p) \/ RemovalStep(p) \/ LaunchCodex(p) \/ PartyDies(p)
  \/ \E p \in Parties, e \in Executables :
       RequestSetup(p, e) \/ SetupFromShell(p, e) \/ RemoveObserver(p, e) \/ CheckReadiness(p, e)
  \/ CodexExits \/ CodexWritesSettings

SetupSpec == SetupInit /\ [][SetupNext]_setupVars

-----------------------------------------------------------------------------

Integrations ==
  [owner : 0..Operations, decl : Declarations, life : {"none", "pending", "ready"}, rev : Nat]

SetupTypeOK ==
  /\ profile \in [decl : Declarations, trusted : Declarations, settings : BOOLEAN]
  /\ integration \in Integrations
  /\ setupLease \in Parties \union {Undeclared}
  /\ party \in [Parties ->
       [at : {"idle", "consent", "activate", "absence", "release", "review", "finalize", "verify",
              "setReady", "readRow", "launch"} \union Removing \union Writing,
        exe : Declarations, readiness : NeedsSetup \union {"none"}, row : Integrations,
        settings : BOOLEAN, seen : Declarations]]
  /\ live \in BOOLEAN
  /\ started \in 0..Operations
  /\ accidents \subseteq {"overlapped", "raced", "overtaken", "died"}

(* An executable that finds the observer Ready has had exactly its own     *)
(* hooks reviewed, whoever died or removed what in between, unless a       *)
(* review was still open when another executable replaced the declaration. *)
ReadyIsReviewed ==
  "overtaken" \notin accidents => \A e \in Executables : Readiness(e) = "Ready" => profile.trusted = e

(* While Codex is live its profile stays Ready (require_no_live_runtime),  *)
(* if no setup or removal had passed that check when the launch passed     *)
(* its own.                                                                *)
LiveIsObserved ==
  live /\ accidents \intersect {"raced", "overtaken"} = {} => Readiness(integration.decl) = "Ready"

(* Between operations the file carries the declaration of the row, or none *)
(* without a row: nothing is left that every process refuses to touch,     *)
(* unless two removals or a removal and a set-up overlapped or the write   *)
(* of a row, by a death or an error, did not follow that of its file.      *)
FileFollowsRow ==
  /\ accidents \intersect {"overlapped", "died"} = {}
  /\ \A p \in Parties : party[p].at \notin Removing \union Writing
  => profile.decl = integration.decl

(* The profile that is Ready, in use and on disk is the reviewed one.      *)
ProfileIsReviewed == ReadyIsReviewed /\ LiveIsObserved /\ FileFollowsRow
=============================================================================
