----------------------------- MODULE Bootstrap -----------------------------
(***************************************************************************)
(* Creation and opening of a state root                                    *)
(* (src/src/state/current/bootstrap.rs).                                   *)
(*                                                                         *)
(* Every wsnav process opens the root it works on.  The first one creates  *)
(* it: a directory, a lock file that carries a record of how far creation  *)
(* came, a staging database that is renamed when it is complete, and the   *)
(* provisional lock file.  All of that is one sequence of file system and  *)
(* SQLite effects under a non-blocking lock on bootstrap.lock; a process   *)
(* that dies leaves it to the next one, which resumes from the record or   *)
(* refuses.  An opened process keeps only its SQLite connection, whose     *)
(* rollback journal is a file of the root while it writes.                 *)
(*                                                                         *)
(* Nobody but wsnav writes in the private root, so a file that is there is *)
(* the file that was created: the inode comparisons are left out.          *)
(***************************************************************************)
EXTENDS Naturals, FiniteSets

CONSTANTS
  Processes,   \* wsnav processes; each makes any number of attempts
  Hosts,       \* bound: host identities a creator may generate
  Nil,         \* none of them
  Crashes      \* TRUE if processes may die

ASSUME ProcessesAssumption == Nil \notin Processes /\ Nil \notin Hosts
ASSUME HostsAssumption == {"absent", "empty", "partial"} \cap Hosts = {}
ASSUME CrashesAssumption == Crashes \in BOOLEAN

VARIABLES
  root,        \* the directory
  lock,        \* the contents of bootstrap.lock
  holder,      \* the process that holds the lock on that file
  stage,       \* the staging database
  database,    \* host.sqlite
  metadata,    \* provisional_lock_phase in the database
  provisional, \* provisional.lock
  journal,     \* where a rollback journal lies
  proc,        \* each process: its next step and its record in memory
  losses       \* history: what went wrong at a point that cannot be resumed

files == <<root, lock, stage, database, metadata, provisional, journal>>
bootVars == <<root, lock, holder, stage, database, metadata, provisional, journal, proc, losses>>

BootstrapPhase == <<"root_reserved", "database_create_reserved", "database_owned",
                    "database_ready", "provisional_pending", "ready">>
Phases == {BootstrapPhase[i] : i \in 1..6}
Following(phase) == BootstrapPhase[1 + CHOOSE i \in 1..5 : BootstrapPhase[i] = phase]

Record == [phase : Phases, host : Hosts]
NoRecord == [phase |-> "none", host |-> Nil]
Unreadable == [phase |-> "unreadable", host |-> Nil]

Classifying == {"create", "open"}
Creating == {"mkdir", "chmod", "create_lock", "flock_new", "first_record"}
Working == {"advance", "truncate", "write", "commit_stage",
            "fill_provisional", "provisional", "commit_provisional"}
Steps == {"idle", "flock", "read", "using", "writing"} \union Classifying \union Creating \union Working

BootInit ==
  /\ root \in {"absent", "private", "foreign"}
  /\ lock = NoRecord
  /\ holder = Nil
  /\ stage = "absent"
  /\ database = "absent"
  /\ metadata = "pending"
  /\ provisional = "absent"
  /\ journal = "none"
  /\ proc = [p \in Processes |-> [at |-> "idle", record |-> NoRecord]]
  /\ losses = {}

-----------------------------------------------------------------------------
(* A process and its lock.                                                 *)

At(p, step) == proc[p].at = step
Goto(p, step) == proc' = [proc EXCEPT ![p].at = step]
Holds(p) == holder = p
Free == holder = Nil

(* An attempt ends: the lock goes with the lease.                          *)
Return(p, step) ==
  /\ proc' = [proc EXCEPT ![p] = [at |-> step, record |-> NoRecord]]
  /\ holder' = IF Holds(p) THEN Nil ELSE holder

Refuse(p) == Return(p, "idle") /\ UNCHANGED <<files, losses>>

-----------------------------------------------------------------------------
(* classify_current_root: names and metadata only, without the lock.       *)

\* Mutant: an existing directory is taken without looking into it.
VacantAnywhere == root \in {"private", "foreign"} /\ lock = NoRecord

Vacant == root = "private" /\ lock = NoRecord

(* The lock is there and every other name is known; a journal beside       *)
(* host.sqlite is not, one beside the staging database is.                 *)
Current == root = "private" /\ lock # NoRecord /\ journal # "database"

Start(p) ==
  /\ At(p, "idle")
  /\ \E step \in Classifying : Goto(p, step)
  /\ UNCHANGED <<files, holder, losses>>

ClassifyAbsent(p) ==
  /\ At(p, "create")
  /\ root = "absent"
  /\ Goto(p, "mkdir")
  /\ UNCHANGED <<files, holder, losses>>

ClassifyEmpty(p) ==
  /\ At(p, "create")
  /\ Vacant
  /\ Goto(p, "create_lock")
  /\ UNCHANGED <<files, holder, losses>>

ClassifyCurrent(p) ==
  /\ proc[p].at \in Classifying
  /\ Current
  /\ Goto(p, "flock")
  /\ UNCHANGED <<files, holder, losses>>

ClassifyRefused(p) ==
  /\ proc[p].at \in Classifying
  /\ ~ Current
  /\ At(p, "create") => ~ Vacant /\ root # "absent"
  /\ Refuse(p)

-----------------------------------------------------------------------------
(* create_private_fresh_root and BootstrapLease::create.                   *)

MakeRoot(p) ==
  /\ At(p, "mkdir")
  /\ root = "absent"
  /\ root' = "open"
  /\ Goto(p, "chmod")
  /\ UNCHANGED <<lock, holder, stage, database, metadata, provisional, journal, losses>>

MakeRootFails(p) == At(p, "mkdir") /\ root # "absent" /\ Refuse(p)

(* The root is private; its creator classifies it again.                   *)
SetRootPrivate(p) ==
  /\ At(p, "chmod")
  /\ root' = "private"
  /\ Goto(p, "create")
  /\ UNCHANGED <<lock, holder, stage, database, metadata, provisional, journal, losses>>

(* O_CREAT | O_EXCL: an empty file, not yet locked.                        *)
CreateLockFile(p) ==
  /\ At(p, "create_lock")
  /\ lock = NoRecord
  /\ lock' = Unreadable
  /\ Goto(p, "flock_new")
  /\ UNCHANGED <<root, holder, stage, database, metadata, provisional, journal, losses>>

CreateLockFileFails(p) == At(p, "create_lock") /\ lock # NoRecord /\ Refuse(p)

FlockNew(p) ==
  /\ At(p, "flock_new")
  /\ Free
  /\ holder' = p
  /\ Goto(p, "first_record")
  /\ UNCHANGED <<files, losses>>

(* Somebody who found the empty file holds its lock: the creator gives up  *)
(* and the file stays empty.                                               *)
FlockNewBusy(p) ==
  /\ At(p, "flock_new")
  /\ ~ Free
  /\ losses' = losses \union {"new_lock_busy"}
  /\ Return(p, "idle")
  /\ UNCHANGED files

WriteFirstRecord(p) ==
  /\ At(p, "first_record")
  /\ \E h \in Hosts :
       /\ lock' = [phase |-> "root_reserved", host |-> h]
       /\ proc' = [proc EXCEPT ![p] = [at |-> "advance", record |-> lock']]
  /\ UNCHANGED <<root, holder, stage, database, metadata, provisional, journal, losses>>

-----------------------------------------------------------------------------
(* BootstrapLease::acquire.                                                *)

Flock(p) ==
  /\ At(p, "flock")
  /\ Free
  /\ holder' = p
  /\ Goto(p, "read")
  /\ UNCHANGED <<files, losses>>

FlockBusy(p) == At(p, "flock") /\ ~ Free /\ Refuse(p)

ReadRecord(p) ==
  /\ At(p, "read")
  /\ lock \in Record
  /\ proc' = [proc EXCEPT ![p] = [at |-> "advance", record |-> lock]]
  /\ UNCHANGED <<files, holder, losses>>

ReadRecordFails(p) == At(p, "read") /\ lock \notin Record /\ Refuse(p)

-----------------------------------------------------------------------------
(* transition_with: the record is truncated and written in place.          *)

Transition(p) ==
  LET r == proc[p].record
  IN  proc' = [proc EXCEPT ![p] = [at |-> "truncate",
                                   record |-> [r EXCEPT !.phase = Following(r.phase)]]]

TruncateRecord(p) ==
  /\ At(p, "truncate")
  /\ lock' = Unreadable
  /\ Goto(p, "write")
  /\ UNCHANGED <<root, holder, stage, database, metadata, provisional, journal, losses>>

WriteRecord(p) ==
  /\ At(p, "write")
  /\ lock' = proc[p].record
  /\ Goto(p, "advance")
  /\ UNCHANGED <<root, holder, stage, database, metadata, provisional, journal, losses>>

-----------------------------------------------------------------------------
(* finish_current_bootstrap: one pass for each phase of the record.        *)

In(p, phase) == At(p, "advance") /\ proc[p].record.phase = phase
HostOf(p) == proc[p].record.host

NothingBuilt == database = "absent" /\ provisional = "absent"

\* Mutant: a database that is published already is not resumed.
AdmissibleUnpublished(r) ==
  /\ journal # "database"
  /\ CASE r.phase \in {"root_reserved", "database_create_reserved"} ->
            NothingBuilt /\ stage = "absent"
       [] r.phase = "database_owned" ->
            NothingBuilt /\ stage \in {"empty", r.host} /\ journal = "none"
       [] r.phase = "database_ready" -> NothingBuilt /\ stage = r.host
       [] r.phase = "provisional_pending" ->
            stage = "absent" /\ database = r.host /\ provisional \in {"absent", r.host}
       [] r.phase = "ready" ->
            stage = "absent" /\ database = r.host /\ provisional = r.host

(* What a phase requires of the files before its effect.                   *)
Admissible(r) ==
  /\ journal # "database"
  /\ CASE r.phase \in {"root_reserved", "database_create_reserved"} ->
            NothingBuilt /\ stage = "absent"
       [] r.phase = "database_owned" ->
            NothingBuilt /\ stage \in {"empty", r.host} /\ journal = "none"
       [] r.phase = "database_ready" ->
            /\ provisional = "absent"
            /\ {stage, database} = {"absent", r.host}
            /\ journal = "none" /\ metadata = "pending"
       [] r.phase = "provisional_pending" ->
            /\ stage = "absent" /\ database = r.host
            /\ provisional \in {"absent", r.host}
            /\ metadata = "ready" => provisional # "absent"
       [] r.phase = "ready" ->
            /\ stage = "absent" /\ database = r.host /\ metadata = "ready"
            /\ provisional = r.host

Advancing(p, phase) == In(p, phase) /\ Admissible(proc[p].record)

ReserveStageName(p) ==
  /\ Advancing(p, "root_reserved")
  /\ Transition(p)
  /\ UNCHANGED <<files, holder, losses>>

CreateStage(p) ==
  /\ Advancing(p, "database_create_reserved")
  /\ stage' = "empty"
  /\ Transition(p)
  /\ UNCHANGED <<root, lock, holder, database, metadata, provisional, journal, losses>>

BeginStageTransaction(p) ==
  /\ Advancing(p, "database_owned")
  /\ stage = "empty"
  /\ journal' = "stage"
  /\ Goto(p, "commit_stage")
  /\ UNCHANGED <<root, lock, holder, stage, database, metadata, provisional, losses>>

\* Mutant: the journal of the staging database stays.
CommitStageKeepsJournal(p) ==
  /\ At(p, "commit_stage")
  /\ stage' = HostOf(p)
  /\ Transition(p)
  /\ UNCHANGED <<root, lock, holder, database, metadata, provisional, journal, losses>>

CommitStage(p) ==
  /\ At(p, "commit_stage")
  /\ stage' = HostOf(p)
  /\ journal' = "none"
  /\ Transition(p)
  /\ UNCHANGED <<root, lock, holder, database, metadata, provisional, losses>>

AcceptStage(p) ==
  /\ Advancing(p, "database_owned")
  /\ stage = HostOf(p)
  /\ Transition(p)
  /\ UNCHANGED <<files, holder, losses>>

PublishDatabase(p) ==
  /\ Advancing(p, "database_ready")
  /\ stage = HostOf(p)
  /\ stage' = "absent"
  /\ database' = HostOf(p)
  /\ Transition(p)
  /\ UNCHANGED <<root, lock, holder, metadata, provisional, journal, losses>>

AcceptPublished(p) ==
  /\ Advancing(p, "database_ready")
  /\ database = HostOf(p)
  /\ Transition(p)
  /\ UNCHANGED <<files, holder, losses>>

CreateProvisional(p) ==
  /\ Advancing(p, "provisional_pending")
  /\ provisional = "absent"
  /\ provisional' = "partial"
  /\ Goto(p, "fill_provisional")
  /\ UNCHANGED <<root, lock, holder, stage, database, metadata, journal, losses>>

FillProvisional(p) ==
  /\ At(p, "fill_provisional")
  /\ provisional' = HostOf(p)
  /\ Goto(p, "provisional")
  /\ UNCHANGED <<root, lock, holder, stage, database, metadata, journal, losses>>

AcceptProvisional(p) ==
  /\ Advancing(p, "provisional_pending")
  /\ provisional = HostOf(p)
  /\ Goto(p, "provisional")
  /\ UNCHANGED <<files, holder, losses>>

BeginProvisionalTransaction(p) ==
  /\ At(p, "provisional")
  /\ metadata = "pending"
  /\ journal' = "database"
  /\ Goto(p, "commit_provisional")
  /\ UNCHANGED <<root, lock, holder, stage, database, metadata, provisional, losses>>

CommitProvisional(p) ==
  /\ At(p, "commit_provisional")
  /\ metadata' = "ready"
  /\ journal' = "none"
  /\ Transition(p)
  /\ UNCHANGED <<root, lock, holder, stage, database, provisional, losses>>

ProvisionalIsReady(p) ==
  /\ At(p, "provisional")
  /\ metadata = "ready"
  /\ Transition(p)
  /\ UNCHANGED <<files, holder, losses>>

(* bootstrap_open_ready: the connection stays, the lock goes.              *)
OpenReady(p) ==
  /\ Advancing(p, "ready")
  /\ Return(p, "using")
  /\ UNCHANGED <<files, losses>>

AdvanceRefused(p) ==
  /\ At(p, "advance")
  /\ ~ Admissible(proc[p].record)
  /\ Refuse(p)

-----------------------------------------------------------------------------
(* An open connection.  SQLite admits one writer; whoever comes next rolls *)
(* the journal of a dead writer back.                                      *)

Writers == {p \in Processes : At(p, "writing") \/ At(p, "commit_provisional")}

RollBack(p) ==
  /\ At(p, "using")
  /\ journal = "database" /\ Writers = {}
  /\ journal' = "none"
  /\ UNCHANGED <<root, lock, holder, stage, database, metadata, provisional, proc, losses>>

BeginWrite(p) ==
  /\ At(p, "using")
  /\ journal = "none"
  /\ journal' = "database"
  /\ Goto(p, "writing")
  /\ UNCHANGED <<root, lock, holder, stage, database, metadata, provisional, losses>>

EndWrite(p) ==
  /\ At(p, "writing")
  /\ journal' = "none"
  /\ Goto(p, "using")
  /\ UNCHANGED <<root, lock, holder, stage, database, metadata, provisional, losses>>

Close(p) == At(p, "using") /\ Refuse(p)

-----------------------------------------------------------------------------
(* A process dies.  Between an effect and the record that binds it, or     *)
(* inside one that is not atomic, its work cannot be resumed.              *)

Unresumable(p) ==
  \/ proc[p].at \in {"chmod", "flock_new", "first_record", "write", "commit_stage",
                     "fill_provisional", "commit_provisional", "writing"}
  \/ At(p, "truncate") /\ proc[p].record.phase = "database_owned"

Crash(p) ==
  /\ Crashes
  /\ ~ At(p, "idle")
  /\ Return(p, "idle")
  /\ losses' = losses \union {IF Unresumable(p) THEN "torn" ELSE "died"}
  /\ UNCHANGED files

-----------------------------------------------------------------------------

Classify(p) == ClassifyAbsent(p) \/ ClassifyEmpty(p) \/ ClassifyCurrent(p) \/ ClassifyRefused(p)

CreateRoot(p) ==
  \/ MakeRoot(p) \/ MakeRootFails(p) \/ SetRootPrivate(p)
  \/ CreateLockFile(p) \/ CreateLockFileFails(p)
  \/ FlockNew(p) \/ FlockNewBusy(p) \/ WriteFirstRecord(p)

AcquireLock(p) == Flock(p) \/ FlockBusy(p) \/ ReadRecord(p) \/ ReadRecordFails(p)

Advance(p) ==
  \/ TruncateRecord(p) \/ WriteRecord(p)
  \/ ReserveStageName(p) \/ CreateStage(p)
  \/ BeginStageTransaction(p) \/ CommitStage(p) \/ AcceptStage(p)
  \/ PublishDatabase(p) \/ AcceptPublished(p)
  \/ CreateProvisional(p) \/ FillProvisional(p) \/ AcceptProvisional(p)
  \/ BeginProvisionalTransaction(p) \/ CommitProvisional(p) \/ ProvisionalIsReady(p)
  \/ OpenReady(p) \/ AdvanceRefused(p)

Use(p) == RollBack(p) \/ BeginWrite(p) \/ EndWrite(p) \/ Close(p)

Attempt(p) == Classify(p) \/ CreateRoot(p) \/ AcquireLock(p) \/ Advance(p)

BootNext == \E p \in Processes : Start(p) \/ Attempt(p) \/ Use(p) \/ Crash(p)

(* A process that has begun an attempt runs on until it ends or dies; one  *)
(* need not begin, write or close.                                         *)
BootFairness == \A p \in Processes : WF_bootVars(Attempt(p))

BootSpec == BootInit /\ [][BootNext]_bootVars
FairBootSpec == BootSpec /\ BootFairness

-----------------------------------------------------------------------------
(* Properties.                                                             *)

Losses == {"new_lock_busy", "torn", "died"}

(* Every variable keeps its type.                                          *)
BootTypeOK ==
  /\ root \in {"absent", "open", "private", "foreign"}
  /\ lock \in Record \union {NoRecord, Unreadable}
  /\ holder \in Processes \union {Nil}
  /\ stage \in {"absent", "empty"} \union Hosts
  /\ database \in {"absent"} \union Hosts
  /\ metadata \in {"pending", "ready"}
  /\ provisional \in {"absent", "partial"} \union Hosts
  /\ journal \in {"none", "stage", "database"}
  /\ proc \in [Processes -> [at : Steps, record : Record \union {NoRecord}]]
  /\ losses \subseteq Losses

Identities ==
  ({stage, database, provisional, lock.host} \union {HostOf(p) : p \in Processes}) \cap Hosts

(* However many processes create and open a root at once, one host        *)
(* identity is ever in use: in the lock record, both databases, the        *)
(* provisional lock and the memory of every process.                       *)
OneIdentity == \A h, i \in Identities : h = i

Ready ==
  /\ lock.phase = "ready" /\ database = lock.host
  /\ metadata = "ready" /\ provisional = database /\ stage = "absent"

(* A process works on an open connection only in a root that is completely *)
(* published, and nobody else is then still creating it.                   *)
OpenIsReady ==
  (\E p \in Processes : At(p, "using") \/ At(p, "writing"))
    => Ready /\ \A p \in Processes : proc[p].at \notin {"truncate", "write"}

Quiet == \A p \in Processes : At(p, "idle") \/ At(p, "using")
Resumable == root = "absent" \/ Vacant \/ (Current /\ lock \in Record /\ Admissible(lock))

(* A root that nobody is working on can be created, resumed or opened by   *)
(* the next process, wherever the others died, unless one of them lost its *)
(* new lock file or died inside an effect that is not bound yet.           *)
ResumesUnlessTorn ==
  Quiet /\ root # "foreign" /\ losses \subseteq {"died"} => Resumable

(* The root that competing processes build is one host's, whole before     *)
(* anybody uses it, and open to the next process whoever died.             *)
RootIsSound == OneIdentity /\ OpenIsReady /\ ResumesUnlessTorn

(* A first start ends with a root that is ready, whoever races with it, as *)
(* long as nobody dies and nobody finds the lock file while it is new.     *)
FirstStartSettles ==
  (\E p \in Processes : At(p, "mkdir")) ~> (Ready \/ losses # {})

(* The root implements the promise of one published identity.              *)
Promise == INSTANCE RootPromise WITH
  foreign <- (root = "foreign"),
  published <- IF metadata = "ready" THEN database ELSE Nil,
  users <- {p \in Processes : At(p, "using") \/ At(p, "writing")}
RootPromised == Promise!Spec
=============================================================================
