-------------------------- MODULE BootstrapProofs --------------------------
(***************************************************************************)
(* However many processes create and open a root at once and wherever they *)
(* die, it is one host's root, whole before anybody uses it, and open to   *)
(* the next process unless one of them died inside an effect that is not   *)
(* bound yet.                                                              *)
(***************************************************************************)
EXTENDS Bootstrap, TLAPS

\* The creator of the lock file before its first record.
New == {"flock_new", "first_record"}

\* Steps that hold the lock, and those that know its record.
Recording == {"advance"} \union Working
Holding == {"first_record", "read"} \union Recording

Blank == /\ stage = "absent" /\ database = "absent" /\ provisional = "absent"
         /\ journal = "none" /\ metadata = "pending"
         /\ \A p \in Processes : proc[p].at \notin Recording

\* What a phase says of the files, but for the journal of the database.
Base(r) ==
  CASE r.phase \in {"root_reserved", "database_create_reserved"} ->
            NothingBuilt /\ stage = "absent"
       [] r.phase = "database_owned" ->
            NothingBuilt /\ stage \in {"empty", r.host} /\ journal = "none"
       [] r.phase = "database_ready" ->
            /\ provisional = "absent"
            /\ {stage, database} = {"absent", r.host}
            /\ journal = "none" /\ metadata = "pending"
       [] r.phase = "provisional_pending" ->
            /\ stage = "absent" /\ database = r.host
            /\ provisional \in {"absent", r.host}
            /\ metadata = "ready" => provisional # "absent"
       [] r.phase = "ready" ->
            /\ stage = "absent" /\ database = r.host /\ metadata = "ready"
            /\ provisional = r.host

\* The record of a process whose effect is done: the lock is one record behind.
Ahead(r) == /\ lock \in Record /\ lock.phase # "ready" /\ r.host = lock.host
            /\ r.phase = Following(lock.phase)
            /\ Base(r) /\ (r.phase # "database_owned" => Base(lock))

\* What the step of a process says.
ProcOK(p) ==
  /\ proc[p].at \in Holding <=> holder = p
  /\ proc[p].at \in Recording <=> proc[p].record # NoRecord
  /\ At(p, "chmod") => root \in {"open", "private"}
  /\ At(p, "create_lock") => root = "private"
  /\ proc[p].at \in New => lock = Unreadable /\ Blank
  /\ proc[p].at \in {"read", "flock"} \union Recording => lock # NoRecord
  /\ At(p, "advance") => lock = proc[p].record
  /\ At(p, "truncate") => Ahead(proc[p].record)
  /\ At(p, "write") => lock = Unreadable /\ Base(proc[p].record)
  /\ At(p, "commit_stage") => /\ lock = proc[p].record /\ lock.phase = "database_owned"
                              /\ NothingBuilt /\ stage = "empty"
  /\ proc[p].at \in {"fill_provisional", "provisional", "commit_provisional"} =>
        /\ lock = proc[p].record /\ lock.phase = "provisional_pending"
        /\ stage = "absent" /\ database = lock.host
  /\ proc[p].at \in {"provisional", "commit_provisional"} => provisional = lock.host
  /\ At(p, "fill_provisional") => metadata = "pending"
  /\ proc[p].at \in {"using", "writing"} => Ready

OneNew == \A p, q \in Processes : proc[p].at \in New /\ proc[q].at \in New => p = q

RootOK == /\ lock = NoRecord => Blank
          /\ lock # NoRecord => root = "private"
          /\ metadata = "ready" => database \in Hosts
          /\ journal = "stage" => stage = "empty"

\* Steps between the effect of a phase and the record that binds it.
StageUnbound(p) == \/ proc[p].at \in {"commit_stage", "fill_provisional"}
                   \/ At(p, "truncate") /\ proc[p].record.phase = "database_owned"

\* Nothing went wrong that cannot be resumed: somebody still works on whatever
\* the record does not account for.
Whole == losses \subseteq {"died"} =>
  /\ root = "open" => \E p \in Processes : At(p, "chmod")
  /\ lock = Unreadable => \E p \in Processes : proc[p].at \in New \union {"write"}
  /\ journal = "database" => Writers # {}
  /\ lock \in Record /\ (\A p \in Processes : ~ StageUnbound(p)) => Base(lock)

BInv == (\A p \in Processes : ProcOK(p)) /\ OneNew /\ RootOK /\ Whole /\ OneIdentity

-----------------------------------------------------------------------------
(* Phases and records.                                                     *)

\* The phases, listed.
LEMMA PhasesAre ==
  Phases = {"root_reserved", "database_create_reserved", "database_owned",
            "database_ready", "provisional_pending", "ready"}
<1>1. /\ BootstrapPhase[1] = "root_reserved" /\ BootstrapPhase[2] = "database_create_reserved"
      /\ BootstrapPhase[3] = "database_owned" /\ BootstrapPhase[4] = "database_ready"
      /\ BootstrapPhase[5] = "provisional_pending" /\ BootstrapPhase[6] = "ready"
  BY DEF BootstrapPhase
<1>2. 1..6 = {1, 2, 3, 4, 5, 6}
  OBVIOUS
<1> QED BY <1>1, <1>2 DEF Phases

\* The phase that follows each.
LEMMA FollowingIs ==
  /\ Following("root_reserved") = "database_create_reserved"
  /\ Following("database_create_reserved") = "database_owned"
  /\ Following("database_owned") = "database_ready"
  /\ Following("database_ready") = "provisional_pending"
  /\ Following("provisional_pending") = "ready"
<1>1. /\ BootstrapPhase[1] = "root_reserved" /\ BootstrapPhase[2] = "database_create_reserved"
      /\ BootstrapPhase[3] = "database_owned" /\ BootstrapPhase[4] = "database_ready"
      /\ BootstrapPhase[5] = "provisional_pending" /\ BootstrapPhase[6] = "ready"
  BY DEF BootstrapPhase
<1>2. 1..5 = {1, 2, 3, 4, 5}
  OBVIOUS
<1>3. ASSUME NEW k \in 1..5 PROVE (CHOOSE i \in 1..5 : BootstrapPhase[i] = BootstrapPhase[k]) = k
  <2>1. \A i \in 1..5 : BootstrapPhase[i] = BootstrapPhase[k] => i = k
    BY <1>1, <1>2
  <2> QED BY <2>1
<1>4. ASSUME NEW k \in 1..5 PROVE Following(BootstrapPhase[k]) = BootstrapPhase[1 + k]
  <2>1. Following(BootstrapPhase[k]) = BootstrapPhase[1 + (CHOOSE i \in 1..5 : BootstrapPhase[i] = BootstrapPhase[k])]
    BY DEF Following
  <2> QED BY <2>1, <1>3
<1>5. /\ Following(BootstrapPhase[1]) = BootstrapPhase[2] /\ Following(BootstrapPhase[2]) = BootstrapPhase[3]
      /\ Following(BootstrapPhase[3]) = BootstrapPhase[4] /\ Following(BootstrapPhase[4]) = BootstrapPhase[5]
      /\ Following(BootstrapPhase[5]) = BootstrapPhase[6]
  BY <1>4
<1> QED BY <1>1, <1>5

\* A record, no record and an unreadable one are three things.
LEMMA RecordsDiffer ==
  /\ NoRecord \notin Record /\ Unreadable \notin Record /\ NoRecord # Unreadable
  /\ \A r \in Record : r.phase # "none" /\ r.phase # "unreadable"
  /\ NoRecord.host = Nil /\ Unreadable.host = Nil
  /\ NoRecord.phase = "none" /\ Unreadable.phase = "unreadable"
BY PhasesAre DEF Record, NoRecord, Unreadable

\* A record moves to the phase that follows.
LEMMA RecordFollows ==
  ASSUME NEW r \in Record, r.phase # "ready"
  PROVE  /\ [r EXCEPT !.phase = Following(r.phase)] \in Record
         /\ [r EXCEPT !.phase = Following(r.phase)].phase = Following(r.phase)
         /\ [r EXCEPT !.phase = Following(r.phase)].host = r.host
BY PhasesAre, FollowingIs DEF Record

\* A host before WSNav is well typed.
LEMMA BootTypeInit == BootInit => BootTypeOK
BY DEF BootInit, BootTypeOK, Steps

\* The record of one process changes.
LEMMA ProcMoves ==
  ASSUME BootTypeOK, NEW p \in Processes, NEW at \in Steps
  PROVE  /\ Goto(p, at) => /\ proc' \in [Processes -> [at : Steps, record : Record \union {NoRecord}]]
                           /\ proc'[p].at = at /\ proc'[p].record = proc[p].record
                           /\ \A q \in Processes \ {p} : proc'[q] = proc[q]
         /\ Return(p, at) => /\ proc' \in [Processes -> [at : Steps, record : Record \union {NoRecord}]]
                             /\ proc'[p].at = at /\ proc'[p].record = NoRecord
                             /\ \A q \in Processes \ {p} : proc'[q] = proc[q]
         /\ \A r \in Record : proc' = [proc EXCEPT ![p] = [at |-> at, record |-> r]] =>
              /\ proc' \in [Processes -> [at : Steps, record : Record \union {NoRecord}]]
              /\ proc'[p].at = at /\ proc'[p].record = r
              /\ \A q \in Processes \ {p} : proc'[q] = proc[q]
BY DEF BootTypeOK, Goto, Return

\* A process announces the next record.
LEMMA TransitionMoves ==
  ASSUME BootTypeOK, NEW p \in Processes, Transition(p), proc[p].record \in Record,
         proc[p].record.phase # "ready"
  PROVE  /\ proc' \in [Processes -> [at : Steps, record : Record \union {NoRecord}]]
         /\ proc'[p].at = "truncate" /\ proc'[p].record \in Record
         /\ proc'[p].record.phase = Following(proc[p].record.phase)
         /\ proc'[p].record.host = proc[p].record.host
         /\ \A q \in Processes \ {p} : proc'[q] = proc[q]
<1> DEFINE r == [proc[p].record EXCEPT !.phase = Following(proc[p].record.phase)]
<1>1. r \in Record /\ r.phase = Following(proc[p].record.phase) /\ r.host = proc[p].record.host
  BY RecordFollows
<1>2. proc' = [proc EXCEPT ![p] = [at |-> "truncate", record |-> r]]
  BY DEF Transition
<1> HIDE DEF r
<1>3. "truncate" \in Steps
  BY DEF Steps, Working
<1> QED BY <1>1, <1>2, <1>3, ProcMoves

-----------------------------------------------------------------------------
(* What keeps the invariant.                                               *)

\* Nobody else holds the lock, and nobody is new while there is a record.
LEMMA LockAlone ==
  ASSUME BInv, NEW p \in Processes, proc[p].at \in Recording
  PROVE  /\ holder = p /\ lock # NoRecord /\ root = "private"
         /\ \A q \in Processes : proc[q].at \notin New /\ (q # p => proc[q].at \notin Holding)
<1>1. holder = p /\ lock # NoRecord
  BY DEF BInv, ProcOK, Holding
<1>2. ASSUME NEW q \in Processes PROVE proc[q].at \notin New /\ (q # p => proc[q].at \notin Holding)
  BY <1>1 DEF BInv, ProcOK, Blank
<1> QED BY <1>1, <1>2 DEF BInv, RootOK

\* One identity stays one while nobody brings another one.
LEMMA IdentityKept ==
  ASSUME OneIdentity, Identities' \subseteq Identities
  PROVE  OneIdentity'
BY DEF OneIdentity

\* A process takes a step that leaves the files alone.
LEMMA AttemptMoveKeeps ==
  ASSUME BootTypeOK, BInv, NEW p \in Processes, UNCHANGED files, losses \subseteq losses',
         \A q \in Processes \ {p} : proc'[q] = proc[q],
         holder' = holder \/ (holder = Nil /\ holder' = p) \/ (holder = p /\ holder' = Nil),
         ProcOK(p)',
         proc'[p].at \in New => proc[p].at \in New,
         proc'[p].at \in Recording => lock # Unreadable \/ proc[p].at \in Recording,
         HostOf(p)' \in {Nil, HostOf(p), lock.host},
         losses' \subseteq {"died"} =>
           /\ At(p, "chmod") => At(p, "chmod")'
           /\ proc[p].at \in New \union {"write"} => proc'[p].at \in New \union {"write"}
           /\ p \in Writers => p \in Writers'
           /\ StageUnbound(p) => StageUnbound(p)'
  PROVE  BInv'
<1> USE DEF files
<1>1. ASSUME NEW q \in Processes PROVE ProcOK(q)'
  <2> SUFFICES ASSUME q # p PROVE ProcOK(q)'
    OBVIOUS
  <2>1. ProcOK(q) /\ proc'[q] = proc[q] /\ q # Nil
    BY ProcessesAssumption DEF BInv
  <2>2. holder' = q <=> holder = q
    BY <2>1, ProcessesAssumption
  <2>3. Ready' = Ready /\ \A r : Base(r)' = Base(r)
    BY DEF Ready, Base, NothingBuilt
  <2>4. \A r : Ahead(r)' = Ahead(r)
    BY <2>3 DEF Ahead
  <2>5. ASSUME proc[q].at \in New PROVE Blank'
    <3>1. lock = Unreadable /\ Blank
      BY <2>1, <2>5 DEF ProcOK
    <3> QED BY <3>1 DEF Blank
  <2> QED BY <2>1, <2>2, <2>3, <2>4, <2>5 DEF ProcOK, At, NothingBuilt
<1>2. OneNew'
  BY DEF BInv, OneNew
<1>3. RootOK'
  <2>1. lock = NoRecord => \A q \in Processes : proc'[q].at \notin Recording
    BY <1>1 DEF ProcOK
  <2> QED BY <2>1 DEF BInv, RootOK, Blank
<1>4. Whole'
  <2> SUFFICES ASSUME losses' \subseteq {"died"}
               PROVE  /\ root' = "open" => \E q \in Processes : At(q, "chmod")'
                      /\ lock' = Unreadable => \E q \in Processes : proc'[q].at \in New \union {"write"}
                      /\ journal' = "database" => Writers' # {}
                      /\ lock' \in Record /\ (\A q \in Processes : ~ StageUnbound(q)') => Base(lock)'
    BY DEF Whole
  <2>1. losses \subseteq {"died"}
    OBVIOUS
  <2>2. root = "open" => \E q \in Processes : At(q, "chmod")'
    BY <2>1 DEF BInv, Whole, At
  <2>3. lock = Unreadable => \E q \in Processes : proc'[q].at \in New \union {"write"}
    BY <2>1 DEF BInv, Whole
  <2>4. journal = "database" => Writers' # {}
    <3>1. \A q \in Writers : q \in Writers'
      BY DEF Writers, At
    <3> QED BY <2>1, <3>1 DEF BInv, Whole
  <2>5. (\A q \in Processes : ~ StageUnbound(q)') => \A q \in Processes : ~ StageUnbound(q)
    BY DEF StageUnbound, At
  <2> QED BY <2>1, <2>2, <2>3, <2>4, <2>5 DEF BInv, Whole, Base, NothingBuilt
<1>5. OneIdentity'
  <2>1. \A q \in Processes : HostOf(q)' \in Hosts => HostOf(q)' \in Identities
    BY ProcessesAssumption DEF Identities, HostOf
  <2>2. Identities' \subseteq Identities
    BY <2>1 DEF Identities
  <2> QED BY <2>2, IdentityKept DEF BInv
<1> QED BY <1>1, <1>2, <1>3, <1>4, <1>5 DEF BInv

\* The process that holds the lock and its record works on the files.
LEMMA WorkKeeps ==
  ASSUME BootTypeOK, BInv, NEW p \in Processes, proc[p].at \in Recording, ~ Ready,
         UNCHANGED <<root, holder, losses>>,
         \A q \in Processes \ {p} : proc'[q] = proc[q],
         lock' \in Record \union {Unreadable}, proc'[p].at \in Recording,
         ProcOK(p)',
         metadata' = "ready" => database' \in Hosts,
         journal' = "stage" => stage' = "empty",
         lock' = Unreadable => At(p, "write")',
         journal' = "database" => \/ At(p, "commit_provisional")'
                                  \/ journal = "database" /\ ~ At(p, "commit_provisional"),
         lock' \in Record /\ ~ StageUnbound(p)' => Base(lock)',
         {stage', database', provisional', lock'.host, HostOf(p)'} \cap Hosts \subseteq Identities
  PROVE  BInv'
<1>1. /\ holder = p /\ lock # NoRecord /\ root = "private"
      /\ \A q \in Processes : proc[q].at \notin New /\ (q # p => proc[q].at \notin Holding)
  BY LockAlone
<1>2. \A q \in Processes : proc[q].at \notin {"using", "writing"}
  BY DEF BInv, ProcOK
<1>3. lock' # NoRecord
  BY RecordsDiffer
<1>4. ASSUME NEW q \in Processes PROVE ProcOK(q)'
  <2> SUFFICES ASSUME q # p PROVE ProcOK(q)'
    OBVIOUS
  <2>1. ProcOK(q) /\ proc'[q] = proc[q] /\ proc[q].at \notin Holding \union New \union {"using", "writing"}
    BY <1>1, <1>2 DEF BInv
  <2> QED BY <1>1, <1>3, <2>1 DEF ProcOK, At, Holding, Recording, Working
<1>5. OneNew'
  BY <1>1 DEF OneNew, New, Recording, Working
<1>6. RootOK'
  BY <1>1, <1>3 DEF RootOK
<1>7. Whole'
  <2> SUFFICES ASSUME losses' \subseteq {"died"}
               PROVE  /\ root' = "open" => \E q \in Processes : At(q, "chmod")'
                      /\ lock' = Unreadable => \E q \in Processes : proc'[q].at \in New \union {"write"}
                      /\ journal' = "database" => Writers' # {}
                      /\ lock' \in Record /\ (\A q \in Processes : ~ StageUnbound(q)') => Base(lock)'
    BY DEF Whole
  <2>1. journal = "database" => At(p, "commit_provisional")
    BY <1>1, <1>2 DEF BInv, Whole, Writers, At, Holding, Recording, Working
  <2>2. journal' = "database" => Writers' # {}
    BY <2>1 DEF Writers
  <2> QED BY <1>1, <2>2 DEF At
<1>8. OneIdentity'
  <2>1. \A q \in Processes : HostOf(q)' \in Hosts => HostOf(q)' \in Identities
    BY DEF Identities, HostOf
  <2>2. Identities' \subseteq Identities
    BY <2>1 DEF Identities
  <2> QED BY <2>2, IdentityKept DEF BInv
<1> QED BY <1>4, <1>5, <1>6, <1>7, <1>8 DEF BInv

\* Initially there is no root, or an empty one, or one of somebody else.
LEMMA BootstrapInit == BootInit => BInv
BY ProcessesAssumption, HostsAssumption, RecordsDiffer DEF BootInit, BInv, ProcOK, OneNew, RootOK, Blank, Whole, OneIdentity,
   Identities, HostOf, Holding, Recording, Working, New, NoRecord, At

-----------------------------------------------------------------------------
(* Every step keeps the invariant.                                         *)

\* An attempt ends, or the connection closes.
LEMMA AttemptReturnKeeps ==
  ASSUME BootTypeOK, BInv, NEW p \in Processes, NEW at \in {"idle", "using"}, Return(p, at),
         UNCHANGED files, losses \subseteq losses', at = "using" => Ready,
         losses' \subseteq {"died"} => proc[p].at \notin New \union {"chmod", "write"}
                                       /\ p \notin Writers /\ ~ StageUnbound(p)
  PROVE  BInv'
<1>1. /\ proc'[p].at = at /\ proc'[p].record = NoRecord /\ \A q \in Processes \ {p} : proc'[q] = proc[q]
  BY ProcMoves DEF Steps
<1>2. holder' # p /\ (holder' = holder \/ (holder = p /\ holder' = Nil))
  BY ProcessesAssumption DEF Return, Holds
<1>3. ProcOK(p)'
  BY <1>1, <1>2 DEF ProcOK, At, Holding, Recording, Working, New, Ready, files
<1>4. HostOf(p)' = Nil
  BY <1>1, RecordsDiffer DEF HostOf
<1>5. proc'[p].at \notin New \union Recording
  BY <1>1 DEF New, Recording, Working
<1> QED BY <1>1, <1>2, <1>3, <1>4, <1>5, AttemptMoveKeeps DEF At

\* A process with nothing half done refuses.
LEMMA RefuseKeeps ==
  ASSUME BootTypeOK, BInv, NEW p \in Processes, Refuse(p),
         proc[p].at \notin New \union {"chmod", "write"}, p \notin Writers, ~ StageUnbound(p)
  PROVE  BInv'
BY AttemptReturnKeeps DEF Refuse

\* A process without the lock goes on.
LEMMA GotoKeeps ==
  ASSUME BootTypeOK, BInv, NEW p \in Processes,
         NEW at \in Classifying \union {"mkdir", "create_lock", "flock"}, Goto(p, at),
         UNCHANGED <<files, holder, losses>>,
         proc[p].at \in Classifying \union {"idle"},
         at = "create_lock" => root = "private", at = "flock" => lock # NoRecord
  PROVE  BInv'
<1>1. /\ proc'[p].at = at /\ proc'[p].record = proc[p].record /\ \A q \in Processes \ {p} : proc'[q] = proc[q]
  BY ProcMoves DEF Steps, Classifying, Creating
<1>2. holder # p /\ proc[p].record = NoRecord
  BY DEF BInv, ProcOK, Holding, Recording, Working, Classifying
<1>3. ProcOK(p)'
  BY <1>1, <1>2 DEF ProcOK, At, Holding, Recording, Working, New, Classifying, files
<1>4. HostOf(p)' = HostOf(p)
  BY <1>1 DEF HostOf
<1>5. proc'[p].at \notin New \union Recording
  BY <1>1 DEF New, Recording, Working, Classifying
<1>6. proc[p].at \notin New \union {"chmod", "write"} /\ p \notin Writers /\ ~ StageUnbound(p)
  BY DEF New, Writers, StageUnbound, At, Classifying
<1> QED BY <1>1, <1>2, <1>3, <1>4, <1>5, <1>6, AttemptMoveKeeps DEF At

\* A process starts, and looks at what is there.
LEMMA ClassifyKeeps ==
  ASSUME BootTypeOK, BInv, NEW p \in Processes, Start(p) \/ Classify(p)
  PROVE  BInv'
<1>1. CASE Start(p)
  BY <1>1, GotoKeeps DEF Start, At, Classifying
<1>2. CASE ClassifyAbsent(p) \/ ClassifyEmpty(p) \/ ClassifyCurrent(p)
  BY <1>2, GotoKeeps DEF ClassifyAbsent, ClassifyEmpty, ClassifyCurrent, At, Classifying, Vacant, Current
<1>3. CASE ClassifyRefused(p)
  BY <1>3, RefuseKeeps DEF ClassifyRefused, Classifying, New, Writers, StageUnbound, At
<1> QED BY <1>1, <1>2, <1>3 DEF Classify

\* The lock is taken, or refused, and its record is read.
LEMMA LockKeeps ==
  ASSUME BootTypeOK, BInv, NEW p \in Processes, AcquireLock(p) \/ FlockNew(p)
  PROVE  BInv'
<1>1. CASE Flock(p)
  <2>1. proc'[p].at = "read" /\ proc'[p].record = proc[p].record /\ \A q \in Processes \ {p} : proc'[q] = proc[q]
    BY <1>1, ProcMoves DEF Flock, Steps
  <2>2. holder = Nil /\ holder' = p /\ proc[p].at = "flock" /\ UNCHANGED <<files, losses>>
    BY <1>1 DEF Flock, Free, At
  <2>3. ProcOK(p)
    BY DEF BInv
  <2>4. ProcOK(p)'
    BY <2>1, <2>2, <2>3 DEF ProcOK, At, Holding, Recording, Working, New, files
  <2>5. HostOf(p)' = HostOf(p) /\ proc'[p].at \notin New \union Recording
    BY <2>1 DEF HostOf, New, Recording, Working
  <2> QED BY <2>1, <2>2, <2>4, <2>5, AttemptMoveKeeps DEF At, New, Writers, StageUnbound
<1>2. CASE FlockNew(p)
  <2>1. proc'[p].at = "first_record" /\ proc'[p].record = proc[p].record /\ \A q \in Processes \ {p} : proc'[q] = proc[q]
    BY <1>2, ProcMoves DEF FlockNew, Steps, Creating
  <2>2. holder = Nil /\ holder' = p /\ proc[p].at = "flock_new" /\ UNCHANGED <<files, losses>>
    BY <1>2 DEF FlockNew, Free, At
  <2>3. ProcOK(p) /\ Blank
    BY <2>2 DEF BInv, ProcOK, New
  <2>4. Blank'
    BY <2>1, <2>2, <2>3 DEF Blank, files, Recording, Working
  <2>5. ProcOK(p)'
    BY <2>1, <2>2, <2>3, <2>4 DEF ProcOK, At, Holding, Recording, Working, New, files
  <2>6. HostOf(p)' = HostOf(p) /\ proc'[p].at \notin Recording /\ proc[p].at \in New
    BY <2>1, <2>2 DEF HostOf, New, Recording, Working
  <2>7. proc'[p].at \in New
    BY <2>1 DEF New
  <2> QED BY <2>1, <2>2, <2>5, <2>6, <2>7, AttemptMoveKeeps DEF At, Writers, StageUnbound
<1>3. CASE ReadRecord(p)
  <2>1. proc'[p].at = "advance" /\ proc'[p].record = lock /\ \A q \in Processes \ {p} : proc'[q] = proc[q]
    BY <1>3, ProcMoves DEF ReadRecord, Steps, Working
  <2>2. UNCHANGED <<files, holder, losses>> /\ proc[p].at = "read" /\ lock \in Record
    BY <1>3 DEF ReadRecord, At
  <2>3. ProcOK(p) /\ lock # NoRecord /\ lock # Unreadable
    BY <2>2, RecordsDiffer DEF BInv
  <2>4. ProcOK(p)'
    BY <2>1, <2>2, <2>3 DEF ProcOK, At, Holding, Recording, Working, New, files
  <2>5. HostOf(p)' = lock.host /\ proc'[p].at \notin New
    BY <2>1 DEF HostOf, New
  <2> QED BY <2>1, <2>2, <2>3, <2>4, <2>5, AttemptMoveKeeps DEF At, New, Writers, StageUnbound
<1>4. CASE FlockBusy(p) \/ ReadRecordFails(p)
  BY <1>4, RefuseKeeps DEF FlockBusy, ReadRecordFails, New, Writers, StageUnbound, At
<1> QED BY <1>1, <1>2, <1>3, <1>4 DEF AcquireLock

\* The directory and the lock file are created.
LEMMA MakeKeeps ==
  ASSUME BootTypeOK, BInv, NEW p \in Processes, MakeRoot(p) \/ SetRootPrivate(p)
  PROVE  BInv'
<1> PICK at \in {"chmod", "create"} : Goto(p, at) /\ (at = "chmod" => MakeRoot(p)) /\ (at = "create" => SetRootPrivate(p))
  BY DEF MakeRoot, SetRootPrivate
<1>1. proc'[p].at = at /\ proc'[p].record = proc[p].record /\ \A q \in Processes \ {p} : proc'[q] = proc[q]
  BY ProcMoves DEF Steps, Creating, Classifying
<1>2. /\ UNCHANGED <<lock, holder, stage, database, metadata, provisional, journal, losses>>
      /\ root # "private" \/ root' = "private"
      /\ root' = (IF at = "chmod" THEN "open" ELSE "private") /\ root \in {"absent", "open", "private"}
      /\ proc[p].at = (IF at = "chmod" THEN "mkdir" ELSE "chmod")
  BY DEF MakeRoot, SetRootPrivate, At, BInv, ProcOK
<1>3. ASSUME NEW q \in Processes PROVE ProcOK(q)'
  <2>1. ProcOK(q) /\ (q = p \/ proc'[q] = proc[q])
    BY <1>1 DEF BInv
  <2>2. Ready' = Ready /\ (\A r : Base(r)' = Base(r)) /\ (\A r : Ahead(r)' = Ahead(r)) /\ NothingBuilt' = NothingBuilt
    BY <1>2 DEF Ready, Base, NothingBuilt, Ahead
  <2>3. Blank => Blank'
    BY <1>1, <1>2 DEF Blank, Recording, Working
  <2>4. CASE q # p
    BY <1>2, <2>1, <2>2, <2>3, <2>4 DEF ProcOK, At
  <2>5. CASE q = p
    BY <1>1, <1>2, <2>1, <2>5 DEF ProcOK, At, Holding, Recording, Working, New
  <2> QED BY <2>4, <2>5
<1>4. OneNew'
  BY <1>1 DEF BInv, OneNew, New
<1>5. RootOK'
  BY <1>1, <1>2 DEF BInv, RootOK, Blank, Recording, Working
<1>6. Whole'
  <2>1. proc[p].at \notin New \union {"write"} /\ p \notin Writers /\ (\A q \in Processes : StageUnbound(q)' <=> StageUnbound(q))
    BY <1>1, <1>2 DEF New, Writers, StageUnbound, At
  <2>2. \A q \in Writers : q \in Writers'
    BY <1>1, <2>1 DEF Writers, At
  <2>3. root' = "open" => \E q \in Processes : At(q, "chmod")'
    BY <1>1, <1>2 DEF At
  <2>4. Base(lock)' = Base(lock)
    BY <1>2 DEF Base, NothingBuilt
  <2>5. (\E q \in Processes : proc[q].at \in New \union {"write"}) =>
          \E q \in Processes : proc'[q].at \in New \union {"write"}
    BY <1>1, <2>1
  <2> QED BY <1>2, <2>1, <2>2, <2>3, <2>4, <2>5 DEF BInv, Whole
<1>7. OneIdentity'
  <2>1. Identities' \subseteq Identities
    BY <1>1, <1>2 DEF Identities, HostOf
  <2> QED BY <2>1, IdentityKept DEF BInv
<1> QED BY <1>3, <1>4, <1>5, <1>6, <1>7 DEF BInv

\* The lock file is created, by one process.
LEMMA CreateLockKeeps ==
  ASSUME BootTypeOK, BInv, NEW p \in Processes, CreateLockFile(p)
  PROVE  BInv'
<1>1. proc'[p].at = "flock_new" /\ proc'[p].record = proc[p].record /\ \A q \in Processes \ {p} : proc'[q] = proc[q]
  BY ProcMoves DEF CreateLockFile, Steps, Creating
<1>2. /\ UNCHANGED <<root, holder, stage, database, metadata, provisional, journal, losses>>
      /\ lock = NoRecord /\ lock' = Unreadable /\ proc[p].at = "create_lock" /\ root = "private" /\ Blank
  BY DEF CreateLockFile, At, BInv, ProcOK, RootOK
<1>3. lock' # NoRecord /\ lock' \notin Record /\ ~ Ready /\ lock'.host = Nil
  BY <1>2, RecordsDiffer DEF Ready
<1>4. Blank'
  BY <1>1, <1>2 DEF Blank, Recording, Working
<1>5. ASSUME NEW q \in Processes PROVE ProcOK(q)'
  <2>1. ProcOK(q) /\ (q = p \/ proc'[q] = proc[q])
    BY <1>1 DEF BInv
  <2>2. proc[q].at \notin Recording
    BY <1>2 DEF Blank
  <2>3. CASE q # p
    BY <1>2, <1>3, <1>4, <2>1, <2>2, <2>3 DEF ProcOK, At, Recording, Working
  <2>4. CASE q = p
    BY <1>1, <1>2, <1>4, <2>1, <2>4 DEF ProcOK, At, Holding, Recording, Working, New
  <2> QED BY <2>3, <2>4
<1>6. \A q \in Processes : proc[q].at \notin New
  BY <1>2, RecordsDiffer DEF BInv, ProcOK
<1>7. OneNew'
  BY <1>1, <1>6 DEF OneNew
<1>8. RootOK'
  BY <1>2, <1>3 DEF BInv, RootOK
<1>9. Whole'
  <2>1. \E q \in Processes : proc'[q].at \in New \union {"write"}
    BY <1>1 DEF New
  <2> QED BY <1>2, <1>3, <2>1 DEF Whole, Blank
<1>10. OneIdentity'
  <2>1. Identities' \subseteq Identities
    BY <1>1, <1>2, <1>3, ProcessesAssumption DEF Identities, HostOf
  <2> QED BY <2>1, IdentityKept DEF BInv
<1> QED BY <1>5, <1>7, <1>8, <1>9, <1>10 DEF BInv

\* The creator gives the root its identity; nothing had one before.
LEMMA FirstRecordKeeps ==
  ASSUME BootTypeOK, BInv, NEW p \in Processes, WriteFirstRecord(p)
  PROVE  BInv'
<1> PICK h \in Hosts : /\ lock' = [phase |-> "root_reserved", host |-> h]
                       /\ proc' = [proc EXCEPT ![p] = [at |-> "advance", record |-> lock']]
  BY DEF WriteFirstRecord
<1>1. lock' \in Record /\ lock'.phase = "root_reserved" /\ lock'.host = h
  BY PhasesAre DEF Record
<1>2. proc'[p].at = "advance" /\ proc'[p].record = lock' /\ \A q \in Processes \ {p} : proc'[q] = proc[q]
  BY <1>1, ProcMoves DEF Steps, Working
<1>3. /\ UNCHANGED <<root, holder, stage, database, metadata, provisional, journal, losses>>
      /\ lock = Unreadable /\ Blank /\ proc[p].at = "first_record" /\ holder = p
  BY DEF WriteFirstRecord, At, BInv, ProcOK, New, Holding
<1>4. lock' # NoRecord /\ lock' # Unreadable /\ root = "private" /\ ~ Ready
  BY <1>1, <1>3, RecordsDiffer DEF BInv, RootOK, Ready
<1>5. Base(lock')
  BY <1>1, <1>3 DEF Base, Blank, NothingBuilt
<1>6. ASSUME NEW q \in Processes, q # p
      PROVE  /\ proc'[q] = proc[q] /\ ProcOK(q) /\ proc[q].record = NoRecord
             /\ proc[q].at \notin Holding \union New \union {"using", "writing"}
  <2>1. ProcOK(q) /\ proc'[q] = proc[q] /\ proc[q].at \notin Holding
    BY <1>2, <1>3, <1>6 DEF BInv, ProcOK
  <2>2. proc[q].at \notin New
    BY <1>3, <1>6 DEF BInv, OneNew, New
  <2> QED BY <1>4, <2>1, <2>2 DEF ProcOK, Holding
<1>7. ASSUME NEW q \in Processes PROVE ProcOK(q)'
  <2>1. CASE q # p
    BY <1>3, <1>4, <1>6, <2>1 DEF ProcOK, At, Holding, Recording, Working
  <2>2. CASE q = p
    BY <1>2, <1>3, <1>4, <2>2 DEF ProcOK, At, Holding, Recording, Working, New
  <2> QED BY <2>1, <2>2
<1>8. OneNew'
  BY <1>2, <1>6 DEF OneNew, New
<1>9. RootOK'
  BY <1>3, <1>4 DEF BInv, RootOK, Blank
<1>10. Whole'
  <2>1. Base(lock)'
    BY <1>3, <1>5 DEF Base, NothingBuilt
  <2>2. root' # "open" /\ lock' # Unreadable /\ journal' # "database"
    BY <1>3, <1>4 DEF Blank
  <2> QED BY <2>1, <2>2 DEF Whole
<1>11. OneIdentity'
  <2>1. \A q \in Processes : HostOf(q)' \in {h, Nil}
    BY <1>1, <1>2, <1>6, RecordsDiffer DEF HostOf
  <2>2. Identities' \subseteq {h}
    BY <1>1, <1>3, <2>1, ProcessesAssumption, HostsAssumption DEF Identities, Blank
  <2> QED BY <2>2 DEF OneIdentity
<1> QED BY <1>7, <1>8, <1>9, <1>10, <1>11 DEF BInv

\* Every step up to the first record, taken or failed.
LEMMA CreateKeeps ==
  ASSUME BootTypeOK, BInv, NEW p \in Processes, CreateRoot(p)
  PROVE  BInv'
<1>1. CASE MakeRootFails(p) \/ CreateLockFileFails(p)
  BY <1>1, RefuseKeeps DEF MakeRootFails, CreateLockFileFails, New, Writers, StageUnbound, At
<1>2. CASE FlockNewBusy(p)
  BY <1>2, AttemptReturnKeeps DEF FlockNewBusy
<1> QED BY <1>1, <1>2, MakeKeeps, CreateLockKeeps, LockKeeps, FirstRecordKeeps DEF CreateRoot

\* The facts about a process that works, and its host.
LEMMA Working1 ==
  ASSUME BootTypeOK, BInv, NEW p \in Processes, proc[p].at \in Recording
  PROVE  /\ proc[p].record \in Record /\ HostOf(p) \in Hosts /\ HostOf(p) \in Identities
         /\ HostOf(p) \notin {"absent", "empty", "partial"}
         /\ {lock.host, stage, database, provisional} \cap Hosts \subseteq Identities
         /\ holder = p /\ ProcOK(p)
<1>1. proc[p].record \in Record /\ holder = p /\ ProcOK(p)
  BY DEF BInv, ProcOK, BootTypeOK, Holding
<1>2. HostOf(p) \in Hosts
  BY <1>1 DEF HostOf, Record
<1> QED BY <1>1, <1>2, HostsAssumption DEF Identities

\* An effect is done and the next record announced.
LEMMA EffectKeeps ==
  ASSUME BootTypeOK, BInv, NEW p \in Processes, proc[p].at \in Recording, lock = proc[p].record,
         lock.phase # "ready", Transition(p), UNCHANGED <<root, lock, holder, losses>>,
         NEW ph, Following(lock.phase) = ph,
         \A r \in Record : r.phase = ph /\ r.host = lock.host => Base(r)',
         ph # "database_owned" => Base(lock)',
         metadata' = "ready" => database' \in Hosts,
         journal' = "stage" => stage' = "empty",
         journal' = "database" => journal = "database" /\ ~ At(p, "commit_provisional"),
         {stage', database', provisional'} \cap Hosts \subseteq Identities
  PROVE  BInv'
<1>1. /\ proc[p].record \in Record /\ HostOf(p) \in Identities /\ holder = p
      /\ lock \in Record /\ ~ Ready
  BY Working1 DEF Ready
<1>2. /\ proc'[p].at = "truncate" /\ proc'[p].record \in Record
      /\ proc'[p].record.phase = ph /\ proc'[p].record.host = lock.host
      /\ \A q \in Processes \ {p} : proc'[q] = proc[q]
  BY <1>1, TransitionMoves
<1> PICK r \in Record : r = proc'[p].record
  BY <1>2
<1>3. Base(r)'
  BY <1>2
<1>4. lock' \in Record /\ lock'.phase # "ready" /\ r.host = lock'.host /\ r.phase = Following(lock'.phase)
  BY <1>1, <1>2
<1>5. Ahead(r)'
  BY <1>2, <1>3, <1>4 DEF Ahead
<1>6. lock' # NoRecord /\ lock' # Unreadable /\ r # NoRecord
  BY <1>1, RecordsDiffer
<1>7. ProcOK(p)'
  BY <1>1, <1>2, <1>5, <1>6 DEF ProcOK, At, Holding, Recording, Working, New
<1>8. HostOf(p)' = HostOf(p) /\ lock'.host = HostOf(p) /\ proc'[p].at \in Recording
  BY <1>2 DEF HostOf, Recording, Working
<1>9. {stage', database', provisional', lock'.host, HostOf(p)'} \cap Hosts \subseteq Identities
  BY <1>1, <1>8
<1>10. ~ StageUnbound(p)' => Base(lock)'
  BY <1>2 DEF StageUnbound, At
<1> HIDE DEF Ready
<1> QED BY <1>1, <1>2, <1>6, <1>7, <1>8, <1>9, <1>10, WorkKeeps

\* What an effect finds that the files admit.
LEMMA Admits ==
  ASSUME BootTypeOK, BInv, NEW p \in Processes, NEW ph, Advancing(p, ph)
  PROVE  /\ proc[p].at \in Recording /\ lock = proc[p].record /\ lock.phase = ph /\ HostOf(p) = lock.host
         /\ Base(lock) /\ journal # "database" /\ lock \in Record
         /\ (journal = "stage" => stage = "empty") /\ (metadata = "ready" => database \in Hosts)
         /\ {stage, database, provisional, lock.host} \cap Hosts \subseteq Identities
         /\ lock.host \in Hosts /\ lock.host \notin {"absent", "empty", "partial"}
<1>1. proc[p].at = "advance" /\ proc[p].at \in Recording /\ proc[p].record.phase = ph /\ Admissible(proc[p].record)
  BY DEF Advancing, In, At, Recording
<1>2. lock = proc[p].record
  BY <1>1 DEF BInv, ProcOK, At
<1>3. Base(lock) /\ journal # "database"
  BY <1>1, <1>2 DEF Admissible, Base
<1> QED BY <1>1, <1>2, <1>3, Working1 DEF BInv, RootOK, HostOf

\* The effects on the staged and the published database.
LEMMA StageKeeps ==
  ASSUME BootTypeOK, BInv, NEW p \in Processes,
         ReserveStageName(p) \/ CreateStage(p) \/ AcceptStage(p) \/ PublishDatabase(p) \/ AcceptPublished(p)
  PROVE  BInv'
<1> PICK ph \in {"root_reserved", "database_create_reserved", "database_owned", "database_ready"} :
      /\ Advancing(p, ph)
      /\ ReserveStageName(p) => ph = "root_reserved"
      /\ CreateStage(p) => ph = "database_create_reserved"
      /\ AcceptStage(p) => ph = "database_owned"
      /\ PublishDatabase(p) \/ AcceptPublished(p) => ph = "database_ready"
  BY DEF ReserveStageName, CreateStage, AcceptStage, PublishDatabase, AcceptPublished, Advancing, In
<1> PICK h \in Hosts : h = lock.host
  BY Admits
<1>1. /\ proc[p].at \in Recording /\ lock = proc[p].record /\ lock.phase = ph /\ HostOf(p) = h
      /\ Base(lock) /\ journal # "database" /\ lock \in Record
      /\ (journal = "stage" => stage = "empty") /\ (metadata = "ready" => database \in Hosts)
      /\ {stage, database, provisional, h} \cap Hosts \subseteq Identities
      /\ h \notin {"absent", "empty", "partial"}
  BY Admits
<1>2. Transition(p) /\ UNCHANGED <<root, lock, holder, losses>>
  BY DEF ReserveStageName, CreateStage, AcceptStage, PublishDatabase, AcceptPublished, files
<1>3. ~ At(p, "commit_provisional")
  BY DEF Advancing, In, At
<1>4. "absent" \notin Hosts /\ "empty" \notin Hosts
  BY HostsAssumption
<1>5. CASE ReserveStageName(p)
  <2>1. UNCHANGED <<stage, database, provisional, metadata, journal>> /\ ph = "root_reserved"
    BY <1>5 DEF ReserveStageName, files
  <2>2. NothingBuilt /\ stage = "absent"
    BY <1>1, <2>1 DEF Base
  <2>3. \A r \in Record : r.phase = "database_create_reserved" => Base(r)'
    BY <2>1, <2>2 DEF Base, NothingBuilt
  <2>4. Base(lock)'
    BY <1>1, <1>2, <2>1, <2>2 DEF Base, NothingBuilt
  <2> QED BY <1>1, <1>2, <1>3, <2>1, <2>3, <2>4, FollowingIs, EffectKeeps
<1>6. CASE CreateStage(p)
  <2>1. UNCHANGED <<database, provisional, metadata, journal>> /\ stage' = "empty" /\ ph = "database_create_reserved"
    BY <1>6 DEF CreateStage
  <2>2. NothingBuilt /\ stage = "absent"
    BY <1>1, <2>1 DEF Base
  <2>3. journal = "none"
    BY <1>1, <2>2 DEF BootTypeOK
  <2>4. \A r \in Record : r.phase = "database_owned" => Base(r)'
    BY <2>1, <2>2, <2>3 DEF Base, NothingBuilt
  <2> QED BY <1>1, <1>2, <1>3, <1>4, <2>1, <2>3, <2>4, FollowingIs, EffectKeeps
<1>7. CASE AcceptStage(p)
  <2>1. UNCHANGED <<stage, database, provisional, metadata, journal>> /\ ph = "database_owned" /\ stage = h
    BY <1>1, <1>7 DEF AcceptStage, files
  <2>2. NothingBuilt /\ journal = "none"
    BY <1>1, <2>1 DEF Base
  <2>3. metadata = "pending"
    BY <1>1, <1>4, <2>2 DEF NothingBuilt, BootTypeOK
  <2>4. \A r \in Record : r.phase = "database_ready" /\ r.host = h => Base(r)'
    BY <1>4, <2>1, <2>2, <2>3 DEF Base, NothingBuilt
  <2>5. Base(lock)'
    BY <1>1, <1>2, <2>1, <2>2 DEF Base, NothingBuilt
  <2> QED BY <1>1, <1>2, <1>3, <2>1, <2>4, <2>5, FollowingIs, EffectKeeps
<1>8. CASE PublishDatabase(p) \/ AcceptPublished(p)
  <2>1. UNCHANGED <<provisional, metadata, journal>> /\ stage' = "absent" /\ database' = h /\ ph = "database_ready"
    <3>1. CASE PublishDatabase(p)
      BY <1>1, <3>1 DEF PublishDatabase
    <3>2. CASE AcceptPublished(p)
      <4>1. database = h /\ UNCHANGED files /\ {stage, database} = {"absent", h}
        BY <1>1, <3>2 DEF AcceptPublished, Base
      <4>2. stage = "absent"
        BY <1>1, <4>1
      <4> QED BY <3>2, <4>1, <4>2 DEF files
    <3> QED BY <1>8, <3>1, <3>2
  <2>2. provisional = "absent" /\ journal = "none" /\ metadata = "pending"
    BY <1>1, <2>1 DEF Base
  <2>3. \A r \in Record : r.phase = "provisional_pending" /\ r.host = h => Base(r)'
    BY <2>1, <2>2 DEF Base
  <2>4. Base(lock)'
    BY <1>1, <1>2, <2>1, <2>2 DEF Base
  <2> QED BY <1>1, <1>2, <1>3, <1>4, <2>1, <2>2, <2>3, <2>4, FollowingIs, EffectKeeps
<1> QED BY <1>5, <1>6, <1>7, <1>8

\* A process goes on inside the effect of a phase.
LEMMA InsideKeeps ==
  ASSUME BootTypeOK, BInv, NEW p \in Processes, proc[p].at \in Recording, lock = proc[p].record,
         NEW at \in {"commit_stage", "fill_provisional", "provisional", "commit_provisional"}, Goto(p, at),
         UNCHANGED <<root, lock, holder, losses, stage, database, metadata>>,
         at = "commit_stage" => lock.phase = "database_owned" /\ stage = "empty" /\ NothingBuilt',
         at # "commit_stage" => lock.phase = "provisional_pending" /\ stage = "absent" /\ database = lock.host,
         at \in {"provisional", "commit_provisional"} => provisional' = lock.host,
         at = "fill_provisional" => metadata = "pending",
         provisional' \in {"partial", provisional, lock.host},
         journal' = (IF at = "commit_stage" THEN "stage"
                     ELSE IF at = "commit_provisional" THEN "database" ELSE journal),
         ~ At(p, "commit_provisional")
  PROVE  BInv'
<1>1. /\ proc[p].record \in Record /\ HostOf(p) \in Identities /\ holder = p
      /\ {lock.host, stage, database, provisional} \cap Hosts \subseteq Identities
      /\ HostOf(p) = lock.host /\ lock.host \in Hosts
  BY Working1 DEF HostOf
<1>2. ~ Ready
  BY DEF Ready
<1>3. proc'[p].at = at /\ proc'[p].record = proc[p].record /\ \A q \in Processes \ {p} : proc'[q] = proc[q]
  BY ProcMoves DEF Steps, Working
<1>4. lock' # NoRecord /\ lock' # Unreadable /\ lock' \in Record
  BY <1>1, RecordsDiffer
<1>5. ProcOK(p)'
  BY <1>1, <1>3, <1>4 DEF ProcOK, At, Holding, Recording, Working, New
<1>6. HostOf(p)' = HostOf(p) /\ proc'[p].at \in Recording
  BY <1>3 DEF HostOf, Recording, Working
<1>7. {stage', database', provisional', lock'.host, HostOf(p)'} \cap Hosts \subseteq Identities
  BY <1>1, <1>6, HostsAssumption
<1>8. ~ StageUnbound(p)' => Base(lock)'
  <2> SUFFICES ASSUME at \in {"provisional", "commit_provisional"} PROVE Base(lock)'
    BY <1>3 DEF StageUnbound, At
  <2> QED BY <1>1, HostsAssumption DEF Base
<1>9. /\ metadata' = "ready" => database' \in Hosts
      /\ journal' = "stage" => stage' = "empty"
      /\ journal' = "database" => At(p, "commit_provisional")' \/ (journal = "database" /\ ~ At(p, "commit_provisional"))
  BY <1>3 DEF BInv, RootOK, At
<1> HIDE DEF Ready
<1> QED BY <1>1, <1>2, <1>3, <1>4, <1>5, <1>6, <1>7, <1>8, <1>9, WorkKeeps

\* The effects that stay inside one phase.
LEMMA InsideSteps ==
  ASSUME BootTypeOK, BInv, NEW p \in Processes,
         \/ BeginStageTransaction(p) \/ CreateProvisional(p) \/ FillProvisional(p)
         \/ AcceptProvisional(p) \/ BeginProvisionalTransaction(p)
  PROVE  BInv'
<1>1. CASE BeginStageTransaction(p)
  <2>1. Advancing(p, "database_owned") /\ stage = "empty" /\ journal' = "stage" /\ Goto(p, "commit_stage")
        /\ UNCHANGED <<root, lock, holder, losses, stage, database, metadata, provisional>>
    BY <1>1 DEF BeginStageTransaction
  <2>2. /\ proc[p].at \in Recording /\ lock = proc[p].record /\ lock.phase = "database_owned" /\ Base(lock)
    BY <2>1, Admits
  <2>3. NothingBuilt'
    BY <2>1, <2>2 DEF Base, NothingBuilt
  <2>4. ~ At(p, "commit_provisional")
    BY <2>1 DEF Advancing, In, At
  <2> QED BY <2>1, <2>2, <2>3, <2>4, InsideKeeps
<1>2. CASE CreateProvisional(p)
  <2>1. Advancing(p, "provisional_pending") /\ provisional = "absent" /\ provisional' = "partial" /\ Goto(p, "fill_provisional")
        /\ UNCHANGED <<root, lock, holder, losses, stage, database, metadata, journal>>
    BY <1>2 DEF CreateProvisional
  <2>2. /\ proc[p].at \in Recording /\ lock = proc[p].record /\ lock.phase = "provisional_pending" /\ Base(lock)
    BY <2>1, Admits
  <2>3. stage = "absent" /\ database = lock.host /\ metadata = "pending"
    BY <2>1, <2>2 DEF Base, BootTypeOK
  <2>4. ~ At(p, "commit_provisional")
    BY <2>1 DEF Advancing, In, At
  <2> QED BY <2>1, <2>2, <2>3, <2>4, InsideKeeps
<1>3. CASE AcceptProvisional(p)
  <2>1. Advancing(p, "provisional_pending") /\ provisional = HostOf(p) /\ Goto(p, "provisional")
        /\ UNCHANGED <<root, lock, holder, losses, stage, database, metadata, journal, provisional>>
    BY <1>3 DEF AcceptProvisional, files
  <2>2. /\ proc[p].at \in Recording /\ lock = proc[p].record /\ lock.phase = "provisional_pending" /\ Base(lock)
        /\ HostOf(p) = lock.host
    BY <2>1, Admits
  <2>3. stage = "absent" /\ database = lock.host
    BY <2>1, <2>2 DEF Base
  <2>4. ~ At(p, "commit_provisional")
    BY <2>1 DEF Advancing, In, At
  <2> QED BY <2>1, <2>2, <2>3, <2>4, InsideKeeps
<1>4. CASE FillProvisional(p)
  <2>1. At(p, "fill_provisional") /\ provisional' = HostOf(p) /\ Goto(p, "provisional")
        /\ UNCHANGED <<root, lock, holder, losses, stage, database, metadata, journal>>
    BY <1>4 DEF FillProvisional
  <2>2. /\ proc[p].at \in Recording /\ lock = proc[p].record /\ lock.phase = "provisional_pending"
        /\ stage = "absent" /\ database = lock.host
    BY <2>1 DEF BInv, ProcOK, At, Recording, Working
  <2>3. HostOf(p) = lock.host /\ ~ At(p, "commit_provisional")
    BY <2>1, <2>2 DEF HostOf, At
  <2> QED BY <2>1, <2>2, <2>3, InsideKeeps
<1>5. CASE BeginProvisionalTransaction(p)
  <2>1. At(p, "provisional") /\ journal' = "database" /\ Goto(p, "commit_provisional")
        /\ UNCHANGED <<root, lock, holder, losses, stage, database, metadata, provisional>>
    BY <1>5 DEF BeginProvisionalTransaction
  <2>2. /\ proc[p].at \in Recording /\ lock = proc[p].record /\ lock.phase = "provisional_pending"
        /\ stage = "absent" /\ database = lock.host /\ provisional = lock.host
    BY <2>1 DEF BInv, ProcOK, At, Recording, Working
  <2>3. ~ At(p, "commit_provisional")
    BY <2>1 DEF At
  <2> QED BY <2>1, <2>2, <2>3, InsideKeeps
<1> QED BY <1>1, <1>2, <1>3, <1>4, <1>5

\* A transaction of the bootstrap commits, or had committed before.
LEMMA LockCommitKeeps ==
  ASSUME BootTypeOK, BInv, NEW p \in Processes,
         CommitStage(p) \/ CommitProvisional(p) \/ ProvisionalIsReady(p)
  PROVE  BInv'
<1>1. proc[p].at \in Recording /\ lock = proc[p].record
  BY DEF CommitStage, CommitProvisional, ProvisionalIsReady, BInv, ProcOK, At, Recording, Working
<1> PICK h \in Hosts : h = lock.host
  BY <1>1, Working1 DEF HostOf
<1>2. /\ HostOf(p) = h /\ lock \in Record /\ ProcOK(p)
      /\ {stage, database, provisional, h} \cap Hosts \subseteq Identities
      /\ h \notin {"absent", "empty", "partial"} /\ "absent" \notin Hosts
  BY <1>1, Working1, HostsAssumption DEF HostOf
<1>3. Transition(p) /\ UNCHANGED <<root, lock, holder, losses>>
  BY DEF CommitStage, CommitProvisional, ProvisionalIsReady, files
<1>4. CASE CommitStage(p)
  <2>1. UNCHANGED <<database, provisional, metadata>> /\ stage' = h /\ journal' = "none" /\ At(p, "commit_stage")
    BY <1>2, <1>4 DEF CommitStage
  <2>2. NothingBuilt /\ lock.phase = "database_owned"
    BY <1>2, <2>1 DEF ProcOK
  <2>3. metadata = "pending"
    BY <1>2, <2>2 DEF NothingBuilt, BootTypeOK, BInv, RootOK
  <2>4. \A r \in Record : r.phase = "database_ready" /\ r.host = h => Base(r)'
    BY <1>2, <2>1, <2>2, <2>3 DEF Base, NothingBuilt
  <2>5. Base(lock)'
    BY <1>3, <2>1, <2>2 DEF Base, NothingBuilt
  <2> QED BY <1>1, <1>2, <1>3, <2>1, <2>2, <2>3, <2>4, <2>5, FollowingIs, EffectKeeps
<1>5. CASE CommitProvisional(p) \/ ProvisionalIsReady(p)
  <2>1. /\ UNCHANGED <<stage, database, provisional>> /\ metadata' = "ready"
        /\ journal' = "none" \/ (journal' = journal /\ At(p, "provisional"))
        /\ proc[p].at \in {"provisional", "commit_provisional"}
    BY <1>5 DEF CommitProvisional, ProvisionalIsReady, files, At
  <2>2. lock.phase = "provisional_pending" /\ stage = "absent" /\ database = h /\ provisional = h
    BY <1>2, <2>1 DEF ProcOK
  <2>3. \A r \in Record : r.phase = "ready" /\ r.host = h => Base(r)'
    BY <2>1, <2>2 DEF Base
  <2>4. Base(lock)'
    BY <1>2, <1>3, <2>1, <2>2 DEF Base
  <2>5. /\ journal' = "stage" => stage' = "empty"
        /\ journal' = "database" => journal = "database" /\ ~ At(p, "commit_provisional")
    BY <2>1 DEF At, BInv, RootOK
  <2> QED BY <1>1, <1>2, <1>3, <2>1, <2>2, <2>3, <2>4, <2>5, FollowingIs, EffectKeeps
<1> QED BY <1>4, <1>5

\* The record is written in place.
LEMMA RecordKeeps ==
  ASSUME BootTypeOK, BInv, NEW p \in Processes, TruncateRecord(p) \/ WriteRecord(p)
  PROVE  BInv'
<1> USE DEF At
<1>1. proc[p].at \in {"truncate", "write"} /\ proc[p].at \in Recording
  BY DEF TruncateRecord, WriteRecord, Recording, Working
<1> PICK r \in Record : r = proc[p].record
  BY <1>1, Working1
<1>2. /\ UNCHANGED <<root, holder, losses, stage, database, metadata, provisional, journal>> /\ holder = p
      /\ HostOf(p) = r.host /\ HostOf(p) \in Identities
      /\ {stage, database, provisional} \cap Hosts \subseteq Identities
  BY <1>1, Working1 DEF TruncateRecord, WriteRecord, HostOf
<1>3. Base(r) /\ ~ Ready
  <2>1. CASE At(p, "truncate")
    BY <2>1 DEF BInv, ProcOK, Ahead, Ready
  <2>2. CASE At(p, "write")
    BY <2>2, RecordsDiffer DEF BInv, ProcOK, Ready
  <2> QED BY <1>1, <2>1, <2>2
<1>4. Base(r)'
  BY <1>2, <1>3 DEF Base, NothingBuilt
<1>5. RootOK
  BY DEF BInv
<1>6. CASE TruncateRecord(p)
  <2>1. proc'[p].at = "write" /\ proc'[p].record = r /\ \A q \in Processes \ {p} : proc'[q] = proc[q]
    BY <1>6, ProcMoves DEF TruncateRecord, Steps, Working
  <2>2. lock' = Unreadable /\ lock' # NoRecord /\ lock' \notin Record /\ lock'.host = Nil /\ r # NoRecord
    BY <1>6, RecordsDiffer DEF TruncateRecord
  <2>3. ProcOK(p)'
    BY <1>2, <1>4, <2>1, <2>2 DEF ProcOK, Holding, Recording, Working, New
  <2>4. HostOf(p)' = HostOf(p) /\ proc'[p].at \in Recording /\ At(p, "write")'
    BY <2>1 DEF HostOf, Recording, Working
  <2>5. {stage', database', provisional', lock'.host, HostOf(p)'} \cap Hosts \subseteq Identities
    BY <1>2, <2>2, <2>4, ProcessesAssumption
  <2>6. journal' = "database" => journal = "database" /\ ~ At(p, "commit_provisional")
    BY <1>1, <1>2
  <2> HIDE DEF Ready
  <2> QED BY <1>1, <1>2, <1>3, <1>5, <2>1, <2>2, <2>3, <2>4, <2>5, <2>6, WorkKeeps DEF RootOK
<1>7. CASE WriteRecord(p)
  <2>1. proc'[p].at = "advance" /\ proc'[p].record = r /\ \A q \in Processes \ {p} : proc'[q] = proc[q]
    BY <1>7, ProcMoves DEF WriteRecord, Steps, Working
  <2>2. lock' = r /\ lock' # NoRecord /\ lock' # Unreadable
    BY <1>7, RecordsDiffer DEF WriteRecord
  <2>3. ProcOK(p)'
    BY <1>2, <2>1, <2>2 DEF ProcOK, Holding, Recording, Working, New
  <2>4. HostOf(p)' = HostOf(p) /\ proc'[p].at \in Recording /\ Base(lock)'
    BY <1>4, <2>1, <2>2 DEF HostOf, Recording, Working, Base, NothingBuilt
  <2>5. {stage', database', provisional', lock'.host, HostOf(p)'} \cap Hosts \subseteq Identities
    BY <1>2, <2>2, <2>4
  <2>6. journal' = "database" => journal = "database" /\ ~ At(p, "commit_provisional")
    BY <1>1, <1>2
  <2> HIDE DEF Ready
  <2> QED BY <1>1, <1>2, <1>3, <1>5, <2>1, <2>2, <2>3, <2>4, <2>5, <2>6, WorkKeeps DEF RootOK
<1> QED BY <1>6, <1>7

\* The holder of the lock takes its next effect, or is refused.
LEMMA AdvanceKeeps ==
  ASSUME BootTypeOK, BInv, NEW p \in Processes, Advance(p)
  PROVE  BInv'
<1>1. CASE OpenReady(p)
  <2>1. Advancing(p, "ready") /\ Return(p, "using") /\ UNCHANGED <<files, losses>> /\ At(p, "advance")
    BY <1>1 DEF OpenReady, Advancing, In
  <2>2. lock.phase = "ready" /\ Base(lock)
    BY <2>1, Admits
  <2>3. Ready
    BY <2>2 DEF Base, Ready
  <2> QED BY <2>1, <2>3, AttemptReturnKeeps DEF New, Writers, StageUnbound, At
<1>2. CASE AdvanceRefused(p)
  BY <1>2, RefuseKeeps DEF AdvanceRefused, New, Writers, StageUnbound, At
<1> QED BY <1>1, <1>2, StageKeeps, InsideSteps, LockCommitKeeps, RecordKeeps DEF Advance

\* A connection is used: only the journal of the database moves.
LEMMA UseKeeps ==
  ASSUME BootTypeOK, BInv, NEW p \in Processes, Use(p)
  PROVE  BInv'
<1> USE DEF At
<1>1. CASE Close(p)
  BY <1>1, RefuseKeeps DEF Close, New, Writers, StageUnbound
<1>2. ASSUME RollBack(p) \/ BeginWrite(p) \/ EndWrite(p) PROVE BInv'
  <2>1. /\ UNCHANGED <<root, lock, holder, stage, database, metadata, provisional, losses>>
        /\ proc[p].at \in {"using", "writing"} /\ Ready /\ ProcOK(p)
    BY <1>2 DEF RollBack, BeginWrite, EndWrite, BInv, ProcOK
  <2>2. /\ proc'[p].at \in {"using", "writing"} /\ proc'[p].record = proc[p].record
        /\ \A q \in Processes \ {p} : proc'[q] = proc[q]
        /\ proc'[p].at = "writing" <=> BeginWrite(p)
        /\ journal' = (IF BeginWrite(p) THEN "database" ELSE "none")
    <3>1. CASE RollBack(p)
      BY <3>1 DEF RollBack, BeginWrite
    <3>2. CASE BeginWrite(p)
      BY <3>2, ProcMoves DEF BeginWrite, Steps
    <3>3. CASE EndWrite(p)
      BY <3>3, ProcMoves DEF EndWrite, BeginWrite, Steps
    <3> QED BY <1>2, <3>1, <3>2, <3>3
  <2>3. lock \in Record /\ lock.phase = "ready" /\ Ready' /\ Base(lock)'
    <3>1. lock \in Record /\ lock.phase = "ready"
      BY <2>1, RecordsDiffer DEF BootTypeOK, Ready
    <3> QED BY <2>1, <3>1 DEF Base, Ready
  <2>4. lock # Unreadable /\ lock # NoRecord
    BY <2>3, RecordsDiffer
  <2>5. ASSUME NEW q \in Processes PROVE ProcOK(q)'
    <3>1. ProcOK(q) /\ (q = p \/ proc'[q] = proc[q])
      BY <2>2 DEF BInv
    <3>2. proc[q].at \notin New /\ proc[q].at \notin
            {"truncate", "write", "commit_stage", "fill_provisional", "provisional", "commit_provisional"}
      BY <2>3, <2>4, <3>1 DEF ProcOK, Ahead
    <3>3. CASE q = p
      BY <2>1, <2>2, <2>3, <3>3 DEF ProcOK, Holding, Recording, Working, New
    <3>4. CASE q # p
      BY <2>1, <2>3, <2>4, <3>1, <3>2, <3>4 DEF ProcOK
    <3> QED BY <3>3, <3>4
  <2>6. OneNew'
    BY <2>2 DEF BInv, OneNew, New
  <2>7. RootOK'
    BY <2>1, <2>2, <2>4 DEF BInv, RootOK
  <2>8. Whole'
    <3>1. journal' = "database" => Writers' # {}
      BY <2>2 DEF Writers
    <3>2. root' # "open"
      BY <2>1, <2>4 DEF BInv, RootOK
    <3> QED BY <2>1, <2>3, <2>4, <3>1, <3>2 DEF Whole
  <2>9. OneIdentity'
    <3>1. Identities' \subseteq Identities
      BY <2>1, <2>2 DEF Identities, HostOf
    <3> QED BY <3>1, IdentityKept DEF BInv
  <2> QED BY <2>5, <2>6, <2>7, <2>8, <2>9 DEF BInv
<1> QED BY <1>1, <1>2 DEF Use

\* A process dies.
LEMMA CrashKeeps ==
  ASSUME BootTypeOK, BInv, NEW p \in Processes, Crash(p)
  PROVE  BInv'
<1>1. Return(p, "idle") /\ UNCHANGED files /\ losses \subseteq losses'
  BY DEF Crash
<1>2. losses' \subseteq {"died"} => ~ Unresumable(p)
  BY DEF Crash
<1>3. ~ Unresumable(p) => proc[p].at \notin New \union {"chmod", "write"} /\ p \notin Writers /\ ~ StageUnbound(p)
  BY DEF Unresumable, New, Writers, StageUnbound, At
<1> QED BY <1>1, <1>2, <1>3, AttemptReturnKeeps

\* Every step keeps the invariant.
LEMMA BootstrapStep == BootTypeOK /\ BInv /\ [BootNext]_bootVars => BInv'
<1> SUFFICES ASSUME BootTypeOK, BInv, [BootNext]_bootVars PROVE BInv'
  OBVIOUS
<1>1. CASE UNCHANGED bootVars
  <2>1. /\ UNCHANGED <<root, lock, holder, stage, database, metadata, provisional, journal, losses>>
        /\ proc' = proc
    BY <1>1 DEF bootVars
  <2>2. /\ Ready' = Ready /\ Blank' = Blank /\ NothingBuilt' = NothingBuilt /\ Writers' = Writers
        /\ Identities' = Identities
    BY <2>1 DEF Ready, Blank, NothingBuilt, Writers, Identities, HostOf, At
  <2>3. \A r : Base(r)' = Base(r)
    BY <2>1, <2>2 DEF Base
  <2>4. \A r : Ahead(r)' = Ahead(r)
    BY <2>1, <2>3 DEF Ahead
  <2>5. \A p \in Processes : ProcOK(p)'
    <3> SUFFICES ASSUME NEW p \in Processes PROVE ProcOK(p)'
      OBVIOUS
    <3>1. ProcOK(p)
      BY DEF BInv
    <3> QED BY <2>1, <2>2, <2>3, <2>4, <3>1 DEF ProcOK, At
  <2>6. OneNew' /\ RootOK'
    BY <2>1, <2>2 DEF BInv, OneNew, RootOK
  <2>7. \A p : StageUnbound(p)' = StageUnbound(p)
    BY <2>1 DEF StageUnbound, At
  <2>8. Whole'
    BY <2>1, <2>2, <2>3, <2>7 DEF BInv, Whole, At
  <2>9. OneIdentity'
    BY <2>2 DEF BInv, OneIdentity
  <2> QED BY <2>5, <2>6, <2>8, <2>9 DEF BInv
<1>2. ASSUME NEW p \in Processes, Start(p) \/ Attempt(p) \/ Use(p) \/ Crash(p) PROVE BInv'
  BY <1>2, ClassifyKeeps, CreateKeeps, LockKeeps, AdvanceKeeps, UseKeeps, CrashKeeps DEF Attempt
<1> QED BY <1>1, <1>2 DEF BootNext

\* Every variable keeps its type.
LEMMA BootTypeStep == BootTypeOK /\ BInv /\ [BootNext]_bootVars => BootTypeOK'
<1> SUFFICES ASSUME BootTypeOK, BInv, [BootNext]_bootVars PROVE BootTypeOK'
  OBVIOUS
<1>1. CASE UNCHANGED bootVars
  BY <1>1 DEF bootVars, BootTypeOK
<1>2. ASSUME NEW p \in Processes, Start(p) \/ Attempt(p) \/ Use(p) \/ Crash(p) PROVE BootTypeOK'
  <2> DEFINE ProcType == proc' \in [Processes -> [at : Steps, record : Record \union {NoRecord}]]
  <2>1. Steps = {"idle", "flock", "read", "using", "writing"} \union Classifying \union Creating \union Working
    BY DEF Steps
  <2> USE DEF files, Classifying, Creating, Working
  <2>2. ASSUME Start(p) \/ Classify(p) PROVE BootTypeOK'
    <3>1. ProcType /\ holder' \in Processes \union {Nil} /\ UNCHANGED <<files, losses>>
      BY <2>1, <2>2, ProcMoves DEF Start, Classify, ClassifyAbsent, ClassifyEmpty, ClassifyCurrent,
         ClassifyRefused, Refuse, BootTypeOK, Return
    <3> QED BY <3>1 DEF BootTypeOK
  <2>3. ASSUME CreateRoot(p) PROVE BootTypeOK'
    <3>1. CASE WriteFirstRecord(p)
      <4>1. lock' \in Record
        BY <3>1, PhasesAre DEF WriteFirstRecord, Record
      <4>2. ProcType
        BY <2>1, <3>1, <4>1, ProcMoves DEF WriteFirstRecord
      <4> QED BY <3>1, <4>1, <4>2 DEF WriteFirstRecord, BootTypeOK
    <3>2. CASE FlockNewBusy(p)
      <4>1. ProcType /\ holder' \in Processes \union {Nil}
        BY <2>1, <3>2, ProcMoves DEF FlockNewBusy, BootTypeOK, Return
      <4> QED BY <3>2, <4>1 DEF FlockNewBusy, BootTypeOK, Losses
    <3>3. CASE MakeRoot(p) \/ MakeRootFails(p) \/ SetRootPrivate(p) \/ CreateLockFile(p) \/ CreateLockFileFails(p) \/ FlockNew(p)
      <4>1. ProcType /\ holder' \in Processes \union {Nil}
        BY <2>1, <3>3, ProcMoves DEF MakeRoot, MakeRootFails, SetRootPrivate, CreateLockFile,
           CreateLockFileFails, FlockNew, Refuse, BootTypeOK, Return
      <4> QED BY <3>3, <4>1 DEF MakeRoot, MakeRootFails, SetRootPrivate, CreateLockFile,
           CreateLockFileFails, FlockNew, Refuse, BootTypeOK
    <3> QED BY <2>3, <3>1, <3>2, <3>3 DEF CreateRoot
  <2>4. ASSUME AcquireLock(p) PROVE BootTypeOK'
    <3>1. ProcType /\ holder' \in Processes \union {Nil} /\ UNCHANGED <<files, losses>>
      BY <2>1, <2>4, ProcMoves DEF AcquireLock, Flock, FlockBusy, ReadRecord, ReadRecordFails, Refuse, BootTypeOK, Return
    <3> QED BY <3>1 DEF BootTypeOK
  <2>5. ASSUME Advance(p) PROVE BootTypeOK'
    <3>1. proc[p].at \in Recording => /\ proc[p].record \in Record /\ HostOf(p) \in Hosts
      BY Working1
    <3>2. CASE TruncateRecord(p) \/ WriteRecord(p)
      <4>1. ProcType
        BY <2>1, <3>2, ProcMoves DEF TruncateRecord, WriteRecord
      <4>2. proc[p].record \in Record
        BY <3>1, <3>2 DEF TruncateRecord, WriteRecord, Recording, At
      <4> QED BY <3>2, <4>1, <4>2 DEF TruncateRecord, WriteRecord, BootTypeOK
    <3>3. CASE OpenReady(p) \/ AdvanceRefused(p)
      <4>1. ProcType /\ holder' \in Processes \union {Nil} /\ UNCHANGED <<files, losses>>
        BY <2>1, <3>3, ProcMoves DEF OpenReady, AdvanceRefused, Refuse, BootTypeOK, Return
      <4> QED BY <4>1 DEF BootTypeOK
    <3>4. CASE \/ BeginStageTransaction(p) \/ CreateProvisional(p) \/ FillProvisional(p)
               \/ AcceptProvisional(p) \/ BeginProvisionalTransaction(p)
      <4>1. ProcType
        BY <2>1, <3>4, ProcMoves DEF BeginStageTransaction, CreateProvisional, FillProvisional,
           AcceptProvisional, BeginProvisionalTransaction
      <4>2. FillProvisional(p) => HostOf(p) \in Hosts
        BY <3>1 DEF FillProvisional, Recording, At
      <4> QED BY <3>4, <4>1, <4>2 DEF BeginStageTransaction, CreateProvisional, FillProvisional,
           AcceptProvisional, BeginProvisionalTransaction, BootTypeOK
    <3>5. CASE \/ ReserveStageName(p) \/ CreateStage(p) \/ CommitStage(p) \/ AcceptStage(p)
               \/ PublishDatabase(p) \/ AcceptPublished(p) \/ CommitProvisional(p) \/ ProvisionalIsReady(p)
      <4>1. Transition(p) /\ proc[p].at \in Recording /\ proc[p].record.phase # "ready"
        BY <3>5 DEF ReserveStageName, CreateStage, CommitStage, AcceptStage, PublishDatabase, AcceptPublished,
           CommitProvisional, ProvisionalIsReady, Advancing, In, At, Recording, BInv, ProcOK
      <4>2. ProcType /\ HostOf(p) \in Hosts
        BY <3>1, <4>1, TransitionMoves
      <4> QED BY <3>5, <4>2 DEF ReserveStageName, CreateStage, CommitStage, AcceptStage, PublishDatabase,
           AcceptPublished, CommitProvisional, ProvisionalIsReady, BootTypeOK
    <3> QED BY <2>5, <3>2, <3>3, <3>4, <3>5 DEF Advance
  <2>6. ASSUME Use(p) PROVE BootTypeOK'
    <3>1. ProcType /\ holder' \in Processes \union {Nil}
      BY <2>1, <2>6, ProcMoves DEF Use, RollBack, BeginWrite, EndWrite, Close, Refuse, BootTypeOK, Return
    <3> QED BY <2>6, <3>1 DEF Use, RollBack, BeginWrite, EndWrite, Close, Refuse, BootTypeOK
  <2>7. ASSUME Crash(p) PROVE BootTypeOK'
    <3>1. ProcType /\ holder' \in Processes \union {Nil}
      BY <2>1, <2>7, ProcMoves DEF Crash, BootTypeOK, Return
    <3> QED BY <2>7, <3>1 DEF Crash, BootTypeOK, Losses
  <2> QED BY <1>2, <2>2, <2>3, <2>4, <2>5, <2>6, <2>7 DEF Attempt
<1> QED BY <1>1, <1>2 DEF BootNext

-----------------------------------------------------------------------------
(* The theorems.                                                           *)

\* However processes overlap and wherever they die while a root is created, the
\* lock record is at most one effect behind the files
\* (finish_current_bootstrap, transition_with).
THEOREM BootstrapInvariant == BootSpec => [](BootTypeOK /\ BInv)
<1>1. BootInit => BootTypeOK /\ BInv
  BY BootTypeInit, BootstrapInit
<1>2. BootTypeOK /\ BInv /\ [BootNext]_bootVars => (BootTypeOK /\ BInv)'
  BY BootTypeStep, BootstrapStep
<1> QED BY <1>1, <1>2, PTL DEF BootSpec

\* Every variable of the bootstrap keeps its type: a process holds a record of
\* a known phase or none, and so does the lock file unless it is torn.
THEOREM BootTypeCorrect == BootSpec => []BootTypeOK
<1> QED BY BootstrapInvariant, PTL

\* The invariant says what the properties say.
LEMMA InvariantIsSound == BootTypeOK /\ BInv => RootIsSound
<1> SUFFICES ASSUME BootTypeOK, BInv PROVE RootIsSound
  OBVIOUS
<1>1. OpenIsReady
  <2> SUFFICES ASSUME NEW p \in Processes, At(p, "using") \/ At(p, "writing")
               PROVE  Ready /\ \A q \in Processes : proc[q].at \notin {"truncate", "write"}
    BY DEF OpenIsReady
  <2>1. Ready
    BY DEF BInv, ProcOK, At
  <2>2. ASSUME NEW q \in Processes PROVE proc[q].at # "truncate" /\ proc[q].at # "write"
    BY <2>1 DEF BInv, ProcOK, At, Ahead, Ready, Unreadable
  <2> QED BY <2>1, <2>2
<1>2. ResumesUnlessTorn
  <2> SUFFICES ASSUME Quiet, root # "foreign", losses \subseteq {"died"} PROVE Resumable
    BY DEF ResumesUnlessTorn
  <2>1. \A p \in Processes : ~ StageUnbound(p) /\ p \notin Writers /\ ~ At(p, "chmod")
                             /\ proc[p].at \notin New \union {"write"}
    BY DEF Quiet, StageUnbound, Writers, New, At
  <2>2. Writers = {}
    BY <2>1 DEF Writers
  <2>3. /\ root # "open" /\ lock # Unreadable /\ journal # "database"
        /\ lock \in Record => Base(lock)
    BY <2>1, <2>2 DEF BInv, Whole
  <2>4. CASE root = "absent"
    BY <2>4 DEF Resumable
  <2>5. CASE root = "private" /\ lock = NoRecord
    BY <2>5 DEF Resumable, Vacant
  <2>6. CASE root = "private" /\ lock # NoRecord
    <3>1. lock \in Record /\ Base(lock)
      BY <2>3, <2>6 DEF BootTypeOK
    <3>2. Admissible(lock)
      BY <2>3, <3>1 DEF Admissible, Base
    <3> QED BY <2>3, <2>6, <3>1, <3>2 DEF Resumable, Current
  <2> QED BY <2>3, <2>4, <2>5, <2>6 DEF BootTypeOK
<1> QED BY <1>1, <1>2 DEF RootIsSound, BInv

\* The root that any number of competing processes build is one host's
\* (publish_database renames, never replaces), whole before anybody uses it
\* (open_bootstrapped), and can be created, resumed or opened by the next
\* process unless one of them died inside an effect that is not bound yet.
THEOREM RootIsSoundHolds == BootSpec => []RootIsSound
<1> QED BY BootstrapInvariant, InvariantIsSound, PTL

-----------------------------------------------------------------------------
(* The root implements its promise.                                        *)

RootUsers == {p \in Processes : At(p, "using") \/ At(p, "writing")}
Published == IF metadata = "ready" THEN database ELSE Nil

\* What the promise sees of a step of one process.
LEMMA UsersOf ==
  ASSUME NEW p \in Processes, \A q \in Processes \ {p} : proc'[q] = proc[q]
  PROVE  /\ proc'[p].at \in {"using", "writing"} => RootUsers' = RootUsers \union {p}
         /\ proc'[p].at \notin {"using", "writing"} => RootUsers' = RootUsers \ {p}
         /\ proc[p].at \in {"using", "writing"} <=> p \in RootUsers
BY DEF RootUsers, At

\* A step that publishes nothing, opens nothing and closes nothing.
LEMMA Unseen ==
  ASSUME NEW p \in Processes, \A q \in Processes \ {p} : proc'[q] = proc[q],
         proc[p].at \in {"using", "writing"} <=> proc'[p].at \in {"using", "writing"},
         root' = "foreign" <=> root = "foreign", Published' = Published
  PROVE  UNCHANGED Promise!promise
<1>1. RootUsers' = RootUsers
  <2>1. \A q \in Processes : (At(q, "using") \/ At(q, "writing"))' <=> At(q, "using") \/ At(q, "writing")
    BY DEF At
  <2> QED BY <2>1 DEF RootUsers
<1>2. (root' = "foreign") = (root = "foreign")
  OBVIOUS
<1> QED BY <1>1, <1>2 DEF Promise!promise, RootUsers, Published

\* A process that stops using the root leaves it.
LEMMA Leaves ==
  ASSUME BootTypeOK, NEW p \in Processes, Return(p, "idle"), UNCHANGED files
  PROVE  [Promise!Next]_(Promise!promise)
<1>1. proc'[p].at = "idle" /\ \A q \in Processes \ {p} : proc'[q] = proc[q]
  BY ProcMoves DEF Steps
<1>2. RootUsers' = RootUsers \ {p}
  BY <1>1, UsersOf
<1>3. CASE p \in RootUsers
  <2>1. Promise!Leave
    BY <1>2, <1>3 DEF Promise!Leave, RootUsers, Published, files
  <2> QED BY <2>1 DEF Promise!Next
<1>4. CASE p \notin RootUsers
  <2>1. UNCHANGED Promise!promise
    BY <1>1, <1>4, UsersOf, Unseen DEF files, Published
  <2> QED BY <2>1
<1> QED BY <1>3, <1>4

\* Creating the directory and the lock file, and taking the lock.
LEMMA CreationUnseen ==
  ASSUME BootTypeOK, BInv, NEW p \in Processes,
         Start(p) \/ Classify(p) \/ CreateRoot(p) \/ AcquireLock(p)
  PROVE  [Promise!Next]_(Promise!promise)
<1>1. CASE ClassifyRefused(p) \/ MakeRootFails(p) \/ CreateLockFileFails(p) \/ FlockNewBusy(p)
           \/ FlockBusy(p) \/ ReadRecordFails(p)
  <2>1. Return(p, "idle") /\ UNCHANGED files
    BY <1>1 DEF ClassifyRefused, MakeRootFails, CreateLockFileFails, FlockNewBusy, FlockBusy, ReadRecordFails, Refuse
  <2> QED BY <2>1, Leaves
<1>2. CASE \/ Start(p) \/ ClassifyAbsent(p) \/ ClassifyEmpty(p) \/ ClassifyCurrent(p)
           \/ MakeRoot(p) \/ SetRootPrivate(p) \/ CreateLockFile(p) \/ FlockNew(p)
           \/ Flock(p)
  <2> DEFINE Next == Classifying \union Creating \union {"flock", "read"}
  <2>1. PICK at \in Next : Goto(p, at)
    BY <1>2 DEF Start, ClassifyAbsent, ClassifyEmpty, ClassifyCurrent, MakeRoot, SetRootPrivate,
       CreateLockFile, FlockNew, Flock, Classifying, Creating
  <2>2. at \in Steps /\ at \notin {"using", "writing"}
    BY <2>1 DEF Steps, Classifying, Creating
  <2>3. proc[p].at \notin {"using", "writing"}
    BY <1>2 DEF Start, ClassifyAbsent, ClassifyEmpty, ClassifyCurrent, MakeRoot, SetRootPrivate,
       CreateLockFile, FlockNew, Flock, At, Classifying
  <2>4. proc'[p].at = at /\ \A q \in Processes \ {p} : proc'[q] = proc[q]
    BY <2>1, <2>2, ProcMoves
  <2>5. UNCHANGED <<database, metadata>> /\ (root' = "foreign" <=> root = "foreign")
    BY <1>2 DEF Start, ClassifyAbsent, ClassifyEmpty, ClassifyCurrent, MakeRoot, SetRootPrivate,
       CreateLockFile, FlockNew, Flock, files, BInv, ProcOK, At
  <2> QED BY <2>2, <2>3, <2>4, <2>5, Unseen DEF Published
<1>3. CASE WriteFirstRecord(p) \/ ReadRecord(p)
  <2>1. PICK r \in Record : proc' = [proc EXCEPT ![p] = [at |-> "advance", record |-> r]]
    BY <1>3, PhasesAre DEF WriteFirstRecord, ReadRecord, Record
  <2>2. proc'[p].at = "advance" /\ \A q \in Processes \ {p} : proc'[q] = proc[q]
    BY <2>1, ProcMoves DEF Steps, Working
  <2>3. UNCHANGED <<root, database, metadata>> /\ proc[p].at \notin {"using", "writing"}
    BY <1>3 DEF WriteFirstRecord, ReadRecord, files, At
  <2> QED BY <2>2, <2>3, Unseen DEF Published
<1> QED BY <1>1, <1>2, <1>3 DEF Classify, CreateRoot, AcquireLock

\* The effects between two records: one of them publishes the identity.
LEMMA EffectSeen ==
  ASSUME BootTypeOK, BInv, NEW p \in Processes, Transition(p), UNCHANGED root,
         proc[p].at \in Recording, lock.phase # "ready",
         proc[p].record = lock
  PROVE  /\ Published' = Published => UNCHANGED Promise!promise
         /\ Published = Nil /\ Published' \in Hosts => Promise!Publish
<1>1. proc[p].record \in Record /\ root # "foreign"
  BY Working1, LockAlone
<1>2. proc'[p].at = "truncate" /\ \A q \in Processes \ {p} : proc'[q] = proc[q]
  BY <1>1, TransitionMoves
<1>3. proc[p].at \notin {"using", "writing"}
  BY DEF Recording, Working
<1>4. RootUsers' = RootUsers
  BY <1>2, <1>3, UsersOf
<1>5. Published = Nil /\ Published' \in Hosts => Promise!Publish
  BY <1>1, <1>4 DEF Promise!Publish, RootUsers, Published
<1> QED BY <1>2, <1>3, <1>5, Unseen

\* Finishing the bootstrap: the commit of the provisional lock publishes, the
\* open of a ready root uses what is published.
LEMMA AdvanceSeen ==
  ASSUME BootTypeOK, BInv, NEW p \in Processes, Advance(p)
  PROVE  [Promise!Next]_(Promise!promise)
<1>1. CASE AdvanceRefused(p)
  BY <1>1, Leaves DEF AdvanceRefused, Refuse
<1>2. CASE TruncateRecord(p) \/ WriteRecord(p) \/ BeginStageTransaction(p) \/ CreateProvisional(p)
           \/ FillProvisional(p) \/ AcceptProvisional(p) \/ BeginProvisionalTransaction(p)
  <2>1. PICK at \in Working : Goto(p, at)
    BY <1>2 DEF TruncateRecord, WriteRecord, BeginStageTransaction, CreateProvisional, FillProvisional,
       AcceptProvisional, BeginProvisionalTransaction, Working
  <2>2. at \in Steps /\ at \notin {"using", "writing"}
    BY <2>1 DEF Steps, Working
  <2>3. proc[p].at \notin {"using", "writing"} /\ UNCHANGED <<root, database, metadata>>
    BY <1>2 DEF TruncateRecord, WriteRecord, BeginStageTransaction, CreateProvisional, FillProvisional,
       AcceptProvisional, BeginProvisionalTransaction, Advancing, In, At, files
  <2>4. proc'[p].at = at /\ \A q \in Processes \ {p} : proc'[q] = proc[q]
    BY <2>1, <2>2, ProcMoves
  <2> QED BY <2>2, <2>3, <2>4, Unseen DEF Published
<1>3. CASE ReserveStageName(p) \/ CreateStage(p) \/ AcceptStage(p) \/ PublishDatabase(p) \/ AcceptPublished(p)
  <2>1. PICK ph \in {"root_reserved", "database_create_reserved", "database_owned", "database_ready"} :
          Advancing(p, ph) /\ (PublishDatabase(p) => ph = "database_ready")
    BY <1>3 DEF ReserveStageName, CreateStage, AcceptStage, PublishDatabase, AcceptPublished, Advancing, In
  <2>2. /\ proc[p].at \in Recording /\ lock = proc[p].record /\ lock.phase = ph /\ Base(lock)
    BY <2>1, Admits
  <2>3. Transition(p) /\ UNCHANGED <<root, metadata>> /\ (~ PublishDatabase(p) => UNCHANGED database)
    BY <1>3 DEF ReserveStageName, CreateStage, AcceptStage, PublishDatabase, AcceptPublished, files
  <2>4. PublishDatabase(p) => metadata = "pending"
    BY <2>1, <2>2 DEF Base
  <2>5. Published' = Published
    BY <2>3, <2>4 DEF Published
  <2> QED BY <2>2, <2>3, <2>5, EffectSeen
<1>4. CASE CommitStage(p) \/ CommitProvisional(p) \/ ProvisionalIsReady(p)
  <2>1. /\ proc[p].at \in Recording /\ lock = proc[p].record /\ Transition(p) /\ UNCHANGED <<root, database>>
        /\ lock.phase \in {"database_owned", "provisional_pending"}
    BY <1>4 DEF CommitStage, CommitProvisional, ProvisionalIsReady, BInv, ProcOK, At, Recording, Working, files
  <2>2. CASE metadata' = metadata
    BY <2>1, <2>2, EffectSeen DEF Published
  <2>3. CASE metadata' # metadata
    <3>1. At(p, "commit_provisional") /\ metadata' = "ready"
      BY <1>4, <2>3 DEF CommitStage, CommitProvisional, ProvisionalIsReady, files
    <3>2. metadata = "pending" /\ database = lock.host
      BY <2>3, <3>1 DEF BInv, ProcOK, BootTypeOK, At
    <3>3. lock.host \in Hosts
      BY <2>1, Working1 DEF HostOf
    <3>4. Published = Nil /\ Published' \in Hosts
      BY <2>1, <3>1, <3>2, <3>3 DEF Published
    <3> QED BY <2>1, <3>4, EffectSeen DEF Promise!Next
  <2> QED BY <2>2, <2>3
<1>5. CASE OpenReady(p)
  <2>1. Advancing(p, "ready") /\ Return(p, "using") /\ UNCHANGED files
    BY <1>5 DEF OpenReady
  <2>2. metadata = "ready" /\ database \in Hosts
    <3>1. lock.phase = "ready" /\ Base(lock) /\ (metadata = "ready" => database \in Hosts)
      BY <2>1, Admits
    <3> QED BY <3>1 DEF Base
  <2>3. proc'[p].at = "using" /\ \A q \in Processes \ {p} : proc'[q] = proc[q]
    BY <2>1, ProcMoves DEF Steps
  <2>4. RootUsers' = RootUsers \union {p} /\ p \notin RootUsers
    BY <2>1, <2>3, UsersOf DEF Advancing, In, At
  <2>5. Published \in Hosts /\ Published # Nil /\ Published' = Published
    BY <2>1, <2>2, ProcessesAssumption DEF Published, files
  <2>6. Promise!Open
    BY <2>1, <2>4, <2>5 DEF Promise!Open, RootUsers, Published, files
  <2> QED BY <2>6 DEF Promise!Next
<1> QED BY <1>1, <1>2, <1>3, <1>4, <1>5 DEF Advance

\* A process writes through its connection, closes it or dies.
LEMMA UseSeen ==
  ASSUME BootTypeOK, BInv, NEW p \in Processes, Use(p) \/ Crash(p)
  PROVE  [Promise!Next]_(Promise!promise)
<1>1. CASE Close(p) \/ Crash(p)
  <2>1. Return(p, "idle") /\ UNCHANGED files
    BY <1>1 DEF Close, Crash, Refuse
  <2> QED BY <2>1, Leaves
<1>2. CASE RollBack(p)
  BY <1>2, Unseen DEF RollBack, Published
<1>3. CASE BeginWrite(p) \/ EndWrite(p)
  <2>1. PICK at \in {"using", "writing"} : Goto(p, at)
    BY <1>3 DEF BeginWrite, EndWrite
  <2>2. UNCHANGED <<root, database, metadata>> /\ proc[p].at \in {"using", "writing"}
    BY <1>3 DEF BeginWrite, EndWrite, At
  <2>3. proc'[p].at = at /\ \A q \in Processes \ {p} : proc'[q] = proc[q]
    BY <2>1, ProcMoves DEF Steps
  <2> QED BY <2>2, <2>3, Unseen DEF Published
<1> QED BY <1>1, <1>2, <1>3 DEF Use

\* Whatever competing and dying processes do, the root gets one identity, once,
\* and is used only when it has it: the bootstrap implements RootPromise.
THEOREM RootKeepsPromise == BootSpec => RootPromised
<1>1. BootInit => Promise!Init
  BY DEF BootInit, Promise!Init, At
<1>2. BootTypeOK /\ BInv /\ [BootNext]_bootVars => [Promise!Next]_(Promise!promise)
  <2> SUFFICES ASSUME BootTypeOK, BInv, [BootNext]_bootVars PROVE [Promise!Next]_(Promise!promise)
    OBVIOUS
  <2>1. CASE UNCHANGED bootVars
    BY <2>1 DEF bootVars, Promise!promise, At
  <2>2. ASSUME NEW p \in Processes, Start(p) \/ Attempt(p) \/ Use(p) \/ Crash(p)
        PROVE  [Promise!Next]_(Promise!promise)
    BY <2>2, CreationUnseen, AdvanceSeen, UseSeen DEF Attempt
  <2> QED BY <2>1, <2>2 DEF BootNext
<1> QED BY <1>1, <1>2, BootstrapInvariant, PTL DEF BootSpec, RootPromised, Promise!Spec

-----------------------------------------------------------------------------
(* The safety half of FirstStartSettles.  From the moment a process makes a *)
(* root, the root is ready, or something was lost, or somebody is at work   *)
(* at the very point that creation has reached.                             *)

AtSome(steps) == \E p \in Processes : proc[p].at \in steps

Builders == New \union Holding

Attended ==
  \/ root = "absent" /\ AtSome({"mkdir"})
  \/ root = "open" /\ AtSome({"chmod"})
  \/ Vacant /\ AtSome({"create", "create_lock"})
  \/ lock # NoRecord /\ AtSome(Builders)

Tended == Attended \/ Ready \/ losses # {}

\* A lock file that is not ready has a process that builds.
LockTended == lock # NoRecord /\ losses = {} => Ready \/ AtSome(Builders)

\* Whoever is about to make the root finds it on its way to ready.
MakerTended == AtSome({"mkdir"}) => root # "foreign" /\ Tended

BootMove(p) == Start(p) \/ Attempt(p) \/ Use(p) \/ Crash(p)

\* What a step of one process does to the others, to the directory and to what
\* was lost; nothing empties the lock file again.
LEMMA BootMoves ==
  ASSUME BootTypeOK, BInv, NEW p \in Processes, BootMove(p)
  PROVE  /\ \A q \in Processes \ {p} : proc'[q] = proc[q]
         /\ losses \subseteq losses'
         /\ lock' = lock \/ lock' # NoRecord
         /\ \/ root' = root
            \/ MakeRoot(p) /\ root = "absent" /\ root' = "open"
            \/ SetRootPrivate(p) /\ root' = "private" /\ proc'[p].at = "create"
<1> USE DEF files
<1>1. CASE Start(p) \/ Classify(p) \/ AcquireLock(p) \/ Use(p) \/ Crash(p)
  BY <1>1 DEF Start, Classify, ClassifyAbsent, ClassifyEmpty, ClassifyCurrent, ClassifyRefused, AcquireLock, Flock,
     FlockBusy, ReadRecord, ReadRecordFails, Use, RollBack, BeginWrite, EndWrite, Close, Crash, Refuse, Return, Goto,
     BootTypeOK
<1>2. CASE CreateRoot(p)
  <2>1. CASE WriteFirstRecord(p)
    BY <2>1, PhasesAre DEF WriteFirstRecord, BootTypeOK, NoRecord
  <2>2. CASE CreateRoot(p) /\ ~ WriteFirstRecord(p)
    BY <2>2 DEF CreateRoot, MakeRoot, MakeRootFails, SetRootPrivate, CreateLockFile, CreateLockFileFails, FlockNew,
       FlockNewBusy, Refuse, Return, Goto, BootTypeOK, NoRecord, Unreadable
  <2> QED BY <1>2, <2>1, <2>2
<1>3. CASE TruncateRecord(p) \/ WriteRecord(p)
  <2>1. proc[p].record # NoRecord
    BY <1>3 DEF TruncateRecord, WriteRecord, BInv, ProcOK, At, Recording, Working
  <2> QED BY <1>3, <2>1 DEF TruncateRecord, WriteRecord, Goto, BootTypeOK, NoRecord, Unreadable
<1>4. CASE Advance(p) /\ ~ TruncateRecord(p) /\ ~ WriteRecord(p)
  BY <1>4 DEF Advance, ReserveStageName, CreateStage, BeginStageTransaction, CommitStage, AcceptStage,
     PublishDatabase, AcceptPublished, CreateProvisional, FillProvisional, AcceptProvisional,
     BeginProvisionalTransaction, CommitProvisional, ProvisionalIsReady, OpenReady, AdvanceRefused, Refuse, Return,
     Goto, Transition, BootTypeOK
<1> QED BY <1>1, <1>2, <1>3, <1>4 DEF BootMove, Attempt

\* Who builds goes on to build, loses something, leaves a root that is ready, or
\* gives up over a record that it cannot go on from.
LEMMA BuilderMoves ==
  ASSUME BootTypeOK, BInv, NEW p \in Processes, BootMove(p), proc[p].at \in Builders
  PROVE  \/ proc'[p].at \in Builders
         \/ losses' # {}
         \/ /\ OpenReady(p) \/ ReadRecordFails(p) \/ AdvanceRefused(p)
            /\ UNCHANGED files
<1> USE DEF Builders, New, Holding, Recording, Working
<1>1. CASE Start(p) \/ Classify(p) \/ Use(p)
  BY <1>1 DEF Start, Classify, ClassifyAbsent, ClassifyEmpty, ClassifyCurrent, ClassifyRefused, Use, RollBack,
     BeginWrite, EndWrite, Close, At, Classifying
<1>2. CASE Crash(p) \/ FlockNewBusy(p)
  BY <1>2 DEF Crash, FlockNewBusy
<1>3. CASE CreateRoot(p) /\ ~ FlockNewBusy(p)
  BY <1>3 DEF CreateRoot, MakeRoot, MakeRootFails, SetRootPrivate, CreateLockFile, CreateLockFileFails, FlockNew,
     WriteFirstRecord, Goto, At, BootTypeOK
<1>4. CASE AcquireLock(p)
  BY <1>4 DEF AcquireLock, Flock, FlockBusy, ReadRecord, ReadRecordFails, Refuse, Goto, At, BootTypeOK
<1>5. CASE Advance(p)
  BY <1>5 DEF Advance, TruncateRecord, WriteRecord, ReserveStageName, CreateStage, BeginStageTransaction, CommitStage,
     AcceptStage, PublishDatabase, AcceptPublished, CreateProvisional, FillProvisional, AcceptProvisional,
     BeginProvisionalTransaction, CommitProvisional, ProvisionalIsReady, OpenReady, AdvanceRefused, Refuse, Goto,
     Transition, BootTypeOK
<1> QED BY <1>1, <1>2, <1>3, <1>4, <1>5 DEF BootMove, Attempt

\* Only who builds touches what makes a root ready.
LEMMA ReadyMoves ==
  ASSUME BootTypeOK, BInv, NEW p \in Processes, BootMove(p), Ready
  PROVE  Ready' \/ proc'[p].at \in Builders
<1> USE DEF Builders, New, Holding, Recording, Working, files
<1>1. CASE Start(p) \/ Classify(p) \/ AcquireLock(p) \/ Use(p) \/ Crash(p)
  BY <1>1 DEF Start, Classify, ClassifyAbsent, ClassifyEmpty, ClassifyCurrent, ClassifyRefused, AcquireLock, Flock,
     FlockBusy, ReadRecord, ReadRecordFails, Use, RollBack, BeginWrite, EndWrite, Close, Crash, Refuse, Ready
<1>2. CASE CreateRoot(p)
  BY <1>2 DEF CreateRoot, MakeRoot, MakeRootFails, SetRootPrivate, CreateLockFile, CreateLockFileFails, FlockNew,
     FlockNewBusy, WriteFirstRecord, Refuse, Goto, BootTypeOK, Ready
<1>3. CASE Advance(p)
  BY <1>3 DEF Advance, TruncateRecord, WriteRecord, ReserveStageName, CreateStage, BeginStageTransaction, CommitStage,
     AcceptStage, PublishDatabase, AcceptPublished, CreateProvisional, FillProvisional, AcceptProvisional,
     BeginProvisionalTransaction, CommitProvisional, ProvisionalIsReady, OpenReady, AdvanceRefused, Refuse, Goto,
     Transition, BootTypeOK, Ready
<1> QED BY <1>1, <1>2, <1>3 DEF BootMove, Attempt

\* A builder gives up only over a root that is ready or that another one builds.
LEMMA GivesUp ==
  ASSUME BootTypeOK, BInv, losses = {}, NEW p \in Processes,
         OpenReady(p) \/ ReadRecordFails(p) \/ AdvanceRefused(p)
  PROVE  Ready \/ \E q \in Processes \ {p} : proc[q].at \in Builders
<1>1. CASE OpenReady(p)
  <2>1. Advancing(p, "ready")
    BY <1>1 DEF OpenReady
  <2>2. lock.phase = "ready" /\ Base(lock)
    BY <2>1, Admits
  <2> QED BY <2>2 DEF Base, Ready
<1>2. CASE ReadRecordFails(p)
  <2>1. holder = p /\ lock = Unreadable /\ At(p, "read")
    BY <1>2 DEF ReadRecordFails, BInv, ProcOK, At, Holding, BootTypeOK
  <2>2. PICK q \in Processes : proc[q].at \in New \union {"write"}
    BY <2>1 DEF BInv, Whole
  <2> QED BY <2>1, <2>2 DEF At, New, Builders, Holding, Recording, Working
<1>3. CASE AdvanceRefused(p)
  <2>1. /\ At(p, "advance") /\ proc[p].at \in Recording /\ lock = proc[p].record /\ lock \in Record
        /\ ~ Admissible(lock)
    BY <1>3, Working1 DEF AdvanceRefused, At, Recording, BInv, ProcOK
  <2>2. \A q \in Processes : proc[q].at \in Recording => q = p
    BY <2>1, LockAlone DEF Holding
  <2>3. \A q \in Processes : ~ StageUnbound(q)
    BY <2>1, <2>2 DEF StageUnbound, At, Recording, Working
  <2>4. Base(lock)
    BY <2>1, <2>3 DEF BInv, Whole
  <2>5. CASE journal = "database"
    <3>1. PICK q \in Processes : At(q, "writing") \/ At(q, "commit_provisional")
      BY <2>5 DEF BInv, Whole, Writers
    <3>2. At(q, "writing")
      BY <2>1, <2>2, <3>1 DEF At, Recording, Working
    <3> QED BY <3>2 DEF BInv, ProcOK, At
  <2>6. CASE journal # "database"
    BY <2>1, <2>4, <2>6 DEF Admissible, Base
  <2> QED BY <2>5, <2>6
<1> QED BY <1>1, <1>2, <1>3

\* Every step leaves a lock file that is not ready with a builder.
LEMMA LockTendedStep ==
  ASSUME BootTypeOK, BInv, LockTended, NEW p \in Processes, BootMove(p)
  PROVE  LockTended'
<1> SUFFICES ASSUME lock' # NoRecord, losses' = {}, ~ Ready', proc'[p].at \notin Builders
             PROVE  AtSome(Builders)'
  BY DEF LockTended, AtSome
<1>1. losses = {} /\ \A q \in Processes \ {p} : proc'[q] = proc[q]
  BY BootMoves
<1>2. ~ Ready
  BY ReadyMoves
<1>3. lock # NoRecord
  <2>1. CASE lock' = lock
    BY <2>1
  <2>2. CASE lock' # lock /\ lock = NoRecord
    <3>1. proc[p].at \notin {"first_record"} \union Recording
      BY <2>2 DEF BInv, ProcOK, New, Unreadable, NoRecord
    <3>2. CreateLockFile(p)
      BY <2>2, <3>1 DEF BootMove, Start, Attempt, Classify, ClassifyAbsent, ClassifyEmpty, ClassifyCurrent,
         ClassifyRefused, CreateRoot, MakeRoot, MakeRootFails, SetRootPrivate, CreateLockFileFails, FlockNew,
         FlockNewBusy, WriteFirstRecord, AcquireLock, Flock, FlockBusy, ReadRecord, ReadRecordFails, Advance,
         TruncateRecord, WriteRecord, ReserveStageName, CreateStage, BeginStageTransaction, CommitStage, AcceptStage,
         PublishDatabase, AcceptPublished, CreateProvisional, FillProvisional, AcceptProvisional,
         BeginProvisionalTransaction, CommitProvisional, ProvisionalIsReady, OpenReady, AdvanceRefused, Refuse,
         Use, RollBack, BeginWrite, EndWrite, Close, Crash, files, At, Recording, Working
    <3>3. proc'[p].at = "flock_new"
      BY <3>2 DEF CreateLockFile, Goto, BootTypeOK
    <3> QED BY <3>3 DEF Builders, New
  <2> QED BY <2>1, <2>2
<1>4. PICK q \in Processes : proc[q].at \in Builders
  BY <1>1, <1>2, <1>3 DEF LockTended, AtSome
<1>5. CASE q # p
  BY <1>1, <1>4, <1>5 DEF AtSome
<1>6. CASE q = p
  <2>1. OpenReady(p) \/ ReadRecordFails(p) \/ AdvanceRefused(p)
    BY <1>4, <1>6, BuilderMoves
  <2>2. PICK r \in Processes \ {p} : proc[r].at \in Builders
    BY <1>1, <1>2, <2>1, GivesUp
  <2> QED BY <1>1, <2>2 DEF AtSome
<1> QED BY <1>5, <1>6

\* Every step leaves a root that is tended so.
LEMMA TendedStep ==
  ASSUME BootTypeOK, BInv, LockTended, Tended, BInv', BootTypeOK', LockTended', NEW p \in Processes, BootMove(p)
  PROVE  Tended' /\ (root' = "foreign" => root = "foreign")
<1>1. /\ \A q \in Processes \ {p} : proc'[q] = proc[q]
      /\ losses \subseteq losses'
      /\ lock' = lock \/ lock' # NoRecord
      /\ \/ root' = root
         \/ MakeRoot(p) /\ root = "absent" /\ root' = "open"
         \/ SetRootPrivate(p) /\ root' = "private" /\ proc'[p].at = "create"
  BY BootMoves
<1>2. ASSUME losses' = {} PROVE Tended'
  <2>1. losses = {} /\ losses \subseteq {"died"} /\ losses' \subseteq {"died"}
    BY <1>1, <1>2
  <2>2. CASE root' = "open"
    <3>1. \E q \in Processes : At(q, "chmod")'
      BY <2>1, <2>2 DEF BInv, Whole
    <3> QED BY <2>2, <3>1 DEF Tended, Attended, AtSome, At
  <2>3. CASE lock' # NoRecord
    BY <1>2, <2>3 DEF LockTended, Tended, Attended
  <2>4. ASSUME lock' = NoRecord, root' # "open" PROVE Tended'
    <3>1. lock = NoRecord /\ ~ Ready /\ Attended
      BY <1>1, <2>1, <2>4 DEF Tended, Ready, NoRecord
    <3>2. CASE root' = root
      <4>1. CASE root = "absent"
        <5>1. PICK q \in Processes : proc[q].at = "mkdir"
          BY <3>1, <4>1 DEF Attended, AtSome, Vacant
        <5>2. q # p
          <6>1. ~ MakeRoot(p) /\ ~ MakeRootFails(p)
            BY <3>2, <4>1 DEF MakeRoot, MakeRootFails
          <6>2. ~ Crash(p)
            BY <2>1, <1>2 DEF Crash
          <6> QED BY <5>1, <6>1, <6>2 DEF BootMove, Start, Attempt, Classify, ClassifyAbsent, ClassifyEmpty,
                 ClassifyCurrent, ClassifyRefused, CreateRoot, SetRootPrivate, CreateLockFile, CreateLockFileFails,
                 FlockNew, FlockNewBusy, WriteFirstRecord, AcquireLock, Flock, FlockBusy, ReadRecord, ReadRecordFails,
                 Advance, TruncateRecord, WriteRecord, ReserveStageName, CreateStage, BeginStageTransaction,
                 CommitStage, AcceptStage, PublishDatabase, AcceptPublished, CreateProvisional, FillProvisional,
                 AcceptProvisional, BeginProvisionalTransaction, CommitProvisional, ProvisionalIsReady, OpenReady,
                 AdvanceRefused, Use, RollBack, BeginWrite, EndWrite, Close, Advancing, In, At, Classifying
        <5> QED BY <1>1, <3>2, <4>1, <5>1, <5>2 DEF Tended, Attended, AtSome
      <4>2. CASE root # "absent"
        <5>1. Vacant /\ Vacant'
          BY <2>4, <3>1, <3>2, <4>2 DEF Attended, Vacant
        <5>2. PICK q \in Processes : proc[q].at \in {"create", "create_lock"}
          BY <3>1, <4>2, <5>1 DEF Attended, AtSome, Vacant
        <5>3. q = p => proc'[p].at \in {"create", "create_lock"}
          <6> SUFFICES ASSUME q = p PROVE proc'[p].at \in {"create", "create_lock"}
            OBVIOUS
          <6>1. ~ Crash(p) /\ ~ CreateLockFile(p)
            BY <1>2, <2>4 DEF Crash, CreateLockFile, NoRecord, Unreadable
          <6>2. ClassifyEmpty(p)
            BY <3>1, <5>1, <5>2, <6>1 DEF BootMove, Start, Attempt, Classify, ClassifyAbsent, Vacant, Current,
                 ClassifyCurrent, ClassifyRefused, CreateRoot, MakeRoot, MakeRootFails, SetRootPrivate,
                 CreateLockFileFails,
                 FlockNew, FlockNewBusy, WriteFirstRecord, AcquireLock, Flock, FlockBusy, ReadRecord, ReadRecordFails,
                 Advance, TruncateRecord, WriteRecord, ReserveStageName, CreateStage, BeginStageTransaction,
                 CommitStage, AcceptStage, PublishDatabase, AcceptPublished, CreateProvisional, FillProvisional,
                 AcceptProvisional, BeginProvisionalTransaction, CommitProvisional, ProvisionalIsReady, OpenReady,
                 AdvanceRefused, Use, RollBack, BeginWrite, EndWrite, Close, Advancing, In, At, Classifying
          <6> QED BY <6>2 DEF ClassifyEmpty, Goto, BootTypeOK
        <5> QED BY <1>1, <5>1, <5>2, <5>3 DEF Tended, Attended, AtSome
      <4> QED BY <4>1, <4>2
    <3>3. CASE SetRootPrivate(p) /\ root' = "private" /\ proc'[p].at = "create"
      BY <2>4, <3>3 DEF Tended, Attended, Vacant, AtSome
    <3> QED BY <1>1, <2>4, <3>2, <3>3
  <2> QED BY <2>2, <2>3, <2>4
<1>3. Tended'
  BY <1>2 DEF Tended
<1> QED BY <1>1, <1>3

\* Who comes to make the root has just found that it is absent.
LEMMA MakerTendedStep ==
  ASSUME BootTypeOK, BInv, LockTended, MakerTended, BInv', BootTypeOK', LockTended', NEW p \in Processes, BootMove(p)
  PROVE  MakerTended'
<1> SUFFICES ASSUME AtSome({"mkdir"})' PROVE root' # "foreign" /\ Tended'
  BY DEF MakerTended
<1>1. CASE AtSome({"mkdir"})
  BY <1>1, TendedStep DEF MakerTended
<1>2. CASE ~ AtSome({"mkdir"})
  <2>1. PICK q \in Processes : proc'[q].at = "mkdir"
    BY DEF AtSome
  <2>2. q = p /\ proc[p].at # "mkdir"
    BY <1>2, <2>1, BootMoves DEF AtSome
  <2>3. ClassifyAbsent(p)
    BY <2>1, <2>2 DEF BootMove, Start, Attempt, Classify, ClassifyEmpty, ClassifyCurrent, ClassifyRefused, CreateRoot,
       MakeRoot, MakeRootFails, SetRootPrivate, CreateLockFile, CreateLockFileFails, FlockNew, FlockNewBusy,
       WriteFirstRecord, AcquireLock, Flock, FlockBusy, ReadRecord, ReadRecordFails, Advance, TruncateRecord,
       WriteRecord, ReserveStageName, CreateStage, BeginStageTransaction, CommitStage, AcceptStage, PublishDatabase,
       AcceptPublished, CreateProvisional, FillProvisional, AcceptProvisional, BeginProvisionalTransaction,
       CommitProvisional, ProvisionalIsReady, OpenReady, AdvanceRefused, Use, RollBack, BeginWrite, EndWrite, Close,
       Crash, Refuse, Return, Goto, Transition, BootTypeOK, Classifying
  <2>4. root' = "absent"
    BY <2>3 DEF ClassifyAbsent, files
  <2> QED BY <2>4 DEF AtSome, Tended, Attended
<1> QED BY <1>1, <1>2

\* A first start is never abandoned while nobody dies and nobody locks the lock
\* file while it is new: whoever races with it, the root is ready or some process
\* is at exactly the step that creation has reached (create_private_fresh_root,
\* BootstrapLease, finish_current_bootstrap), so its every refusal leaves the
\* work to another one that goes on.
THEOREM FirstStartIsTended ==
  BootSpec => [](AtSome({"mkdir"}) => Tended) /\ [][Tended => Tended']_bootVars
<1> DEFINE TInv == BootTypeOK /\ BInv /\ LockTended /\ MakerTended
<1>1. BootInit => LockTended /\ MakerTended
  BY DEF BootInit, LockTended, MakerTended, AtSome
<1>2. TInv /\ (BootTypeOK /\ BInv)' /\ [BootNext]_bootVars => TInv' /\ [Tended => Tended']_bootVars
  <2> SUFFICES ASSUME TInv, (BootTypeOK /\ BInv)', [BootNext]_bootVars
               PROVE  TInv' /\ [Tended => Tended']_bootVars
    OBVIOUS
  <2>1. CASE UNCHANGED bootVars
    BY <2>1 DEF bootVars, LockTended, MakerTended, AtSome, Tended, Attended, Vacant, Ready
  <2>2. ASSUME NEW p \in Processes, BootMove(p) PROVE TInv' /\ [Tended => Tended']_bootVars
    <3>1. LockTended'
      BY <2>2, LockTendedStep
    <3> QED BY <2>2, <3>1, TendedStep, MakerTendedStep
  <2> QED BY <2>1, <2>2 DEF BootNext, BootMove
<1>3. TInv => (AtSome({"mkdir"}) => Tended)
  BY DEF MakerTended
<1> QED BY <1>1, <1>2, <1>3, BootstrapInvariant, PTL DEF BootSpec
=============================================================================
