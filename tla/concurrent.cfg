SPECIFICATION RuntimeSpec
CONSTANTS
  Sessions = {s1}
  NoSession = none
  Actors = {a1, a2}
  Failures = {"crash", "provider_exit", "survives_hangup"}
  MaxGen = 3
  MaxRev = 5
INVARIANTS ParkedIsStopped RecordedIsOwn SnapshotIsCurrent
PROPERTIES HookEvidence
SYMMETRY Symmetry
CHECK_DEADLOCK FALSE
