SPECIFICATION Spec
CONSTANTS
  Sessions = {s1, s2}
  NoSession = none
  MaxRev = 8
CONSTRAINT RevisionBound
INVARIANTS TypeOK UnknownNeedsRecovery RowsAgree
PROPERTIES RevisionFence RecoveryNeedsProof SessionKept
CHECK_DEADLOCK FALSE
