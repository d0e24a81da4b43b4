SPECIFICATION PersistentSpec
CONSTANTS
  Sessions = {s1}
  NoSession = none
  Actors = {a1}
  Failures = {"crash", "barrier_timeout"}
  MaxGen = 2
  MaxRev = 4
PROPERTIES PreparedIsReconciled
CHECK_DEADLOCK FALSE
