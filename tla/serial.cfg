SPECIFICATION RuntimeSpec
CONSTANTS
  Sessions = {s1}
  NoSession = none
  Actors = {a1}
  Failures = {"crash", "server_lost", "provider_exit", "barrier_timeout", "survives_hangup"}
  MaxGen = 3
  MaxRev = 8
INVARIANTS LiveIsRecorded ParkedIsQuiet
PROPERTIES PromiseKept
CHECK_DEADLOCK FALSE
