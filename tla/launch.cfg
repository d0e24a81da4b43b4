SPECIFICATION FairSpec
CONSTANTS
  Sessions = {s1}
  NoSession = none
  Actors = {a1, a2}
  Failures = {"server_lost", "provider_exit", "barrier_timeout"}
  MaxGen = 2
  MaxRev = 3
PROPERTIES LaunchSettles
CHECK_DEADLOCK FALSE
