SPECIFICATION RuntimeSpec
CONSTANTS
  Sessions = {s1}
  NoSession = none
  Actors = {a1, a2}
  Failures = {}
  MaxGen = 3
  MaxRev = 6
INVARIANTS OneProvider
SYMMETRY Symmetry
CHECK_DEADLOCK FALSE
