SPECIFICATION RuntimeSpec
CONSTANTS
  Sessions = {s1}
  NoSession = none
  Actors = {a1, a2}
  Failures = {}
  MaxGen = 2
  MaxRev = 5
PROPERTIES ArchiveHidesNothing
SYMMETRY Symmetry
CHECK_DEADLOCK FALSE
