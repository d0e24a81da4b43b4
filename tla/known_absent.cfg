SPECIFICATION FairSpec
CONSTANTS
  Presentations = {p1}
  Slots = {s1, s2}
  Nil = none
  Failures = {}
PROPERTIES KnownAbsentIsResolved
CHECK_DEADLOCK FALSE
