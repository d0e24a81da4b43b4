SPECIFICATION FairSpec
CONSTANTS
  Presentations = {p1, p2}
  Slots = {s1, s2}
  Nil = none
  Failures = {"crash", "torn_marker", "server_lost", "shell_exit", "provider_exit", "observer_fails"}
INVARIANTS TypeOK AtMostOneCandidate NothingIsOrphaned MarkerAgrees EffectsAreFenced RowAgrees
PROPERTIES PromotionKept CodexIsProven
CHECK_DEADLOCK FALSE
