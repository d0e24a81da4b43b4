SPECIFICATION HostSpec
CONSTANTS
  Processes = {p1, p2}
  Hosts = {h1, h2}
  Nil = none
  Crashes = TRUE
  Creators = {c1, c2}
  LastGeneration = 2
  Kills = TRUE
  Actors = {a1, a2}
  Solo = a1
  Launches = 2
  Turns = 2
  Failures = TRUE
  Terminals = {t1, t2}
  Directories = {d1, d2}
  NoDirectory = nowhere
  OnlyOne = d1
  Mishaps = TRUE
  Cards = {w1, w2}
  Keys = {k1}
  Navigator = nav
  Nobody = nobody
  Attempts = 2
  Refusals = TRUE
  LastPid = 3
  Stops = 2
  Parties = {q1, q2}
  Executables = {x1, x2}
  Undeclared = undeclared
  Operations = 4
  Reviewed = x1
  Reviewers = {r1, r2}
  Closer = closer
  Lone = r1
  LastHook = 3
  LastMember = 3
  Obstructed = TRUE
INVARIANTS HostTypeOK RootIsSound PostsOnce AbandonedIsFenced SettlesOnce ReadyIsSupervised LeftInOrder ShownIsRecorded StopIsExact ProfileIsReviewed ReviewIsTidy MarkerIsSound CommandIsContained
PROPERTIES FirstStartSettles RootPromised ServerEndsWithLease ObserversEnd AttemptsSettle
CHECK_DEADLOCK FALSE
