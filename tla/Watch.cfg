CONSTANTS
  Pid = {p1, p2}
  p1 = p1
  p2 = p2
  NONE = NONE
  Watcher = {w1, w2, w3}
  w1 = w1
  w2 = w2
  w3 = w3
SPECIFICATION FairSpec
INVARIANTS TypeOK NoFalseExit WatchKept
PROPERTIES ExitIsNoticed TermEndsWatching
