CONSTANTS
  Pid = {p1, p2}
  p1 = p1
  p2 = p2
  NONE = NONE
  Others = 1
  Lists <- ShortLists
  PollErrors = 1
  AnswerErrors = 1
  Failures = 1
  WriteErrors = 0
SPECIFICATION FairTargetSpec
INVARIANTS NobodyStopped
PROPERTIES GetsOut
CHECK_DEADLOCK FALSE
