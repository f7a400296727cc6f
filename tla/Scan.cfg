CONSTANTS
  Lists <- SmallLists
  PollErrors = 1
  AnswerErrors = 1
  Failures = 1
  WriteErrors = 1
  ReadErrors = 1
  EmptyReads = 1
SPECIFICATION FairSpec
INVARIANTS TypeOK StandsStill AnswersAreTrue DumpComplete
PROPERTIES StopIsAnswered ScanEnds
CHECK_DEADLOCK FALSE
