CONSTANTS
  Addr = {a1, a2}
  a1 = a1
  a2 = a2
  NULL = NULL
  MaxBytes = 2
  PathBytes = 1
  NeedBytes = 2
  SeekErrors = 1
  PollErrors = 1
  WriteErrors = 1
SPECIFICATION FairSpec
INVARIANTS PipesBounded
PROPERTIES EveryCallReturns ScriptEndEndsGasp
