CONSTANTS
  Addr = {a1, a2, a3}
  a1 = a1
  a2 = a2
  a3 = a3
  NULL = NULL
  MaxBytes = 3
  PathBytes = 1
  NeedBytes = 2
  SeekErrors = 0
  PollErrors = 1
  WriteErrors = 1
SPECIFICATION Spec
SYMMETRY Symmetry
INVARIANTS TypeOK OwnershipExact OneRequest NoCrash NothingLeftBehind ObjectAlive
PROPERTIES ImplementsAllocator
