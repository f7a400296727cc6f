CONSTANTS
  Pid = {p1, p2}
  p1 = p1
  p2 = p2
  NONE = NONE
  Others = 2
SPECIFICATION FairSpec
INVARIANTS TypeOK NoLeakedTrace HeldStill LeftRunning
PROPERTIES GrabReturns
