CONSTANTS
  Pid = {p1}
  p1 = p1
  NONE = NONE
  Others = 0
SPECIFICATION FairSpec
PROPERTY GlanceReturns
