CONSTANTS
  Pid = {p1}
  p1 = p1
  NONE = NONE
  Others = 1
SPECIFICATION Spec
INVARIANT Undisturbed
