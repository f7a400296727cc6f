CONSTANTS
  Dump = {d1, d2}
  d1 = d1
  d2 = d2
  Fd = {f1, f2, f3, f4}
  f1 = f1
  f2 = f2
  f3 = f3
  f4 = f4
  NONE = NONE
  FREE = FREE
  TAKEN = TAKEN
  MaxLen = 2
SPECIFICATION Spec
SYMMETRY Symmetry
INVARIANTS TypeOK FieldsExact InStep
