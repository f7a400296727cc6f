CONSTANTS
  Addr = {a1, a2}
  a1 = a1
  a2 = a2
  NULL = NULL
  MaxBytes = 6
  EntrySizes = {1, 2}
  Numbers <- SomeNumbers
  MaxInt = 7
SPECIFICATION Spec
SYMMETRY Symmetry
INVARIANTS TypeOK EntriesExist RoomIsMade IndicesInside
