SPECIFICATION Spec
CONSTANTS
  a = a
  b = b
  c = c
  None = None
  Names = {a, b, c}
  Lengths = {2, 4}
  MaxFields = 2
  MaxIndexes = 1
  MaxSegments = 2
  Legacy <- MCLegacy
INVARIANTS
  TypeOK
  NamesAreFound
  SetBytesFit
