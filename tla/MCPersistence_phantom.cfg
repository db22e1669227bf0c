\* An instance of an empty table that calls itself persisted.
CONSTANTS
  a = a
  b = b
  Clients = {c1, c2}
  Slots = {s1, s2}
  Groups <- OneGroup
  MaxSeq = 2
  Data = {a, b}
  Increment = TRUE
  NewAttribs <- NumberedAttribs
  Assignments <- DataAssignments
  Nil = Nil
  Clean = Clean
  None = None
SPECIFICATION Spec
SYMMETRY Symmetry
PROPERTY FoundIsStored
