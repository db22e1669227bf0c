\* Termination of the calls (no symmetry).
CONSTANTS
  a = a
  b = b
  Clients = {c1, c2}
  Slots = {s1}
  Groups <- OneGroup
  MaxSeq = 1
  Data = {a, b}
  Increment = TRUE
  NewAttribs <- NumberedAttribs
  Assignments <- RaceAssignments
  Nil = Nil
  Clean = Clean
  None = None
SPECIFICATION FairSpec
PROPERTY CallsEnd
