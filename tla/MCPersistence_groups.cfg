\* Numbering over two groups.
CONSTANTS
  a = a
  b = b
  Clients = {c1, c2}
  Slots = {s1, s2, s3}
  Groups <- TwoGroups
  MaxSeq = 3
  Data = {a, b}
  Increment = TRUE
  NewAttribs <- GroupAttribs
  Assignments <- NoAssignments
  Nil = Nil
  Clean = Clean
  None = None
SPECIFICATION Spec
SYMMETRY Symmetry
INVARIANT FreshNumber
