\* Two clients and two positions, one group.
CONSTANTS
  a = a
  b = b
  Clients = {c1, c2}
  Slots = {s1, s2}
  Groups <- OneGroup
  MaxSeq = 2
  Data = {a, b}
  Increment = TRUE
  NewAttribs <- RaceAttribs
  Assignments <- RaceAssignments
  Nil = Nil
  Clean = Clean
  None = None
SPECIFICATION Spec
SYMMETRY Symmetry
INVARIANTS
  TypeOK
  LockedInsideBlock
  StoredUntilUnlock
  ActsOnOwnRow
PROPERTIES
  OnlyOwnerChanges
  CreateOnlyAdds
  UpdateKeepsOtherFields
