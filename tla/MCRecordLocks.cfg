\* Two processes, the first with two record handles, two rows, two nested blocks.
SPECIFICATION Spec
CONSTANTS
  a = a
  b = b
  a1 = a1
  a2 = a2
  b1 = b1
  r1 = r1
  r2 = r2
  None = None
  Clients <- MCClients
  Handles <- MCHandles
  Owner <- MCOwner
  Rows <- MCRows
  Visits <- MCVisits
  HandModes <- MCHandModes
  SessionModes <- MCSessionModes
  MaxDepth <- MCMaxDepth
INVARIANTS
  TypeOK
  BlocksExclude
  NothingLeft
  ReportsItsLock
PROPERTIES
  ImplementsRowLock
