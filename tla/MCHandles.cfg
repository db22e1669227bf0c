\* One program, two sessions, tables and records, one file: no symmetry, as
\* liveness is checked.  A process that has exited stops.
SPECIFICATION FairSpec
CONSTANTS
  dir = dir
  one = one
  None = None
  Sessions <- MCSessions
  Tables <- MCTables
  Records <- MCRecords
  Paths <- MCPaths
  Names <- MCNames
INVARIANTS
  TypeOK
  QueriesUsable
  HandsOutOpen
  ServerIsOwned
PROPERTY
  ExitReleases
CHECK_DEADLOCK FALSE
