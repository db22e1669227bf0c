\* Three records, two indexes, six searches; other processes insert and delete at any time.
SPECIFICATION FairSpec
CONSTANTS
  main = main
  back = back
  Zero = main
  short = short
  None = None
  Places <- MCPlaces
  Fields <- MCFields
  Values <- MCValues
  Content <- MCContent
  Indexes <- MCIndexes
  Parts <- MCParts
  Filters <- MCFilters
  Admits <- MCAdmits
  Searches <- MCSearches
INVARIANTS
  TypeOK
  TraversalOrdered
PROPERTIES
  FindsTarget
  SetIsAsked
  TraversalComplete
  EachTraverses
  EachEnds
