SPECIFICATION FairSpec
CONSTANTS
  Modules <- MCModules
  Terms <- MCTerms
  Ids <- MCIds
  Owner <- MCOwner
  Found <- MCFound
  Segments <- MCSegments
  NoSegment = NoSegment
  MaxVisits = 3
  MaxTyped = 1
  MaxDeletes = 1
INVARIANTS GoneStaysGone SettledMatches PathsResolve
PROPERTY PagesSettle
CHECK_DEADLOCK FALSE
