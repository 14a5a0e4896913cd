SPECIFICATION Spec
CONSTANTS
  Dialects <- Both
  Worlds <- SixWorlds
  Stops <- SomeStops
INVARIANTS
  VersionTellsState
  CommandsSucceed
PROPERTIES
  RowsAreKept
  CollisionsChangeNothing
CHECK_DEADLOCK FALSE
