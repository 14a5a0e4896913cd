CHECK_DEADLOCK FALSE
SPECIFICATION Spec
CONSTANTS
  Dialects <- Both
  Worlds <- SixWorlds
  Stops <- SomeStops
PROPERTIES
  UpgradesKeepRows
