SPECIFICATION HoldSpec
CONSTANTS
  MaxHolds = 3
  MaxTouches = 3
  MaxFaults = 3
INVARIANTS LinkIsOwn
PROPERTIES NoStaleRelease TouchHonoured
CHECK_DEADLOCK FALSE
