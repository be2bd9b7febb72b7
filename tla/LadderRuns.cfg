SPECIFICATION Spec
CONSTANTS
  Units <- AllUnits
  Labels <- AllLabels
  ModelOf <- Models
  Asks <- Lines
  MaxRetries = 2
  MaxLaunches = 2
  MaxFaults = 2
INVARIANTS OkIsScored CardHonest EscalationEvidence
PROPERTIES CellsKept LadderEnds
CHECK_DEADLOCK FALSE
