SPECIFICATION MCSpec
CONSTANTS
  NAxes = 1
  MaxPos = 2
  MaxSpeed = 2
  DeadBand = 1
  MaxCommands = 3
INVARIANTS
  ServoTypeOK
  RampLeadsToTarget
PROPERTIES
  MoveContractHolds
  MovesEnd
