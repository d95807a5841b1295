SPECIFICATION MCSpec
CONSTANTS
  NAxes = 1
  MaxPos = 1
  MaxSpeed = 1
  DeadBand = 0
  Commands = {"PositionOneAck"}
  Prescale = 1
  WatchdogLoad = 3
  CounterSize = 5
  ProgramR1 = 2
  ProgramR3 = 1
  MaxPatience = 0
  Scenarios <- MCReach
PROPERTIES
  AckAfterReach
