SPECIFICATION MCSpec
CONSTANTS
  NAxes = 1
  MaxPos = 1
  MaxSpeed = 1
  DeadBand = 0
  Commands = {"PositionAllAck", "MoveOne", "MoveAllAck",
              "ReadAll", "Enable", "Disable", "Readback", "Stop"}
  Prescale = 2
  WatchdogLoad = 2
  CounterSize = 5
  ProgramR1 = 0
  ProgramR3 = 1
  MaxPatience = 2
  Scenarios <- MCSafety
INVARIANTS TypeOK TransmitToken CutMeansOff PortsAsTheyShould
PROPERTIES WatchdogPatience AckAfterArrival
