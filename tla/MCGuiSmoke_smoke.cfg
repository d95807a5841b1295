SPECIFICATION SmokeSpec
CONSTANTS
  NAxes = 2
  MaxPot = 20
  Home = 10
  Step = 1
  KEYS <- MCKeys
  Scenario <- MCScenario
  FinishTicks = 8
  Readings <- MCReadings
  Pressers = {1, 2}
  Builds = {"modules"}
  MaxKeys = 0
  MaxFaults = 0
INVARIANT SmokeSucceeds
CHECK_DEADLOCK FALSE
