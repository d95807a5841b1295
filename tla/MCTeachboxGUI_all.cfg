SPECIFICATION Spec
CONSTANTS
  NAxes = 2
  MaxPot = 3
  Home = 1
  Step = 2
  KEYS <- MCKeys
  Pressers = {1, 2}
  Builds = {"unavailable", "stock", "modules"}
  MaxKeys = 2
  Readings <- MCReadings
  MaxFaults = 1
INVARIANTS GuiTypeOK CacheIsTrue HeldKeyHasThread
PROPERTY FirmwareSeesPlant
CHECK_DEADLOCK FALSE
