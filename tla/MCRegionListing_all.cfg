SPECIFICATION Spec
CONSTANTS
  Base = 8
  Parts = 2
  Table <- MCTable
  Org = 13
  MCLength = 5
  Regions <- MCRegions
INVARIANTS CutRegionFails RoundTrip
CHECK_DEADLOCK FALSE
