SPECIFICATION Spec
CONSTANTS
  NAxes = 2
  MaxPot = 3
  Home = 1
  Step = 1
  SettleTicks = 2
  KEYS <- MCKeys
  Builds = {"no_ROM", "absent", "stock", "modules"}
  Targets <- MCTargets
  MaxTyped = 4
INVARIANTS CliTypeOK CommitIsTheEntry AdcShowsPlant ArmsNearTargets
CHECK_DEADLOCK FALSE
