SPECIFICATION LiveSpec
CONSTANTS
  deploy = deploy
  install = install
  NoOne = NoOne
  Migrators <- Both
  Deployers <- OnlyDeploy
  Starters <- Both
  Release = 2
  Rebuilding = {2}
  Keep = 2
  MaxFaults = 1
INVARIANTS PrefixApplied DataKept ServesItsData
PROPERTIES Recovers
CHECK_DEADLOCK FALSE
