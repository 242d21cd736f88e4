SPECIFICATION Spec
CONSTANTS
  w1 = w1
  w2 = w2
  jA = jA
  jB = jB
  e1 = e1
  NoOne = NoOne
  Workers = {w1, w2}
  JobIds = {jA, jB}
  Equipment = {e1}
  EquipmentOf <- OneEquipment
  MethodOf <- SshAndFtp
  Periods = 1
  RunTimeout = 1
  ConfiguredTTL = 1
  OpTimeout = 1
  MaxRuns = 2
  MaxCrashes = 1
  MaxEdits = 0
INVARIANTS EquipmentExclusion SuccessIsBacked
SYMMETRY WorkerSymmetry
