SPECIFICATION LiveSpec
CONSTANTS
  w1 = w1
  w2 = w2
  jA = jA
  jB = jB
  e1 = e1
  NoOne = NoOne
  Workers = {w1}
  JobIds = {jA}
  Equipment = {e1}
  EquipmentOf <- OneJob
  MethodOf <- Ftp
  Periods = 1
  RunTimeout = 2
  ConfiguredTTL = 1
  OpTimeout = 1
  MaxRuns = 2
  MaxCrashes = 1
  MaxEdits = 1
INVARIANTS ExecutedAtMostOnce
PROPERTIES ResultsAreFinal RunningEventuallyEnds QueuedEventuallyStarts
