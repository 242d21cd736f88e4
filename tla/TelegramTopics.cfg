SPECIFICATION Spec
CONSTANTS
  timer = timer
  cli = cli
  web = web
  console = console
  first = first
  second = second
  NoOne = NoOne
  Processes <- TimerAndCli
  Locking <- OnlyTimer
  Clients <- WebAndConsole
  MaxItems = 2
  Backups <- OnlyFirst
  BackupOf <- TwoTopics
  MaxAttempts = 1
  Limit = 2
  MaxFaults = 1
  MaxRequests = 3
SYMMETRY Alike
INVARIANTS AttemptsExplained
PROPERTIES LeaseRespected Delivers
CHECK_DEADLOCK FALSE
