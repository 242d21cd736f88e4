SPECIFICATION LiveSpec
CONSTANTS
  timer = timer
  cli = cli
  web = web
  console = console
  first = first
  second = second
  NoOne = NoOne
  Processes <- TimerAndCli
  Locking <- OnlyTimer
  Clients <- OnlyWeb
  MaxItems = 2
  Backups <- TwoBackups
  BackupOf <- OneTopic
  MaxAttempts = 1
  Limit = 2
  MaxFaults = 1
  MaxRequests = 1
INVARIANTS AttemptsExplained
PROPERTIES LeaseRespected QueueDrains Delivers
CHECK_DEADLOCK FALSE
