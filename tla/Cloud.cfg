SPECIFICATION LiveSpec
CONSTANTS
  timer = timer
  cli = cli
  web = web
  Clients = {web, cli}
  b1 = b1
  b2 = b2
  NoOne = NoOne
  Processes = {timer}
  Locking = {timer}
  Backups = {b1, b2}
  MaxItems = 2
  MaxAttempts = 2
  RetryBase = 1
  MaxCrashes = 1
  MaxRequests = 3
  MaxEdits = 1
INVARIANTS SyncedIsUploaded
PROPERTIES CancelHolds QueuedEventuallySettles Delivers
