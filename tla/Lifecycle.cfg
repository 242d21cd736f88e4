SPECIFICATION LiveSpec
CONSTANTS
  timer = timer
  cli = cli
  f1 = f1
  NoOne = NoOne
  Web = Web
  Saver = Saver
  Runners = {timer, cli}
  MaxBackups = 2
  Rejected = {f1}
  MaxCount = 1
  MaxAge = 1
  TrashRetention = 1
  RejectedRetention = 1
  MaxRequests = 1
  MaxCrashes = 1
  MaxRot = 1
INVARIANTS NoBackupLost
PROPERTIES UnlinkedOnlyFromTrash RetentionRespectsPolicy ExpiredEventuallyLeaves
