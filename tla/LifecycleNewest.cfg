SPECIFICATION Spec
CONSTANTS
  timer = timer
  cli = cli
  f1 = f1
  NoOne = NoOne
  Web = Web
  Saver = Saver
  Runners = {timer}
  MaxBackups = 2
  Rejected = {f1}
  MaxCount = 1
  MaxAge = 0
  TrashRetention = 1
  RejectedRetention = 1
  MaxRequests = 1
  MaxCrashes = 0
  MaxRot = 0
PROPERTIES NewestStay
