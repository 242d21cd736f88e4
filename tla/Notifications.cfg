SPECIFICATION LiveSpec
CONSTANTS
  b1 = b1
  b2 = b2
  c1 = c1
  Test = Test
  Summary = Summary
  Worker = Worker
  Cli = Cli
  NoOne = NoOne
  MaxEvents = 3
  MaxPlaces = 2
  Keys <- AtAPlace
  KeyOf <- Repeated
  Watched <- OneCondition
  ScanLimit = 2
  Limit = 2
  MaxAttempts = 2
  MaxRows = 2
  Scenes <- EachAlone
  MaxLosses = 1
INVARIANTS EventsToldOnce LastWord
PROPERTIES AlertsReach
