SPECIFICATION LiveSpec
CONSTANTS
  timer = timer
  cli = cli
  backup = backup
  rsc = rsc
  plain = plain
  loose = loose
  good = good
  other = other
  bad = bad
  NoOne = NoOne
  Other = Other
  Importers <- OnlyTimer
  Artifacts <- Pair
  Exports <- OnlyExport
  Plain <- OnePlain
  Loose <- OneLoose
  Contents <- AllContents
  Bad <- OneBad
  MaxUploads = 2
  MaxRows = 3
  MaxFaults = 1
INVARIANTS BackupsHaveFiles SuccessIsComplete BothOrNeither
PROPERTIES UnlinkedOnlyIfStored TakenOrStranded
