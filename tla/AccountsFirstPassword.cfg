SPECIFICATION AccountsSpec
CONSTANTS
  admin = admin
  maria = maria
  NoOne = NoOne
  Names = {admin, maria}
  Seeded = admin
  MaxRows = 1
  MaxSince = 1
INVARIANTS FirstPasswordEnds
CHECK_DEADLOCK FALSE
