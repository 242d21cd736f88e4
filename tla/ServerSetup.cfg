SPECIFICATION SetupSpec
CONSTANTS
    MaxAccounts = 3
    Room <- ThreeOneNone
    Devices = {d1}
    NoDevice = NoDevice
    Usernames = {u1, u2}
    Generated = Generated
    MaxFailures = 2
SYMMETRY Symmetry
INVARIANTS ServersAgree RollbackRestores SiteReturns
CHECK_DEADLOCK FALSE
