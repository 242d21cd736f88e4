SPECIFICATION Spec
CONSTANTS
    Format = {"backup", "rsc"}
    MaxRuns = 2
    MaxTests = 2
    MaxRequests = 2
    MaxFaults = 1
INVARIANT ConfirmedIsNew
PROPERTY UndisturbedHolds TestsEnd
CHECK_DEADLOCK FALSE
