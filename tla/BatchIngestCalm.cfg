SPECIFICATION Spec
CONSTANTS
    NumFiles = 3
    Logic = {1, 3}
    Outcomes = {"succeeded", "errored"}
    Modes = {"batch"}
    FetchFails = FALSE
    PushAnytime = FALSE
    ButtonOnly = TRUE
    MaxPushes = 2
    MaxJobs = 4
CHECK_DEADLOCK FALSE
INVARIANTS ShaVouches DoneMeansStored FailedStayInWindow TalliesAreTotals
PROPERTY KeepsInSync
