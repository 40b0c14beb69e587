SPECIFICATION Spec
CONSTANTS
    NumFiles = 2
    Logic = {1, 2}
    Outcomes = {"succeeded", "errored"}
    Modes = {"batch"}
    FetchFails = FALSE
    PushAnytime = TRUE
    ButtonOnly = FALSE
    MaxPushes = 1
    MaxJobs = 2
CHECK_DEADLOCK FALSE
INVARIANT DoneMeansStored
