SPECIFICATION Spec
CONSTANTS
    NumFiles = 2
    Logic = {1, 2}
    Outcomes = {"succeeded", "expired"}
    Modes = {"batch"}
    FetchFails = FALSE
    PushAnytime = FALSE
    ButtonOnly = TRUE
    MaxPushes = 0
    MaxJobs = 1
CHECK_DEADLOCK FALSE
INVARIANT FailedStayInWindow
