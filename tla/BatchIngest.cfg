SPECIFICATION Spec
CONSTANTS
    NumFiles = 2
    Logic = {1, 2}
    Outcomes = {"succeeded", "garbled", "errored", "expired"}
    Modes = {"batch", "sequential"}
    FetchFails = TRUE
    PushAnytime = TRUE
    ButtonOnly = FALSE
    MaxPushes = 1
    MaxJobs = 3
CHECK_DEADLOCK FALSE
INVARIANT TypeOK
PROPERTIES DoneIsFinal RulesNeverGoBack
