SPECIFICATION Spec
CONSTANTS
    Sources = {s1}
    GithubSources = {s1}
    Slots = {j1, j2}
    JobTimeout = 2
    Grace = 0
    MaxRequests = 3
    MaxCrashes = 0
    s1 = s1
    j1 = j1
    j2 = j2
SYMMETRY SlotSymmetry
CHECK_DEADLOCK FALSE
INVARIANTS
    TypeOK
    LiveRunNotStale
    SweepSparesFreshRun
PROPERTIES
    SweepKeepsFreshRuns
