SPECIFICATION Spec
CONSTANTS
    Sources = {s1}
    GithubSources = {s1}
    Slots = {j1, j2}
    JobTimeout = 1
    Grace = 1
    MaxRequests = 3
    MaxCrashes = 0
    s1 = s1
    j1 = j1
    j2 = j2
CHECK_DEADLOCK FALSE
PROPERTY
    SweepSparesLiveJob
