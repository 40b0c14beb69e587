SPECIFICATION Spec
CONSTANTS
    Sources = {s1}
    GithubSources = {s1}
    Slots = {j1}
    JobTimeout = 1
    Grace = 1
    MaxRequests = 1
    MaxCrashes = 0
    s1 = s1
    j1 = j1
CHECK_DEADLOCK FALSE
PROPERTY
    ErrorsAreRecorded
