SPECIFICATION FairSpec
CONSTANTS
    Sources = {s1, s2}
    GithubSources = {s1}
    Slots = {j1, j2}
    JobTimeout = 1
    Grace = 1
    MaxRequests = 2
    MaxCrashes = 1
    s1 = s1
    s2 = s2
    j1 = j1
    j2 = j2
CHECK_DEADLOCK FALSE
PROPERTY
    NoStuckIngesting
