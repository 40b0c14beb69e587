SPECIFICATION Spec
CONSTANTS
    c1 = c1
    c2 = c2
    c3 = c3
    c4 = c4
    c5 = c5
    user = user
    talk = talk
    side = side
    model = model
    key = key
    Keys = {user}
    Callers = {c1, c2, c3, c4}
    KeyOf <- MCKeyOf
    Limit = 2
    Window = 4
    Slack = 1
    MaxDelay = 1
    MaxTime = 6
    Askers = {c1, c2, c3, c4, c5}
    Sessions = {talk, side}
    SessionOf <- MCSessionOf
    Remembered = 2
    Ids = {u1, u2}
    Usernames = {n1, n2}
    Roles = {o1, o2, o3}
    Admins = {a1, a2}
    SettingKeys <- MCSettingKeys
    Secret = {key}
    Values = {v1, v2}
    Mask = mask
    Desks = {d1, d2}
    Unset = Unset
    MaxRequests = 3
    MaxFailures = 1
    Rows <- MCRows
    TableOf <- MCTableOf
    Needs <- MCNeeds
    Transactions <- MCTransactions
    MaxResets = 1
    Readers = {n1, n2}
    Topics = {r1, r2}
    Tabs = {b1, b2}
    MaxErrands = 4
    MaxSignals = 2
SYMMETRY FrontSymmetry
CHECK_DEADLOCK FALSE
INVARIANTS
    TypeOK
    AtMostLimit
    RefusalsHaveCause
    CoherentHistory
    HistoryKept
    RolesExplained
    SettingsExplained
    ClearedIsClear
    RefusalsExplained
    SnapshotClosed
    ToldOnce
    ScoresAreMeans
