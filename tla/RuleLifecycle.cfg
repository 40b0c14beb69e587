SPECIFICATION Spec
CONSTANTS
    Rules = {r1, r2}
    Titles = {t1, t2}
    Texts = {d1, d2}
    Users = {u1, u2}
    Slots = {s1, s2}
    Settable = {"needs_update"}
    MaxRequests = 4
    None = None
    r1 = r1
    r2 = r2
    t1 = t1
    t2 = t2
    d1 = d1
    d2 = d2
    u1 = u1
    u2 = u2
    s1 = s1
    s2 = s2
SYMMETRY LifecycleSymmetry
CHECK_DEADLOCK FALSE
INVARIANTS
    TypeOK
    LineageHasPolicy
    StatusIsExplained
    NoticesAreTrue
PROPERTIES
    PolicyChangesAreSigned
