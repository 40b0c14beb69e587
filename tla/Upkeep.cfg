SPECIFICATION Spec
CONSTANTS
    r1 = r1
    r2 = r2
    r3 = r3
    mA = mA
    mB = mB
    src = src
    t1 = t1
    t2 = t2
    t3 = t3
    g = g
    h = h
    Rules = {r1, r2, r3}
    Modules = {mA, mB}
    Batches = {src}
    Uploads = {mB}
    Names = {src, mA, mB}
    Terms = {t1, t2, t3}
    Groups = {g, h}
    Ids = {i1, i2, i3, i4}
    i1 = i1
    i2 = i2
    i3 = i3
    i4 = i4
    Ai = {a1, a2}
    a1 = a1
    a2 = a2
    Hand = {h1}
    h1 = h1
    Slots = {s1, s2}
    s1 = s1
    s2 = s2
    None = None
    MaxSessions = 2
    MaxLosses = 1
    GroupOf <- MCGroupOf
    Homes <- MCHomes
    Clash <- MCClash
    Brings <- MCBrings
    Code <- MCCode
    Said <- MCSaid
SYMMETRY UpkeepSymmetry
CHECK_DEADLOCK FALSE
INVARIANTS
    TypeOK
    ConflictsExact
    GlossaryExact
    PagesExact
    LabelsTrue
PROPERTIES
    ScansRespectPeople
    DecisionsSurvive
