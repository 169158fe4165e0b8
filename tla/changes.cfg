SPECIFICATION Spec
CONSTANTS
    None = None
    Directory = Directory
    Foreign = Foreign
    t1 = t1
    t2 = t2
    p1 = p1
    p2 = p2
    s1 = s1
    s2 = s2
    Names <- MCNames
    Texts = {t1, t2}
    Passwords = {p1, p2}
    MaxFaults = 0
    Objects <- SoloUser
    KindOf <- SoloUserKinds
    Specs <- ChangedSpecs
    Directories <- Up
    SecretRefs = {s1, s2}
    MaxLag = 2
    MaxDepth = 3
    MaxEvents = 5
    Limits <- changes
SYMMETRY Interchangeable
INVARIANTS
    PinnedByFinalizer
    EntriesTraced
    ReadyMeansConverged
CHECK_DEADLOCK FALSE
