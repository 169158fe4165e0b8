SPECIFICATION Spec
CONSTANTS
    None = None
    Directory = Directory
    Foreign = Foreign
    t1 = t1
    t2 = t2
    p1 = p1
    p2 = p2
    s1 = s1
    s2 = s2
    Names <- MCNames
    Texts = {t1, t2}
    Passwords = {p1}
    MaxFaults = 0
    Objects <- SoloUser
    KindOf <- SoloUserKinds
    Specs <- SoloUserSpecs
    Directories <- Up
    SecretRefs = {s1}
    MaxLag = 1
    MaxDepth = 3
    MaxEvents = 8
    Limits <- outage
INVARIANTS
    PendingNotUsable
CHECK_DEADLOCK FALSE
