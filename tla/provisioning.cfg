SPECIFICATION FairSpec
CONSTANTS
    None = None
    Directory = Directory
    Foreign = Foreign
    t1 = t1
    t2 = t2
    p1 = p1
    p2 = p2
    s1 = s1
    s2 = s2
    Names <- MCNames
    Texts = {t1, t2}
    Passwords = {p1}
    MaxFaults = 0
    Objects <- UserObjects
    KindOf <- UserKinds
    Specs <- UserSpecs
    Directories <- Anyhow
    SecretRefs = {s1}
    MaxLag = 1
    MaxDepth = 3
    MaxEvents = 8
    Limits <- provisioning
INVARIANTS
    TypeOK
    NeverFailed
    NeverPanics
PROPERTIES
    Provisioned
CHECK_DEADLOCK FALSE
