SPECIFICATION FairSpec
CONSTANTS
    None = None
    Directory = Directory
    Foreign = Foreign
    t1 = t1
    t2 = t2
    p1 = p1
    p2 = p2
    s1 = s1
    s2 = s2
    Names <- MCNames
    Texts = {t1, t2}
    Passwords = {}
    MaxFaults = 0
    Objects <- GroupObjects
    KindOf <- GroupKinds
    Specs <- GroupSpecs
    Directories <- Up
    SecretRefs = {}
    MaxLag = 1
    MaxDepth = 3
    MaxEvents = 8
    Limits <- deletion
INVARIANTS
    EntriesClaimed
PROPERTIES
    DeletionCompletes
CHECK_DEADLOCK FALSE
