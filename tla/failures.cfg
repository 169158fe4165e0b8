SPECIFICATION Spec
CONSTANTS
    None = None
    Directory = Directory
    Foreign = Foreign
    t1 = t1
    t2 = t2
    p1 = p1
    p2 = p2
    s1 = s1
    s2 = s2
    Names <- MCNames
    Texts = {t1, t2}
    Passwords = {}
    MaxFaults = 1
    Objects <- GroupObjects
    KindOf <- GroupKinds
    Specs <- StraySpecs
    Directories <- Up
    SecretRefs = {}
    MaxLag = 1
    MaxDepth = 3
    MaxEvents = 4
    Limits <- failures
INVARIANTS
    ReadyHasEntry
    EntriesClaimed
PROPERTIES
    EntriesOwned
CHECK_DEADLOCK FALSE
