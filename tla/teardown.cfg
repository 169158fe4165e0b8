SPECIFICATION OperatorSpec
CONSTANTS
    None = None
    Directory = Directory
    Foreign = Foreign
    t1 = t1
    i1 = i1
    v1 = v1
    Names = {"a"}
    Texts = {t1}
    Passwords = {}
    MaxFaults = 0
    Objects <- MCObjects
    KindOf <- MCKindOf
    Specs <- MCSpecs
    Directories = {None}
    SecretRefs = {}
    MaxLag = 1
    MaxDepth = 2
    MaxEvents = 1
    Limits <- MCLimits
    DirectorySpecs <- MCDirectorySpecs
    AdminPasswords = {p1, p2}
    DirectoryLimits <- teardown
    MaxDirectoryEvents = 2
PROPERTIES
    TornDown
CHECK_DEADLOCK FALSE
