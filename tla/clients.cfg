SPECIFICATION Spec
CONSTANTS
    None = None
    t1 = t1
    p1 = p1
    p2 = p2
    Targets <- MCFork
    Names <- MCNames
    Texts = {t1}
    Passwords = {p1, p2}
    MaxFaults = 2
INVARIANTS
    ClientTypeOK
    UpsertConverged
    DeletedSubtreeGone
PROPERTIES
    CallReturns
