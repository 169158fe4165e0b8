SPECIFICATION Spec
CONSTANTS
    None = None
    i1 = i1
    i2 = i2
    v1 = v1
    v2 = v2
    Specs <- MCSpecs
    Passwords = {p1, p2}
    Limits <- unready
    MaxEvents = 2
INVARIANTS
    PhaseIsCurrent
CHECK_DEADLOCK FALSE
