SPECIFICATION FairSpec
CONSTANTS
    None = None
    i1 = i1
    i2 = i2
    v1 = v1
    v2 = v2
    Specs <- MCSpecs
    Passwords = {p1, p2}
    Limits <- lifetime
    MaxEvents = 3
INVARIANTS
    TypeOK
    PasswordMatches
    RestsReady
    NewestSpecWins
PROPERTIES
    BecomesReady
    CleansUp
CHECK_DEADLOCK FALSE
