SPECIFICATION Spec
CONSTANTS
    None = None
    t1 = t1
    p1 = p1
    p2 = p2
    Targets <- MCBranch
    Names <- MCNames
    Texts = {t1}
    Passwords = {p1}
    MaxFaults = 0
INVARIANTS
    PasswordOptional
