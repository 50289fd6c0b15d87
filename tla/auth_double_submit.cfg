\* Two threads submit the same reset link.
CONSTANTS
    a = a
    aUpper = aUpper
    b = b
    None = None
    Threads = {t1, t2}
    Spellings <- OneUser
    Norm <- OneUserNorm
    Passwords = {p}
    TokenIds = {k1, k2}
    VerifyTTL = 2
    ResetTTL = 1
    JwtTTL = 1
    MaxTime = 0
SPECIFICATION Spec
SYMMETRY Symmetry
INVARIANTS
    SingleUse
