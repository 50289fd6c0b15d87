\* One account whose owner persists, two threads, and one failure of a request, a mail or the process.
CONSTANTS
    a = a
    None = None
    Threads = {t1, t2}
    Spellings <- OneUser
    Norm <- OneUserNorm
    Passwords = {p}
    TokenCount = 4
    TokenIds <- Tokens
    VerifyTTL = 1
    ResetTTL = 1
    JwtTTL = 1
    MaxTime = 1
    MaxFailures = 1
SPECIFICATION MCRecoverySpec
PROPERTIES
    LinksAreSpentOnce
    ResetsEndSessions
    NeverALockout
    ResetGetsThrough
CHECK_DEADLOCK FALSE
