\* Two threads, two spellings of one address, three links of both purposes; the clock stands still.
CONSTANTS
    a = a
    aUpper = aUpper
    b = b
    None = None
    Threads = {t1, t2}
    Spellings <- TwoSpellings
    Norm <- TwoSpellingsNorm
    Passwords = {p}
    TokenIds = {k1, k2, k3}
    VerifyTTL = 2
    ResetTTL = 1
    JwtTTL = 1
    MaxTime = 0
SPECIFICATION UntimedSpec
SYMMETRY Symmetry
INVARIANTS
    OneAccountPerAddress
    VerifiedMeansMailedLink
    SessionsDie
    OlderLinksDead
    LiveLinksBounded
PROPERTIES
    AccountChangesOnlyByReset
    ImplementsSessions
