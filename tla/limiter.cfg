\* Two threads that read the clock before they take the lock, two clients, forged headers.
CONSTANTS
    x = x
    y = y
    Blank = Blank
    None = None
    Threads = {t1, t2}
    Peers = {x, y}
    Proxy = proxy
    Unknown = unknown
    Headers <- MCHeaders
    Limit = 2
    Window = 4
    Widest = 5
    SweepInterval = 2
    TicksPerSecond = 2
    MaxLag = 1
    MaxTime = 6
SPECIFICATION Spec
SYMMETRY Symmetry
INVARIANTS
    WindowLimitUpToLag
    DequeBounded
    SweptKeysGone
PROPERTIES
    RetryHonoured
