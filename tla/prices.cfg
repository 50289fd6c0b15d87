\* Two uploads at a time of one day with two symbols, lost connections, any number of uploads.
CONSTANTS
    x = x
    y = y
    n = n
    Blank = Blank
    None = None
    Threads = {t1, t2}
    Symbols = {x, y}
    PkOrder <- MCPkOrder
    Names = {n}
    Closes = {1, 2}
    Volumes = {1}
    Bodies <- MCBodies
SPECIFICATION FairSpec
INVARIANTS
    TypeOK
    FailsOnlyInRaces
PROPERTIES
    BarOfTheRace
    CountsAreTrue
    ImplementsPriceTable
    UploadsEnd
