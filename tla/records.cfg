\* Two requests at a time, two users with two symbols of two columns, two rows at a time.
CONSTANTS
    None = None
    Threads = {t1, t2}
    Users = {alice, bob}
    Keys = {k, l}
    Columns = {name, price}
    Values = {v1, v2}
    Ids = {i1, i2}
SPECIFICATION Spec
SYMMETRY Symmetry
INVARIANTS
    OneRowPerKey
    DeletedMeansAbsent
    AloneRequestSucceeds
PROPERTIES
    ImplementsRecordMap
