\* Two uploads of one snapshot overlap.
CONSTANTS
    None = None
    full = full
    wider = wider
    empty = empty
    Threads = {t1, t2}
    Keys = {1}
    Bodies = {full, wider, empty}
    NoItems = {empty}
    Columns <- HeaderColumns
    Value <- HeaderValue
    MaxUploads = 3
SPECIFICATION Spec
INVARIANTS
    LastUploadReplaces
