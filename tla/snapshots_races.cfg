\* Two requests at a time, three uploads of two days, downloads, lost connections.
CONSTANTS
    None = None
    full = full
    wider = wider
    empty = empty
    Threads = {t1, t2}
    Keys = {1, 2}
    Bodies = {full, wider, empty}
    NoItems = {empty}
    Columns <- HeaderColumns
    Value <- HeaderValue
    MaxUploads = 3
SPECIFICATION FairSpec
INVARIANTS
    UploadAloneReplaces
    RacesLoseNothing
    HeaderOfTheRace
PROPERTIES
    WorkbookIsOneUpload
    UploadsEnd
