\* Four days, two symbols, four price uploads before and during the requests.
CONSTANTS
    None = None
    Days = {1, 2, 3, 4}
    Symbols = {1, 2}
    Closes = {1, 2, 4}
    Screenings <- MCScreenings
    HeaderDays <- MCHeaderDays
    Questions <- MCQuestions
    Uploads <- MCUploads
    MaxUploads = 4
    Today = 4
    MaxRange = 3
    MAX_HORIZON = 3
    MAX_HORIZONS = 2
SPECIFICATION Spec
INVARIANTS
    QuietAnswersAreRight
    DetailIsTheBest
    OneUploadInventsNothing
    WarningsAreHonest
