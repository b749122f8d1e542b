SPECIFICATION Spec
CONSTANTS
    HttpStatuses = {404}
    MappedExits = {0, 50}
    MaxOptions = 3
    Catalog <- MCCatalog
    Settings <- MCSettings
    Paths = {"a", "b"}
    MaxLines = 2
    MaxAttempts = 2
CHECK_DEADLOCK FALSE
INVARIANTS
    TypeOK QuietWins FormatAsGiven ChangedMeansReported OneDocument SubmittedOnce
    BatchAsWritten ClientsHaveLogins  CancelledAreListed
