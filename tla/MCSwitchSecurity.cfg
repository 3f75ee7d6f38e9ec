SPECIFICATION MCSpec
CONSTANTS
    Handlers = {h1, h2}
    Attempts = 3
    MaxMaterial = 3
    MaxPasswords = 2
    MaxRevision = 2
    Limit = 2
    MaxRun = 2
    Foreign = {f1}
    MaxRuns = 3
    None = None
SYMMETRY Symmetry
INVARIANTS
    RegisteredVerified
    BoundEntriesPresent
    KeyAccountedFor
    CompletedMatches
    RoomForImport
    CompletedIsInsecure
    NotAttemptedUntouched
PROPERTIES
    CredentialsKept
    RegisteredFollowsInstall
CHECK_DEADLOCK FALSE
