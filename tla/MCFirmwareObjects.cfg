SPECIFICATION MCSpec
CONSTANTS
    Ids = {a}
    HwTypes = {x}
    Configs = {m1, m2}
    Metadata <- MCMetadata
    MaxCreated = 2
    MaxRequests = 4
    Artifacts = {fw}
    Required <- MCRequired
    None = None
    PgIds = {p, q}
    PgHwTypes = {y, z}
    PgConfigs = {k}
    PgMetadata = {m}
    PgCreated = 3
    Clients = {c1, c2}
    MaxApplied = 1
SYMMETRY Symmetry
INVARIANTS AvailableIsCached AppliesOwnArtifacts NoCircularWait
PROPERTY ImplementsStore
CHECK_DEADLOCK FALSE
