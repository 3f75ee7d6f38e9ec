CONSTANTS
    j1 = j1
    j2 = j2
    j3 = j3
    s1 = s1
    s2 = s2
    s3 = s3
    n1 = n1
    n2 = n2
    n3 = n3
    Rule = rule
    MAX_OPERATIONS = 2
    MAX_ACTIVATION_PROOFS = 3
    MaxRecords = 4
    Builds = {A, B}
    None = None
    ImageJobs = 3
CONSTANT Jobs <- MCJobs
CONSTANT Switches <- MCSwitches
CONSTANT Label <- MCLabel
CONSTANT MutationScopes <- MCMutationScopes
CONSTANT Plans <- MCPlans
SYMMETRY Symmetry
SPECIFICATION MCSpec
INVARIANTS
    OwnersOnly
    VerifiedIsProven
PROPERTIES
    CompletedRunsTarget
    ResetProven
    CancelEndsWithStage
CHECK_DEADLOCK FALSE
