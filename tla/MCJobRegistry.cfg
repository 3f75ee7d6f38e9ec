CONSTANTS
    JobIds = {j1, j2, j3, j4}
    Guards = {g1}
    Nodes = {n1, n2}
    Devices = {d1}
    MAX_JOBS = 3
    TTL = 2
    None = None
SPECIFICATION Spec
SYMMETRY Symmetry
INVARIANTS
    ExclusionSound
    RetentionSound
