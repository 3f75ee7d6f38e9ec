CONSTANTS
    Jobs = {j1, j2, j3}
    Keys = {k1, k2, k3}
    Rules = {r1, r2}
    Controllers = {c1, c2, c3}
    Digests = {d1}
    MAX_OPERATIONS = 2
    MAX_ACTIVATION_PROOFS = 2
    MaxRecords = 4
SPECIFICATION Spec
SYMMETRY Symmetry
INVARIANT RegistrySound
CHECK_DEADLOCK TRUE
