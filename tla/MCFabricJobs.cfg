SPECIFICATION MCSpec
CONSTANTS
    p1 = p1
    s1 = s1
    Switches = {p1, s1}
    Configs = {"c0", "c1", "c2"}
    Links = {"joint", "split", "down"}
    Plans <- MCPlans
    Found <- MCFound
    MaxJobs = 2
    MaxEvents = 1
    FabricSwitches = {f1, f2}
    FabricJobs = 2
    MaxFaults = 2
SYMMETRY Symmetry
INVARIANTS ProofIsTrue RestoredUnlessReported
PROPERTIES HandsOverInOrder LinksMoveUnderStop CompletedIsLive
CHECK_DEADLOCK FALSE
