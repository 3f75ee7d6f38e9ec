SPECIFICATION MCSpec
CONSTANTS
    MaxJobs = 4
    MaxUploads = 2
    Registered = {TRUE, FALSE}
    MaxUnreadable = 3
    Faults = {"crash", "lost_answer"}
    None = None
    PollTimeout = 2
    ErrorTimeout = 1
    Attempts = 2
    FPGA_0 = FPGA_0
    FPGA_1 = FPGA_1
    HMC = HMC
    ConfirmRetries = 5
    MaxPolls = 2
    RecoveryJobs = 3
INVARIANTS Accounted SettledIsHeld EarlierStagesRun NoCycleUnderPush
PROPERTIES UnchangedUnderTask CancelStopsWrites WorkerEnds RecoveredIsHealthy FlowEnds
CHECK_DEADLOCK FALSE
