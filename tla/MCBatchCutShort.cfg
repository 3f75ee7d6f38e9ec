CONSTANTS
    Children = {c1, c2}
    Handler = handler
    Observers = {}
    Interleaved = {TRUE}
    Watched = {TRUE}
SPECIFICATION Spec
INVARIANTS
    AdmissionStaysOpen
CHECK_DEADLOCK FALSE
