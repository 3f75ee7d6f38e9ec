CONSTANTS
    Leaves = {l1, l2}
    Parents = {p}
    None = None
    Children = {c1, c2}
    Handler = handler
    Observers = {reaper}
    Interleaved = {TRUE, FALSE}
    Watched = {TRUE, FALSE}
SPECIFICATION MCSpec
INVARIANT ShutdownSound
PROPERTIES ShutdownReturns EventuallySealed
CHECK_DEADLOCK FALSE
