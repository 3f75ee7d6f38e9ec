CONSTANTS
    Children = {c1, c2}
    Handler = handler
    Observers = {reaper}
    Interleaved = {FALSE}
    Watched = {TRUE}
SPECIFICATION Spec
PROPERTIES
    KeepsPromise
