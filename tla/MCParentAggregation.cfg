CONSTANTS
    Children = {c1, c2, c3}
    Handler = handler
    Observers = {reaper}
    Interleaved = {TRUE, FALSE}
    Watched = {TRUE, FALSE}
SPECIFICATION Spec
INVARIANT SealingSound
PROPERTY UnwatchedKeepsPromise
SYMMETRY Symmetry
