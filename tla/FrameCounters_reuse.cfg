\* A GTK and an LGTK in use, and two restarts.  Increment exceeds what a store
\* may lag behind (threshold, one interval, one late answer).
SPECIFICATION Spec
CONSTANTS
    GtkNum = 2
    LgtkNum = 1
    Keys = {k1, k2}
    NoKey = NoKey
    MaxCounter = 12
    Increment = 4
    StoreThreshold = 1
    StoreInterval = 1
    ForceInterval = 3
    Rate = 1
    DbusActive = FALSE
    MaxUnderWay = 0
    MaxRestarts = 2
INVARIANT GtkCounterUnused
