\* Two GTK slots and one LGTK slot, late answers, key changes, stops and crashes.
SPECIFICATION Spec
CONSTANTS
    GtkNum = 2
    LgtkNum = 1
    Keys = {k1, k2, k3}
    NoKey = NoKey
    MaxCounter = 5
    Increment = 2
    StoreThreshold = 1
    StoreInterval = 2
    ForceInterval = 3
    Rate = 1
    DbusActive = FALSE
    MaxUnderWay = 1
    MaxRestarts = 1
SYMMETRY KeySymmetry
INVARIANTS TypeOK StoredBeforeUse
PROPERTY CountersForward
