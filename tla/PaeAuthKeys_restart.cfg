\* Crashes, torn writes of the storage file, stops and restarts; revocations with a random and with a given key, and lifetimes cut for the frame counters.
SPECIFICATION Spec
CONSTANTS
    k1 = k1
    k2 = k2
    k3 = k3
    k4 = k4
    k5 = k5
    k6 = k6
    GTK_NUM = 3
    LGTK_NUM = 3
    Keys = {k1, k2, k3, k4}
    NoKey = NoKey
    Kinds <- GtkOnly
    ExpireOffset = 2
    NewActTime = 2
    NewInstallReq = 40
    RevocatLifetimeReduct = 2
    Forced <- NoneForced
    DbusCalls = {"revoke", "revokeWith", "active"}
    FrameCntCheck = TRUE
    FrameCntTimer = 1
    PanConfigDelay = 0
    TornWrites = TRUE
    MaxDowntime = 2
    MaxRestarts = 1
    MaxLifetime = 3
SYMMETRY KeySymmetry
INVARIANTS InstallOrderDistinct SingleActive MacInSync  LifetimesSaved
