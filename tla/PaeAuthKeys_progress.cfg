\* Liveness: both key sets rotate for ever while the daemon runs.
SPECIFICATION FairSpec
CONSTANTS
    k1 = k1
    k2 = k2
    k3 = k3
    k4 = k4
    k5 = k5
    k6 = k6
    GTK_NUM = 3
    LGTK_NUM = 2
    Keys = {k1, k2, k3, k4, k5}
    NoKey = NoKey
    Kinds <- BothKinds
    ExpireOffset = 5
    NewActTime = 2
    NewInstallReq = 40
    RevocatLifetimeReduct = 2
    Forced <- NoneForced
    DbusCalls = {}
    FrameCntCheck = TRUE
    FrameCntTimer = 3
    PanConfigDelay = 0
    TornWrites = FALSE
    MaxDowntime = 0
    MaxRestarts = 0
    MaxLifetime = 20
PROPERTIES Rotates
