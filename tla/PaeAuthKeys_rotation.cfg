\* One key set of four slots, its first key forced by the configuration, timers, D-Bus installs and revocations, no restart.
SPECIFICATION Spec
CONSTANTS
    k1 = k1
    k2 = k2
    k3 = k3
    k4 = k4
    k5 = k5
    k6 = k6
    GTK_NUM = 4
    LGTK_NUM = 3
    Keys = {k1, k2, k3, k4, k5, k6}
    NoKey = NoKey
    Kinds <- GtkOnly
    ExpireOffset = 6
    NewActTime = 2
    NewInstallReq = 40
    RevocatLifetimeReduct = 1
    Forced <- FirstForced
    DbusCalls = {"install", "revoke", "revokeWith"}
    FrameCntCheck = FALSE
    FrameCntTimer = 3
    PanConfigDelay = 1
    TornWrites = FALSE
    MaxDowntime = 0
    MaxRestarts = 0
    MaxLifetime = 20
SYMMETRY ForcedSymmetry
INVARIANTS TypeOK SendsWithActive SuccessorInstalled ExpireInOrder
PROPERTIES ActiveKeyStays
