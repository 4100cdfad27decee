\* One crash while an old key is about to expire: the network ends without keys.
SPECIFICATION FairSpec
CONSTANTS
    k1 = k1
    k2 = k2
    k3 = k3
    k4 = k4
    k5 = k5
    k6 = k6
    GTK_NUM = 3
    LGTK_NUM = 3
    Keys = {k1, k2, k3}
    NoKey = NoKey
    Kinds <- GtkOnly
    ExpireOffset = 5
    NewActTime = 2
    NewInstallReq = 40
    RevocatLifetimeReduct = 2
    Forced <- NoneForced
    DbusCalls = {}
    FrameCntCheck = FALSE
    FrameCntTimer = 3
    PanConfigDelay = 1
    TornWrites = FALSE
    MaxDowntime = 0
    MaxRestarts = 1
    MaxLifetime = 20
PROPERTIES Rotates
