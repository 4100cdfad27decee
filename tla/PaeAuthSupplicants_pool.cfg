\* Three supplicants, one place, two that may wait.
SPECIFICATION FairSpec
CONSTANTS
    Supp = {a, b, c}
    MinActive = 0
    MaxActive = 1
    WaitMax = 2
    AuthTicks = 1
    AfterTicks = 1
    RetryTicks = 2
    KmpTicks = 1
    EndTicks = 1
    MaxMsgs = 3
INVARIANTS TypeOK OneNegotiation KeyHeard
PROPERTIES PoolSpec WaitingLeaves
CHECK_DEADLOCK FALSE
