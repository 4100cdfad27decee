\* Two slots, three group keys, any two faults.
SPECIFICATION FairSpec
CONSTANTS
    Slots = {0, 1}
    LongLifetime = TRUE
    CntLimit = 60000
    CntMask = 65535
    MaxGtk = 3
    MaxTries = 2
    MaxFaults = 2
INVARIANTS TypeOK PtkAgreed InstalledOnce GroupKeyProtected RevokedStaysOut
PROPERTIES NoSelfDelete EventuallyKeyed
CHECK_DEADLOCK FALSE
