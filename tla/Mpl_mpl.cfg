\* The border router and another seed, room for five units, sequence numbers
\* that wrap after the first message.
SPECIFICATION Spec
CONSTANTS
    Seeds = {br, x}
    Own = br
    Mod = 8
    First = 6
    Size <- MCSize
    Reports <- MCReports
    MaxBuffered = 5
    Proactive = TRUE
    Data <- MCData
    Lifetime = 2
    AgeLimit = 1
    MaxSent = 3
    MaxHeard = 4
    TimeMax = 255
    Infinite = 255
INVARIANTS TypeOK AtMostOnce Ordered Accounted TimerArmed
CHECK_DEADLOCK FALSE
