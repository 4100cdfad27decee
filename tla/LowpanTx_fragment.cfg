\* The same, for the flag of the fragmenter alone.
SPECIFICATION Spec
CONSTANTS
    a = a
    b = b
    pa = pa
    pb = pb
    pe = pe
    pm = pm
    Packet = {pa, pb, pe, pm}
    Neighbour = {a, b}
    Broadcast = all
    To <- MCTo
    Priority <- MCPriority
    Frames <- MCFrames
    UnicastMax = 2
    LlcMax = 2
    RcpDrops = TRUE
    Async = {"PA"}
    MaxPending = 1
    MaxLfn = 1
INVARIANT FragmentedTxActive
