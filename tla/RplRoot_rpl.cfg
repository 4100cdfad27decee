\* Three nodes, DAOs with one or two parents.
SPECIFICATION Spec
CONSTANTS
    Node = {a, b, c}
    Root = r
    Transits <- MCTransits
    Seqs = {2, 5}
    Circular = 4
    SeqTop = 6
    SeqWindow = 1
    Life = 2
    Externals = {FALSE, TRUE}
    Links <- MCLinks
    CostMod = 65536
    MaxDaos = 3
    MaxErrors = 3
    MaxShifts = 1
    MaxInputs = 6
SYMMETRY MCSymmetry
INVARIANTS TypeOK AllConnected Cheapest WalkEnds RouteCurrent
CHECK_DEADLOCK FALSE
