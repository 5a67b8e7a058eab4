SPECIFICATION Spec
SYMMETRY Symmetry
CONSTANTS
    p1 = p1
    Extraction = {e1, e2, e3, e4}
    Pattern = {p1}
    PatternOf <- OnePattern
    Worker = {w1, w2}
    None = None
    Cadence = 2
    MinCluster = 2
    MaxThread = 2
    MaxProposals = 2
    MaxProposed = 1
    MaxFaults = 1
INVARIANTS
    DueNeedsATriggerOrAMishap
    DoubledNeedsAMishap
    ReopenedNeedsARace
CHECK_DEADLOCK FALSE
