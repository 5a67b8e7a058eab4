\* Requests of one session that overlap freely, and one crash, failed call or
\* lost answer.
SPECIFICATION Spec
CONSTANTS
    Req = {r1, r2, r3}
    None = None
    Opener = Opener
    PostQueues = {traits}
    AskKinds = {"none"}
    Cadence = 2
    MinTurns = 2
    MaxFaults = 1
    MaxInFlight = 2
SYMMETRY ReqSymmetry
INVARIANTS
    SegmentsNest
    LossNeedsARival
CHECK_DEADLOCK FALSE
