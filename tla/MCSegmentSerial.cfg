\* A client that waits for each reply: three requests (turns or wraps), up to
\* two crashes, failed calls or lost answers.
SPECIFICATION Spec
CONSTANTS
    Req = {r1, r2, r3}
    None = None
    Opener = Opener
    PostQueues = {traits, profile}
    AskKinds = {"none", "tap", "seeded"}
    Cadence = 2
    MinTurns = 2
    MaxFaults = 2
    MaxInFlight = 1
SYMMETRY ReqSymmetry
INVARIANTS
    NothingForgotten
    SegmentsReadAgainstThePast
PROPERTY
    ImplementsLedger
CHECK_DEADLOCK FALSE
