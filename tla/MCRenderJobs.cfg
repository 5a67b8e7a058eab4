\* Two calls of any kind, two workers, two faults.
SPECIFICATION RenderSpec
CONSTANTS
    Call = {c1, c2}
    Worker = {w1, w2}
    Nobody = Nobody
    MaxAttempts = 2
    MaxMishaps = 2
INVARIANTS
    StrandedNeedsAMishap
    OutdatedNeedsOvertaking
PROPERTIES
    RendersEnd
CHECK_DEADLOCK FALSE
