\* Two workers, a well-formed and a malformed message, two faults.  No symmetry:
\* it is unsound for the liveness properties.
SPECIFICATION FairSpec
CONSTANTS
    Msg = {m1, bad}
    Malformed = {bad}
    Worker = {w1, w2}
    NoMsg = NoMsg
    Kind = {embedding, poisoned}
    Poison = {poisoned}
    MaxAttempts = 2
    MaxFaults = 2
INVARIANTS
    CommitOnce
    AckOnlyCommitted
    SentMeansDelivered
    DuplicatesNeedAMishap
PROPERTY
    EverythingSettles
CHECK_DEADLOCK FALSE
