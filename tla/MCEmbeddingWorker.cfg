\* One row, three writers, one new model, one backfill, one fault.
SPECIFICATION FairSpec
CONSTANTS
    fact = fact
    edit1 = edit1
    edit2 = edit2
    Row = {row}
    Writer <- MCWriter
    Inside <- MCInside
    None = None
    Retired = Retired
    MaxModel = 1
    MaxScans = 1
    MaxFaults = 1
INVARIANTS
    StaleNeedsAnOldJob
    EmptyNeedsAFailedPush
PROPERTIES
    ModelsNeverMix
    QueuedIsEmbedded
CHECK_DEADLOCK FALSE
