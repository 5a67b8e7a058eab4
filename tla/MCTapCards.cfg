\* Three requests of one session, two of them at once.
SPECIFICATION Spec
SYMMETRY Alike
CONSTANTS
    Request = {r1, r2, r3}
    None = None
    Field = {f1, f2}
    Question = {1, 2}
    CoverageCap = 1
    GtCap = 2
    Cooldown = 1
    MinUserTurns = 1
    MaxInFlight = 2
    MaxOverlapping = 2
    MaxFaults = 1
    MaxOutside = 1
INVARIANTS
    AnswersAreFiled
    NotAskedAgain
    CardsWithinCaps
    TakenOnce
CHECK_DEADLOCK FALSE
