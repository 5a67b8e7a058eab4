\* Four loads of requests, two questions, a register of two.
SPECIFICATION OpeningSpec
CONSTANTS
    s1 = s1
    s2 = s2
    t1 = t1
    t2 = t2
    r1 = r1
    r2 = r2
    r3 = r3
    q1 = q1
    q2 = q2
    None = None
    Req = {r1, r2, r3}
    Start = {s1, s2}
    Turn = {t1, t2}
    Question = {q1, q2}
    SourceOf <- MCSourceOf
    Loads <- MCLoads
    Window = 2
    MaxFaults = 2
    MaxInFlight = 2
    MaxLapses = 1
INVARIANTS
    RepeatsNeedARace
    StartedIsUsable
    OnboardedOnce
    OverlapNeedsOverruns
    LateIsReplayed
CHECK_DEADLOCK FALSE
