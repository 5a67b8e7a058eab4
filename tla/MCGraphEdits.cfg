SPECIFICATION GraphSpec
SYMMETRY Symmetry
CONSTANTS
    A = A
    B = B
    Writer = {w1, w2}
    Scanner = {s1, s2}
    New = {m1, m2}
    First = m0
    FirstQuestion = q
    Nil = Nil
    Name = {A, B}
    InitialTitle <- Two
    InitialAliases <- TwoAliases
    MaxEntity = 3
    MaxMoments = 2
    MaxMentions = 2
    MaxLabels = 1
INVARIANTS
    ForksAndDeadEndsNeedAMishap
    PulledApartStaysApart
CHECK_DEADLOCK FALSE
