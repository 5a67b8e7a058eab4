\* Three requests of any kind, one campaign edited once, three tribute rows.
SPECIFICATION Spec
CONSTANTS
    Request = {r1, r2, r3}
    Occasion = {c}
    Question = {q1, q2}
    None = None
    MaxRow = 3
    MaxVersion = 1
    MaxGiven = 1
SYMMETRY Symmetry
INVARIANTS LossNeedsARace TwinsNeedALocklessEntry AnswersAddUp
CHECK_DEADLOCK FALSE
