\* Two workers on the jobs of each kind in turn, one edit, two extractions, one fault.
SPECIFICATION Spec
CONSTANTS
    Worker = {w1, w2}
    Editor = {e1}
    Job <- MCJob
    KindOf <- MCKindOf
    Entity = {entity}
    Gap = {}
    Dimension = {dimension}
    Extraction = {x1, x2}
    Phrase = {phrase}
    Trait = {trait}
    Key = {k1, k2}
    Answer = {a1}
    Rungs = 2
    Cap = 1
    None = None
    Sent <- MCSent
    MaxFaults = 1
INVARIANTS
    CommittedTwiceNeedsOverlap
    FactsWithinCap
    UnminedNeedsAMishap
PROPERTIES
    DuplicatesNeedARace
CHECK_DEADLOCK FALSE
