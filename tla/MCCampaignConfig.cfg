\* Three requests, all at once, two slugs of each table.
SPECIFICATION ConfigSpec
CONSTANTS
    Editor = {a1, a2, a3}
    Nothing = Nothing
    Carried = Carried
    ThemeSlug = {x, y}
    CampaignSlug = {c, d}
    MaxInFlight = 3
SYMMETRY Symmetry
INVARIANTS
    PinsNeedARename
    
CHECK_DEADLOCK FALSE
