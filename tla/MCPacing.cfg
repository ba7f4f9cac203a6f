CONSTANTS
    MaxRetries = 5
    MaxCount = 70
    Limited = {c1, c2}
    Froms = {f1, f2}
    NoCount = NoCount
    limit = 2
    window = 2
    MaxLag = 1
SPECIFICATION PacingSpec
INVARIANTS
    WaitBounded
    RateBound
