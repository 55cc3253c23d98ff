SPECIFICATION Spec
CONSTANTS
    a = a
    b = b
    x = x
    y = y
    m = m
    n = n
    None = None
    Ids = {x, y}
    Names = {m, n}
    Operators = {a, b}
    Wanted <- Either
    Pinned <- Pins
    Starters = {s1}
    Core = {m}
    Overrides = {n}
    Mirrored = {m}
    AnyTime = FALSE
INVARIANTS
    TypeOK
    ActiveIsComplete
    NoDebris
    DriftIsCaught
    PreflightIsTruthful
PROPERTIES
    PublishedStays
CHECK_DEADLOCK FALSE
