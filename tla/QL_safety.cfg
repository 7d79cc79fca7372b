SPECIFICATION Spec
CONSTANTS
    Owner = owner
    Workers = {w1}
    Closure = closure
    Queries = {q1}
    Refs = {r1, r2, r3}
    None = none
    MaxWorlds = 2
    MaxCount = 3
    DestructMayPanic = FALSE
    CaptureEntityQueries = FALSE
CHECK_DEADLOCK FALSE
INVARIANTS
    TypeOK
    CountsCoverRefs
    NoDanglingCtx
    TouchedHeaderAlive
PROPERTIES
    TeardownEnds
