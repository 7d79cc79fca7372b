SPECIFICATION Spec
CONSTANTS
    Main = main
    Workers = {}
    Columns = {c1}
    Sparse = {}
    Borrows = {b1, b2, b3}
    Free = Free
    MaxDepth = 3
    MaxCount = 2
    GetInWorkers = FALSE
    WideAccess = FALSE
    CatchInside = TRUE
    ResizeHeld = FALSE
SYMMETRY Symmetry
CHECK_DEADLOCK FALSE
PROPERTY DriftOnlyByPanic
