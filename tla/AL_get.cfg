SPECIFICATION Spec
CONSTANTS
    Main = main
    Workers = {w1}
    Columns = {c1}
    Sparse = {}
    Borrows = {b1, b2}
    Free = Free
    MaxDepth = 2
    MaxCount = 3
    GetInWorkers = TRUE
    WideAccess = FALSE
    CatchInside = FALSE
    ResizeHeld = FALSE
SYMMETRY Symmetry
CHECK_DEADLOCK FALSE
INVARIANT NoAliasing
