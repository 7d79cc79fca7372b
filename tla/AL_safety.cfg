SPECIFICATION Spec
CONSTANTS
    Main = main
    Workers = {w1}
    Columns = {c1}
    Sparse = {s1}
    Borrows = {b1, b2, b3}
    Free = Free
    MaxDepth = 1
    MaxCount = 3
    GetInWorkers = FALSE
    WideAccess = FALSE
    CatchInside = FALSE
    ResizeHeld = FALSE
SYMMETRY Symmetry
CHECK_DEADLOCK FALSE
INVARIANTS TypeOK NoAliasing CountsMatchBorrows
