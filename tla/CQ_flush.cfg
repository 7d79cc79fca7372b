SPECIFICATION FairSpec
CONSTANTS
    Slots = {s1}
    Comps = {repl}
    triv = triv
    plain = plain
    repl = repl
    main = main
    worker = worker
    Kind <- Replace
    Values = {v1}
    Default = Default
    None = None
    Unfixed = Unfixed
    StageOrder <- TwoStages
    Ops = {"remove", "set", "delete"}
    HookOps = {"add", "remove"}
    Suspends = TRUE
    MaxGen = 1
    MaxCmds = 2
    MaxDefer = 1
    MaxHeld = 2
    HookBudget = 1
INVARIANTS ChainsOK StructureInOrder
 
