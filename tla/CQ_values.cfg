SPECIFICATION Spec
CONSTANTS
    Slots = {s1}
    Comps = {triv, plain}
    triv = triv
    plain = plain
    repl = repl
    main = main
    worker = worker
    Kind <- TrivialPlain
    Values = {v1, v2}
    Default = Default
    None = None
    Unfixed = Unfixed
    StageOrder <- OneStage
    Ops = {"add", "remove", "set", "clear", "delete"}
    HookOps = {"add", "remove", "delete"}
    Suspends = FALSE
    MaxGen = 1
    MaxCmds = 3
    MaxDefer = 1
    MaxHeld = 6
    HookBudget = 1
SYMMETRY Sym
INVARIANTS ValuesDroppedOnce ObserversAgree BatchTargetAlive NothingLeftBehind LastSetWins
