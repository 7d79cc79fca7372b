SPECIFICATION Spec
CONSTANTS
    MaxWorkers = 3
    MaxOps = 2
INVARIANTS
    MergeExcludesWorkers
    SyncCountExact
    FreedUnused
    NothingUnmerged
PROPERTIES
    CallsReturn
    ImplementsBarrier
