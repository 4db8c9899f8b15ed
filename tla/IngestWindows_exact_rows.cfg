SPECIFICATION Spec
CONSTANTS
    FixedWidth <- MCFixedWidth
    CompactionMax = 6
    Fanout = 2
    ChunkBytes = 4
    MinBuffer = 2
    SlabBytes = 5
    Sources <- MCSources
    Wires = {"none", "lz4", "auto"}
    RowTargets = {3}
    WindowBudget = 14
    PhysicalBudget = 20
    IncompressibleBudget = 11
    StagingBytes = 6
    PinnedBytes = {2, 20}
INVARIANT RowTargetIsExact
