CONSTANTS
    Mods = {"c0", "c1", "c2", "m0", "m1"}
    Caches = {"c0", "c1", "c2"}
    ModList <- MCModList
    Links <- MCLinks
    SectionChoices <- MCSections
    AddrBits = 7
    Threads = {0, 1}
    EntryChoices <- MCEntries
    GpuEntryChoices <- MCGpuEntries
    MaxLevels = 3
    Fused = FALSE
    NetPlans <- MCNetPlans
    NoNet <- MCNoNet
SPECIFICATION Spec
CHECK_DEADLOCK FALSE
INVARIANT TypeOK
INVARIANT RouteCheckExact
INVARIANT DisjointCheckExact
INVARIANT LevelsAreLongestPaths
INVARIANT ThreadReachabilityExact
INVARIANT MainMemoryReachabilityExact
INVARIANT RangesServeWholeBlocks
INVARIANT NetworkRoutesExact
INVARIANT SwitchAssertOnlyUnused
