\* A session of two placements and the native engine, files replaced at any step; merges of two
\* materials, the layouts they are mapped to, cascades and adapters.
SPECIFICATION ModelsSpec
CONSTANTS
    s1 = s1  s2 = s2  k1 = k1  k2 = k2  kn = kn
    Files = {s1, s2}
    Keys = {k1, k2, kn}
    NativeKeys = {kn}
    NoKey = NoKey
    Requests <- SessionRequests
    MaxVersion = 3
    nan = nan
    MergeOrders <- MCMergeOrders
    Tensors <- MCTensors
    Coordinates = {1, 2}
    NaN = nan
    Limit = 6
    Pairings <- MCPairings
    Cascades <- MCCascades
    MaxStages = 3
    Adapters <- MCAdapters
    g1 = g1  g2 = g2
    Drawers = {g1, g2}
    GenericJobs <- MCGenericJobs
    Earlier <- MCEarlier
    Nothing = Nothing
    Other = Other
    SourceStates = {1, 2}
    MaxChanges = 2
INVARIANTS
    TypeOK PublishedIsOneSnapshot RetainedMatchesSignature PreparedIsRequested
    ErrorLeavesNothing ReleaseFreesSources
    MergesAreTrue
    MappingKeepsOrder
    CascadeOfItsPlan
    BranchesOnce
    GenerationIsTrue
