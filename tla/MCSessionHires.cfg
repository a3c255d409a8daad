\* A resident request after a HiRes request that offloads.
SPECIFICATION Spec
CONSTANTS
    s1 = s1  s2 = s2  k1 = k1  k2 = k2  kn = kn
    Files = {s1}
    Keys = {k1}
    NativeKeys = {}
    NoKey = NoKey
    Requests <- HiresRequests
    MaxVersion = 1
INVARIANTS
    HooksRemovedBeforeResident
