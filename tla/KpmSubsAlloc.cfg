SPECIFICATION Spec
CONSTANTS
    Functions <- MCFunctions
    Names <- MCNames
    MaxMeas = 3
    MaxSubs = 3
    MemoryRunsOut = TRUE
INVARIANTS
    TypeOK
    HeapIsTree
    SubscriptionWhole
PROPERTY
    OneBlock
