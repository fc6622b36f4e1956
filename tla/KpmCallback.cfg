\* Three threads, three indications of all kinds.
SPECIFICATION Spec
CONSTANTS
    Wrap = 16
    MaxInd = 3
    NoThread = NoThread
    t1 = t1
    t2 = t2
    t3 = t3
    Threads <- ThreeThreads
    Messages <- AllMessages
SYMMETRY Symmetry
INVARIANTS
    TypeOK
    BlocksContiguous
    NumberedInOrder
    DeathHasCause
PROPERTIES
    WholeReports
