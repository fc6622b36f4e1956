\* A node that does not announce the KPM service model.
SPECIFICATION Spec
CONSTANTS
    Wrap = 16
    MaxInd = 0
    MemoryRunsOut = FALSE
    NoThread = NoThread
    t1 = t1
    t2 = t2
    Threads <- OneThread
    Messages <- HeaderOnly
    Nodes <- OneNode
    Rf <- NoKpmRf
INVARIANTS
    KpmListed
