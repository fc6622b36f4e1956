\* A node that offers report style 1 before style 4.
SPECIFICATION Spec
CONSTANTS
    Wrap = 16
    MaxInd = 0
    MemoryRunsOut = FALSE
    NoThread = NoThread
    t1 = t1
    t2 = t2
    Threads <- OneThread
    Messages <- HeaderOnly
    Nodes <- OneNode
    Rf <- StyleOneRf
INVARIANTS
    ReportServiceServed
