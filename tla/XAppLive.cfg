\* Two nodes that report, two callback threads, fair scheduling.
SPECIFICATION FairSpec
CONSTANTS
    Wrap = 16
    MaxInd = 2
    MemoryRunsOut = FALSE
    NoThread = NoThread
    t1 = t1
    t2 = t2
    Threads <- TwoThreads
    Messages <- SmallMessages
    Nodes <- TwoNodes
    Rf <- PairRf
PROPERTIES
    Termination
    EveryIndicationReported
