\* Two nodes that report, one without REPORT service and one in a format the
\* xApp does not know; memory may run out.
SPECIFICATION Spec
CONSTANTS
    Wrap = 16
    MaxInd = 2
    MemoryRunsOut = TRUE
    NoThread = NoThread
    t1 = t1
    t2 = t2
    Threads <- TwoThreads
    Messages <- MainMessages
    Nodes <- FourNodes
    Rf <- MixedRf
INVARIANTS
    TypeOK
    CleanStop
    ReportingNodesSubscribed
    SubscribedFit
    MemoryBalanced
    NothingCutOff
PROPERTIES
    CallbackIsKpmCallback
