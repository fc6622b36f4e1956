\* An indication with more records than descriptions.
SPECIFICATION Spec
CONSTANTS
    Wrap = 16
    MaxInd = 1
    NoThread = NoThread
    t1 = t1
    t2 = t2
    t3 = t3
    Threads <- OneThread
    Messages <- LongerMessages
INVARIANTS
    DescribedWhenPrinted
