\* Every kind of request, on one system, one state and two kernels; fair.
SPECIFICATION FairSpec
CONSTANTS
    t1 = t1
    t2 = t2
    d1 = d1
    Threads = {t1, t2}
    Dialects = {d1}
    Ops <- AllOps
    MaxSystems = 1
    MaxStates = 1
    MaxKernels = 2
    MaxMacros = 1
PROPERTIES
    Answers
    AtomicRequests
