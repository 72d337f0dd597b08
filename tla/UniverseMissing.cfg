SPECIFICATION Spec
CONSTANTS
    t1 = t1
    t2 = t2
    d1 = d1
    Threads = {t1, t2}
    Dialects = {d1}
    Ops <- SystemRequests
    MaxSystems = 1
    MaxStates = 1
    MaxKernels = 0
    MaxMacros = 0
INVARIANT MissingIsAnswered
