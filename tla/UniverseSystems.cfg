SPECIFICATION Spec
CONSTANTS
    t1 = t1
    t2 = t2
    t3 = t3
    d1 = d1
    Threads = {t1, t2, t3}
    Dialects = {d1}
    Ops <- SystemRequests
    MaxSystems = 2
    MaxStates = 1
    MaxKernels = 0
    MaxMacros = 0
SYMMETRY Symmetry
INVARIANTS
    TypeOK
    NestedLifetime
    InnerUncontended
    InterpreterRace
PROPERTIES
    AtomicRequests
