\* Integral keys: two keys and three items, so that the generator wraps.
SPECIFICATION Spec
CONSTANTS
    t1 = t1
    t2 = t2
    t3 = t3
    Threads = {t1, t2, t3}
    KeySpace = 2
    Integral = TRUE
    Values = {0, 1}
    MaxNodes = 3
SYMMETRY ThreadSymmetry
INVARIANTS
    TypeOK
    ListExclusion
    NoUseAfterFree
    FlagDiscipline
    NoLostUpdate
    NoDoubleFree
    NoLeakUntilWrap
PROPERTIES
    KeysNotReused
    AtomicMap
