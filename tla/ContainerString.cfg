\* String keys: callers name the key, and two inserts may name the same one.
\* One key, so that the three threads meet; the fair specification.
SPECIFICATION FairSpec
CONSTANTS
    t1 = t1
    t2 = t2
    t3 = t3
    Threads = {t1, t2, t3}
    KeySpace = 1
    Integral = FALSE
    Values = {0, 1}
    MaxNodes = 2
PROPERTIES
    Quiesces
