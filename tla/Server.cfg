\* Every thread count from none to one too many for the two slots.  The process
\* may come to rest for good: paused after its signals, or waiting for a proxy
\* that missed TERMINATE or for a worker that is stuck.
SPECIFICATION FairSpec
CONSTANTS
    Workers <- TwoWorkers
    Clients = {11, 12}
    Signals <- BothSignals
INVARIANTS
    TypeOK
    NoThreadOutlivesMain
    AtMostOneLate
PROPERTIES
    EveryRequestAnswered
    StopReturns
CHECK_DEADLOCK FALSE
