SPECIFICATION FairSpec
CONSTANTS
    Workers <- OneWorker
    Clients = {11}
    Signals <- BothSignals
PROPERTY StopEndsProxy
CHECK_DEADLOCK FALSE
