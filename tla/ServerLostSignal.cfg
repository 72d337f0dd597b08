SPECIFICATION FairSpec
CONSTANTS
    Workers <- OneWorker
    Clients = {11}
    Signals <- BothSignals
PROPERTY SignalStopsServer
CHECK_DEADLOCK FALSE
