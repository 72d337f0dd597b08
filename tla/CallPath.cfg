\* The real table: 13 calls in 16 slots.  Names up to 32 characters too long and
\* up to 9 parameters, past what the packed attribute can hold.  Weights are read
\* from none to one more than there are.
SPECIFICATION FairSpec
CONSTANTS
    Maximum = 16
    MethodMaximum = 30
    Extras = {0, 1, 32}
    MaxParameters = 9
    Workers <- TwoWorkers
    Period = 3
    PositionLimit = 2
    MaxOutputs = 2
    Precision = 3
    MaxCount = 2
    RealRanges <- OneRange
    WeightLists <- TwoLists
    ListSizes = {0, 1, 2, 3}
    Junk = {0, 1}
INVARIANTS
    ExactDispatch
    DrawsAreSerial
    WeightedChoice
    ArraysDeletedOnce
PROPERTIES
    RandomAnswered
