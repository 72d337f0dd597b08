SPECIFICATION Spec
CONSTANTS
    Sizes = {0, 1, 2}
    WordSizes = {1, 2}
    Width = 4
INVARIANTS
    SymplecticBasis
    StabilizesState
    CanonicalForm
    WordsAgree
    ArraysOwned
    DefinedWhenInitialised
PROPERTIES
    MeasurementIsBorn
