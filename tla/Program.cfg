\* Every program of up to four statements in every style, and every text of up to
\* four characters; buffers small enough to leave their inner arrays.
SPECIFICATION Spec
CONSTANTS
    Word = 2
    OperandSpace = 65536
    ProgramClass <- SmallProgram
    ResultClass <- SmallResult
    Statements <- SomeStatements
    MaxStatements = 4
    Alphabet = {"m", "c", "sp", "comma", "eol", "0"}
    MaxLength = 4
    Tails <- SomeTails
INVARIANTS
    TypeOK
    StrictIsParsed
    CompleteIsContained
    ProgramKept
    BuffersInBounds
    ResultsInOrder
