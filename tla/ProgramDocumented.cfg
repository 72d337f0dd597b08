SPECIFICATION Spec
CONSTANTS
    Word = 2
    OperandSpace = 65536
    ProgramClass <- SmallProgram
    ResultClass <- SmallResult
    Statements <- SomeStatements
    MaxStatements = 1
    Alphabet = {"m", "sp", "0"}
    MaxLength = 1
    Tails <- SomeTails
INVARIANT DocumentedIsParsed
