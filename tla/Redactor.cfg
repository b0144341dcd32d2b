SPECIFICATION Spec
CONSTANTS
    Texts <- SomeTexts
    MaxLines = 4
    MaxFields = 1
    MaxLineConfig = 2
    MaxTotalConfig = 5
    MaxStringConfig = 0
    DefaultMaxLine = 3
    DefaultMaxTotal = 9
    DefaultMaxString = 2
INVARIANTS
    FailsClosed
    BudgetRespected
    EveryLineAccounted
CHECK_DEADLOCK FALSE
