SPECIFICATION Spec
CONSTANTS
    Functions <- MCFunctions
    NoFunction = NoFunction
    EmptyLine = EmptyLine
    Modules <- MCModules
    Lists <- MCLists
INVARIANTS
    TypeOK
    VisitedIsExact
PROPERTY
    WalksEnd
CHECK_DEADLOCK FALSE
