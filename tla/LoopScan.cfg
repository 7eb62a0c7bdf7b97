SPECIFICATION Spec
CONSTANTS
    Functions <- MCFunctions
    Names <- MCNames
    Insts <- MCInsts
    None = None
    Modules <- MCModules
    Options <- MCOptions
INVARIANTS
    TypeOK
    ReportIsExact
    InterestingCountsFunctions
    AllOrNothing
PROPERTY
    ScanEnds
CHECK_DEADLOCK FALSE
