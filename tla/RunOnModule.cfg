SPECIFICATION Spec
CONSTANTS
    Functions <- MCFunctions
    Numbers <- MCNumbers
    Zero = "0"
    Newline = Newline
    EmptyLine = EmptyLine
    OtherLine = OtherLine
    Unreadable = Unreadable
    NotGiven = NotGiven
    MaxNames = 6
    Commands <- MCCommands
    Insts <- MCInsts
    None = None
    Modules <- MCModules
    NoFunction = NoFunction
    NoLocation = NoLocation
    DebugLine <- MCDebugLine
INVARIANTS
    ReportFollowsFiles
    EndsAreExplained
PROPERTY
    EndsUnlessTraceIsMalformed
CHECK_DEADLOCK FALSE
