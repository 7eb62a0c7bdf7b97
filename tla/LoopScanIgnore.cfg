SPECIFICATION Spec
CONSTANTS
    Functions <- MCFunctions
    Names <- MCNames
    Insts <- MCInsts
    None = None
    Modules <- MCModules
    Options <- MCOptions
INVARIANT
    ListedFunctionsIgnored
CHECK_DEADLOCK FALSE
