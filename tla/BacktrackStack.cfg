SPECIFICATION Spec
CONSTANTS
    Values <- MCValues
    Store = Store
    Programs <- MCPrograms
INVARIANT
    RecordedStackEndsAtUser
CHECK_DEADLOCK FALSE
