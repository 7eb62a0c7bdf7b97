SPECIFICATION Spec
CONSTANTS
    Values <- MCValues
    Store = Store
    Programs <- MCPrograms
INVARIANTS
    TypeOK
    PendingHasItsUser
    VisitsExactlyTheSlice
    SourcesRecordedOnce
    VerdictMatchesSlice
    LiteralBehindLoadCounts
    StackIsDefUsePath
    RecordedStackHoldsUser
PROPERTIES
    ImplementsGraphSearch
CHECK_DEADLOCK FALSE
