SPECIFICATION RecordSpec
CONSTANTS
    Values <- MCValues
    Store = Store
    Programs <- MCPrograms
INVARIANTS
    RecordTypeOK
    VerdictMatchesBothSlices
    GadgetsComeFromSlice
    ReportCoversEverySource
    ExitsOnlyOnUnhandled
PROPERTIES
    RecordIsBuilt
CHECK_DEADLOCK FALSE
