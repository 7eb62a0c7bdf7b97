SPECIFICATION ToolSpec
CONSTANTS
    Records <- MCRecords
    None = None
    Units <- MCUnits
    Paths <- MCPaths
    Access <- MCAccess
    CommandLists <- MCCommandLists
INVARIANTS
    TypeOK
    PadsAccountForSize
    PadsListThePadding
    RowsAgree
PROPERTY
    FilesAreComplete
CHECK_DEADLOCK FALSE
