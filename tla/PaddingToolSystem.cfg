SPECIFICATION ToolSpec
CONSTANTS
    Records <- MCRecords
    None = None
    Units <- MCUnits
    Paths <- MCPaths
    Access <- MCAccess
    CommandLists <- MCCommandLists
INVARIANT
    SystemLibrariesSkipped
CHECK_DEADLOCK FALSE
