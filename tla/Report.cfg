SPECIFICATION ReportSpec
CONSTANTS
    Stores <- MCStores
    Maps <- MCMaps
INVARIANTS
    ColumnsMatchHeader
    RowsMatchStats
    LinesEndAtLocations
CHECK_DEADLOCK FALSE
