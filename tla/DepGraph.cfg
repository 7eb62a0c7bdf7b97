SPECIFICATION Spec
CONSTANTS
    Names <- MCNames
    None = None
    Files <- MCFiles
    Cursors <- MCCursors
    Compdbs <- MCCompdbs
INVARIANT
    GraphIsExact
PROPERTY
    WrittenUnlessDoomed
CHECK_DEADLOCK FALSE
