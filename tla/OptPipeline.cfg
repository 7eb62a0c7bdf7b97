SPECIFICATION Spec
CONSTANTS
    Programs <- MCPrograms
    Pipelines <- MCPipelines
    Invocations <- MCInvocations
INVARIANTS
    ClonesMirrorOriginals
    ReportsAccumulate
    GreetsEveryDefinition
    NoopsFollowBackEndFlag
CHECK_DEADLOCK FALSE
