SPECIFICATION Spec
CHECK_DEADLOCK FALSE
CONSTANTS
    Commands <- MCCommands
    Header <- MCHeader
    Previous <- MCPrevious
    MaxTries = 2
INVARIANTS
    TypeOK
    MachineCodeKept
    SuccessComplete
    RefusalLeavesFile
