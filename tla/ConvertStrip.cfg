SPECIFICATION Spec
CHECK_DEADLOCK FALSE
CONSTANTS
    Commands <- MCCommands
    Header <- MCHeader
    Previous <- MCPrevious
    MaxTries = 1
INVARIANTS
    StripHonoured
