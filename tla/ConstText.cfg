SPECIFICATION Spec
CHECK_DEADLOCK FALSE
CONSTANTS
    Name <- MCName
    Strip <- MCStrip
    Functions <- MCFunctions
    Programs <- TextPrograms
INVARIANTS
    CodeStaysCode
