SPECIFICATION Spec
CHECK_DEADLOCK FALSE
CONSTANTS
    Name <- MCName
    Strip <- MCStrip
    Functions <- MCFunctions
    Programs <- MCPrograms
INVARIANTS
    TypeOK
    BytesKept
    LabelsStand
    AliasesResolved
    ReferencesKept
    CodeStaysCode
    TablesEmittable
    Tiled
PROPERTIES
    Terminates
