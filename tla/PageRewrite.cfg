SPECIFICATION Spec
CONSTANTS
    Reg <- MCReg
    Tables <- MCTables
    Functions <- MCFunctions
    Unknown <- MCUnknown
    MaxOff <- MCMaxOff
    Programs <- MCPrograms
INVARIANTS
    TypeOK
    SameAddress
    ControlKept
    OutBehind
    UnresolvedFails
