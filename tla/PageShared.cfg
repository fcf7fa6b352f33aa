SPECIFICATION Spec
CONSTANTS
    Reg <- MCReg
    Tables <- MCTables
    Functions <- MCFunctions
    Unknown <- MCUnknown
    MaxOff <- MCMaxOff
    Programs <- SharedPrograms
INVARIANTS
    SameAddress
