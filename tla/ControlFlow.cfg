SPECIFICATION Spec
CHECK_DEADLOCK FALSE
CONSTANTS
    Sources <- MCSources
    TrimPrefix <- MCTrimPrefix
    AddPrefix <- MCAddPrefix
    GoName <- MCGoName
    NativeName <- MCNativeName
    Scoped <- MCScoped
    IsDataLabel <- MCIsDataLabel
    IsRelocationLabel <- MCIsRelocationLabel
    MaxArgs = 6
    Stack <- MCStack
    Thread <- MCThread
    Reserved <- MCReserved
    Scratch <- MCScratch
    MaxDepth = 2
INVARIANTS
    TypeOK
    BodiesOwnTheirCode
    NamesAgree
    EntriesAllOrNone
    LeafContained
    SameControl
    ScratchKept
