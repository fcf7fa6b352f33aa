\* Two workers for three functions.
SPECIFICATION Spec
CONSTANTS
    N <- MCN
    Procs <- MCProcs
    Programs <- MCPrograms
INVARIANTS
    TypeOK
    OneMapWriter
    PoolComplete
PROPERTIES
    Reproducible
    Termination
