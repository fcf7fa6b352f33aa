\* The fallback to single instructions against the promise of the README.
SPECIFICATION Spec
CONSTANTS
    N <- MCN
    Procs <- MCProcs
    Programs <- MCPrograms
INVARIANT
    LabelDistancesKept
