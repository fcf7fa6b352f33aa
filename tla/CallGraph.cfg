\* Every call graph of three functions, at most two instructions each.
SPECIFICATION Spec
CONSTANTS
    N <- MCN
    Programs <- MCPrograms
INVARIANTS
    TypeOK
    NoDirectCycle
    EveryIndirectionNeeded
PROPERTY
    Termination
