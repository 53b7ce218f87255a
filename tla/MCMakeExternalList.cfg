\* Every command line of one to three distinct files from the pool.
CONSTANTS
    None = None
    Argvs <- MCArgvs
SPECIFICATION Spec
\* main() prints its list, or raises, and the process ends.
CHECK_DEADLOCK FALSE
INVARIANTS
    TypeOK
    ExternalListExact
    RejectsExactlyForeign
