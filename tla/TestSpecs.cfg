CONSTANTS
    None = None
    Kinds = {"simple-run", "contains-symbol", "text-section-size", "bogus"}
    SymbolNames = {"main"}
    Sizes = {7}
    RelLeeways = {10, 50}
    AbsLeeways = {150}
    MaxTests = 2

SPECIFICATION Spec

INVARIANTS
    TypeOK
    BoundsAsDocumented

\* parse_targets_file_from_value returns or raises: the loop really stops.
CHECK_DEADLOCK FALSE
