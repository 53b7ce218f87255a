\* The robustness checker with the default --robustness-checks-constant.
CONSTANTS
    None = None
    EffortConstant = 3
    RandomValues = {1001, 1002}
    Programs <- MCPrograms
    ConfigLists <- MCConfigLists
SPECIFICATION Spec
\* run_multi_tape_checker returns; nothing follows in the model.
CHECK_DEADLOCK FALSE
INVARIANTS
    TypeOK
    
    DependenceDetected
    PrintedDifferenceIsReal
