\* --robustness-checks-constant given once: click counts it as 1.
CONSTANTS
    None = None
    EffortConstant = 1
    RandomValues = {1001, 1002}
    Programs <- MCPrograms
    ConfigLists <- MCConfigLists
SPECIFICATION Spec
\* run_multi_tape_checker returns; nothing follows in the model.
CHECK_DEADLOCK FALSE
INVARIANT DependenceDetected
