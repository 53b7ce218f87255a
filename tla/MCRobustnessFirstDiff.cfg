\* The comment at robustness.py:200: the first difference is printed.
CONSTANTS
    None = None
    EffortConstant = 3
    RandomValues = {1001, 1002}
    Programs <- MCPrograms
    ConfigLists <- MCConfigLists
SPECIFICATION Spec
\* run_multi_tape_checker returns; nothing follows in the model.
CHECK_DEADLOCK FALSE
INVARIANT ReportsFirstDifference
