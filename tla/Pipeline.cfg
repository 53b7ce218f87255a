\* Two runs of the driver on two configs, with every combination of options.
CONSTANTS
    None = None
    NumConfigs = 2
    MaxRuns = 2
    RobustnessTapes = {0, 3}
    Options <- Option
SPECIFICATION Spec
\* The last run ends; nothing follows.
CHECK_DEADLOCK FALSE
INVARIANTS
    TypeOK
    TapesAsExpected
