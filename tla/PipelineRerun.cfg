\* A second run of the same command on the --tmpdir of the first.
CONSTANTS
    None = None
    NumConfigs = 2
    MaxRuns = 2
    RobustnessTapes = {0, 3}
    Options <- MCPlainOptions
SPECIFICATION Spec
CHECK_DEADLOCK FALSE
INVARIANT CleanRunSucceeds
