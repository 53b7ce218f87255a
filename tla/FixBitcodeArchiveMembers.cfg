\* fix-bitcode-paths run on the same OUT_DIR.
SPECIFICATION Spec
CONSTANTS
    Trees <- MCTrees
    SourceContent <- MCSourceContent
    Missing = Missing
    MaxRuns = 4
INVARIANTS
    ArchiveMembersPreserved
\* The tool exits after each run; once the runs are spent nothing is left to do.
CHECK_DEADLOCK FALSE
