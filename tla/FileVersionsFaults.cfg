SPECIFICATION Spec
CONSTANTS
    Workers = {w1, w2}
    Names = {n1, n2}
    MaxCounts = {1, 4}
    CountRange = 8
    Faults = {"open", "write", "unlink", "commit", "read", "owner", "crash", "reboot"}
    MaxId = 4
SYMMETRY Symmetry
\* The bound on identifiers stops the tasks that need one more.
CHECK_DEADLOCK FALSE
INVARIANTS
    RowHasContent
    ContentNotShared
    DownloadFindsContent
PROPERTIES
    FailureLeavesNoContent
