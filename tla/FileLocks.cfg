SPECIFICATION Spec
CONSTANTS
    Workers = {w1, w2, w3}
    Files = {f1}
    Duration = 1
    Faults = {"commit", "crash"}
    MaxTime = 3
    MaxTokens = 2
SYMMETRY Symmetry
\* The bound on tokens stops the tasks that need one more.
CHECK_DEADLOCK FALSE
INVARIANTS
    HolderKeepsLock
    LockedThenUnlocked
PROPERTIES
    RenewsItsOwn
