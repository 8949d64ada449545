SPECIFICATION Spec
CONSTANTS
    Workers = {w1, w2}
    Names = {n1, n2}
    MaxCounts = {1}
    CountRange = 8
    Faults = {}
    MaxId = 9
SYMMETRY Symmetry
\* The bound on identifiers stops the tasks that need one more.
CHECK_DEADLOCK FALSE
INVARIANTS
    CurrentVersionExists
