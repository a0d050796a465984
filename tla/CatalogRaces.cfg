\* A selection beside a transition of the same release, and two selections, one of them of
\* the release that is current already.  Each property is violated: keep one at a time.
CONSTANTS
    Workers = {w1, w2}
    MaxRelease = 2
    Versions = {v1, v2}
    Channels <- StableAndBeta
    MaxRaced = 0
    Targets <- SomeStatuses
SPECIFICATION Spec
SYMMETRY Symmetry
INVARIANTS
    MarkerAlwaysOK
PROPERTIES
    SelectionMarks
CHECK_DEADLOCK FALSE
