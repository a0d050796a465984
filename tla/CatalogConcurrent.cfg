\* Two administrators at work on one entry and its releases.
CONSTANTS
    Workers = {w1, w2}
    MaxRelease = 2
    Versions = {v1, v2}
    Channels <- StableAndBeta
    MaxRaced = 0
    Targets <- AllStatuses
SPECIFICATION Spec
SYMMETRY Symmetry
INVARIANTS
    CurrentIsPublishedStable
    RecommendsPublished
CHECK_DEADLOCK FALSE
