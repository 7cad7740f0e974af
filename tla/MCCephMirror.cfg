\* Two runs at once; a threshold with lags on both sides of it; a maximal lag of
\* 0, which is taken for the default, and one above it.
CONSTANTS
    Run = {r1, r2}
    Default = 1
    MaxLags = {0, 2}
    MaxPolls = 2
    MaxBehind = 3
    None = None
SPECIFICATION Spec
INVARIANTS
    TypeOK
    NothingLost
PROPERTIES
    RunsEnd
