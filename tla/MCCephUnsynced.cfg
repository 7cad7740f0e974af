\* One run, one poll, and a guest that gets two entries ahead of a threshold of one.
CONSTANTS
    Run = {r}
    Default = 1
    MaxLags = {0}
    MaxPolls = 1
    MaxBehind = 2
    None = None
SPECIFICATION Spec
INVARIANT DemotedInSync
