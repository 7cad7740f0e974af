\* The agent's own cluster and two others, so that two may need relief at once or
\* two may give it; loads below, between and above the two limits.
CONSTANTS
    Cluster = {c1, c2, c3}
    Self = c1
    MaxLoad = 2
    Policies <- TwoPolicies
    None = None
SPECIFICATION Spec
INVARIANTS
    TypeOK
    ViewsAgree
    Downhill
PROPERTIES
    LoserFallsSilent
    MasterSchedules
    EveryPolicyApplied
