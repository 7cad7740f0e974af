\* Two agents: with a third, the loser of a race merely has more company.  Three
\* leases: each agent's own, and one leaked or left over from an earlier life.
CONSTANTS
    Node = {a, b}
    Lease = {l1, l2, l3}
    None = None
SPECIFICATION Spec
INVARIANTS
    TypeOK
    AtMostOneLeasedMaster
    OnlyWorkersCampaign
PROPERTIES
    ImplementsLock
    ImplementsCallbacks
    WorkersTakeOver
