\* Two agents, each with a lease of its own.
CONSTANTS
    Node = {a, b}
    Lease = {l1, l2}
    None = None
SPECIFICATION Spec
PROPERTY OneMasterAgain
