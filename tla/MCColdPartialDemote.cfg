\* One image: its demote raises although it took effect.
CONSTANTS
    NImages = 1
    NPrefixes = 1
    Wirings <- AllWirings
SPECIFICATION Spec
INVARIANT FailureRestoresDisks
