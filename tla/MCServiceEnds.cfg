\* One migration, which the agent runs and a request aborts; no worker is needed.
CONSTANTS
    Migration = {m}
    Worker = {w}
    Listening = {}
    MaxRetries = 0
    MaxSends = 0
    MaxFaults = 0
    None = None
SPECIFICATION Spec
CHECK_DEADLOCK FALSE
PROPERTIES
    EndsAreFinal
