\* One migration, so that all its runs and writers meet at one row; two workers, so
\* that a task that is redelivered, or retried and queued again, runs beside itself;
\* both consume the queue the tasks are sent to, as the worker of the Makefile does.
CONSTANTS
    Migration = {m}
    Worker = {w1, w2}
    Listening = {w1, w2}
    MaxRetries = 1
    MaxSends = 1
    MaxFaults = 1
    None = None
SPECIFICATION Spec
CHECK_DEADLOCK FALSE
INVARIANTS
    TypeOK
    NotLost
    NoSpontaneousRuns
    EndShown
PROPERTIES
    Concludes
