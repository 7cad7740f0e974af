\* Two images; one prefix, as handoff is MCColdMigration's; every combination of
\* peer stubs.  Two reports of the monitor: progress may go either way.
CONSTANTS
    NImages = 2
    NPrefixes = 1
    Wirings <- AllWirings
    Percents <- SomePercents
    MaxReports = 2
SPECIFICATION Spec
INVARIANTS
    TypeOK
    SingleWriter
    DisksUnderGuest
    DeleteIsLast
    DisksRolledBack
PROPERTIES
    NothingAfterFailed
    ImplementsLifecycle
    IsServiceRun
    Settles
