\* Two images and two prefixes: a partly done loop exists, and so does a failure
\* between two iterations. Every combination of peer stubs.
CONSTANTS
    NImages = 2
    NPrefixes = 2
    Wirings <- AllWirings
SPECIFICATION Spec
INVARIANTS
    TypeOK
    SingleWriter
    DeleteIsLast
    DisksRolledBack
PROPERTIES
    NothingAfterFailed
    ProgressMonotone
    ImplementsLifecycle
    IsServiceRun
    Settles
