CONSTANTS
    NImages = 1
    NPrefixes = 1
    Wirings <- AllWirings
    Percents <- SomePercents
    MaxReports = 1
SPECIFICATION Spec
INVARIANT ResumedAfterPromote
