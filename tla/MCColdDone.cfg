\* The wiring the two callers of the engine build: no peer stubs.
CONSTANTS
    NImages = 1
    NPrefixes = 1
    Wirings <- NoStubs
SPECIFICATION Spec
INVARIANT DoneMeansMoved
