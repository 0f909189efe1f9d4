CONSTANTS
    U64Max = 1000
    ISizeMod = 2
    HeaderLen = 5
    MaxField = 3
    Jobs <- FreeJobs
SPECIFICATION Spec
INVARIANTS
    TrailingIsReported
