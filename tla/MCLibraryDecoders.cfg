CONSTANTS
    U64Max = 1000
    Jobs <- AllJobs
    SearchFloor = 2
    Expand = 20
    Slack = 1
    IntMax = 60
    MaxBlockInput = 4
SPECIFICATION Spec
INVARIANTS
    FrameVerdicts
    FrameConsumed
    UnframedVerdicts
    StageIsBounded
    OneShotDecodes
PROPERTIES
    DecodesReturn
