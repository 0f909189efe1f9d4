CONSTANTS
    ISizeMod = 2
    ZU_LEVEL_DEFAULT <- MCLevelDefault
    CodecTable <- MCCodecTable
    LevelsTried <- MCLevelsTried
    Jobs <- MCJobs
    Block = 2
    FrameChunk = 3
    MaxBlockInput = 4
SPECIFICATION Spec
INVARIANTS
    NothingLost
    StreamIsWhole
    FlushDelivers
    ErrorsHaveACause
    OneShotVerdict
PROPERTIES
    ResetsReopen
    EncodesReturn
    ImplementsHandle
