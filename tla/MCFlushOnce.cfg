CONSTANTS
    ISizeMod = 2
    ZU_LEVEL_DEFAULT <- MCLevelDefault
    CodecTable <- MCCodecTable
    LevelsTried <- MCLevelsTried
    Jobs <- FlushJobs
    Block = 2
    FrameChunk = 3
    MaxBlockInput = 4
SPECIFICATION Spec
INVARIANTS
    OneMarkerPerFlush
