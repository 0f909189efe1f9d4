CONSTANTS
    NoToken = NoToken
    ZU_LEVEL_DEFAULT <- Lowest
    Names <- MCNames
    Tokens <- MCTokens
    Lower <- MCLower
    Declared <- MCDeclared
    Builtin <- MCBuiltin
    Satellites <- MCSatellites
    Inputs <- MCInputs
    VendorBase = 10
    Cap = 4
    IntMax = 7
    RealMax = 9
    LevelArgs <- MCLevelArgs
    LimitArgs <- MCLimitArgs
SPECIFICATION RSpec
INVARIANTS
    TypeOK
    LookupsReachTheirOwner
    CacheIsHonest
    LayersAgree
    LevelsAgree
    LimitsSurvive
    DetectionIsFollowed
PROPERTIES
    RegistrationIsConservative
