CONSTANTS
    ZU_LEVEL_DEFAULT <- MCLevelDefault
    Codecs <- MCCodecs
    Vtable <- MCVtable
    Given <- MCGiven
    SrcSizes = {0, 2}
SPECIFICATION Spec
INVARIANTS
    TypeOK
    KeepsItsCodecAndLevel
PROPERTIES
    EndIsFinal
