CONSTANTS
    U64Max = 5
    Codecs <- MCCodecs
    Vtable <- MCVtable
    Given <- MCGiven
    SrcSizes = {0, 2}
    DstSizes = {0, 1, 3}
SPECIFICATION Spec
INVARIANTS
    TypeOK
    CeilingHeld
    SuccessIsEarned
    BlameIsFair
    BoundToOneCodec
PROPERTIES
    EndIsFinal
