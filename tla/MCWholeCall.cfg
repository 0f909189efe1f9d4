CONSTANTS
    b1 = b1
    b2 = b2
    b3 = b3
    Null = Null
    Blocks = {b1, b2, b3}
    SizeMax = 11
    MinBuffer = 2
    Chunk = 3
    f1 = f1
    f2 = f2
    Frames = {f1, f2}
SPECIFICATION Spec
INVARIANTS
    FreedOnceByItsOwner
    SinkIsNeverLost
    WindowInsideSink
