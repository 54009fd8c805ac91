SPECIFICATION Spec
CONSTANTS
    Lengths <- SmallLengths
    podMaxDepth = 2
    MaxInt32 = 1048575
    Arguments = {0, 1}
    Ints <- SmallInts
    Values <- SmallValues
    MaxWritten = 48
    MaxProps = 5
    MaxDamaged = 2
INVARIANTS BuilderOK BytesAsMeant ParsesAsSaid ReadsInside
CHECK_DEADLOCK FALSE
