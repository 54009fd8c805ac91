SPECIFICATION Spec
CONSTANTS
    b1 = b1
    b2 = b2
    b3 = b3
    b4 = b4
    nil = nil
    Buffers = {b1, b2, b3, b4}
    Channels = 2
    Frames = 2
    Capacity <- MCCapacity
    BadHeader = {b4}
    Fills = {"adapted_none"}
INVARIANT CommitReflectsWritten
