SPECIFICATION Spec
CONSTANTS
    s1 = s1
    s2 = s2
    p1 = p1
    p2 = p2
    p3 = p3
    m1 = m1
    m2 = m2
    nil = nil
    Sources = {s1, s2}
    MaxSources = 1
    MaxBuffers = 2
    Buffers = {p1, p2, p3}
    Maps = {m1, m2}
    Sizes = {1, 2}
SYMMETRY Symmetry
INVARIANTS TypeOK MappingsOwned SlotsAttached HandedOutOnce ChunkFits ResizeFindsSlots
INVARIANTS ClosedIsSilent CallbacksReachOwner EntriesReleased
PROPERTY LendsAsPromised
CHECK_DEADLOCK FALSE
