SPECIFICATION Spec
CONSTANTS
    o1 = o1
    o2 = o2
    c1 = c1
    a1 = a1
    a2 = a2
    l1 = l1
    l2 = l2
    nil = nil
    Owners = {o1, o2}
    Callers = {c1}
    Streams = {a1, a2}
    Loops = {l1, l2}
INVARIANT CallsExcludeDispatch
