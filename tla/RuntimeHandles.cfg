SPECIFICATION Spec
CONSTANTS
    t1 = t1
    t2 = t2
    r1 = r1
    r2 = r2
    r3 = r3
    p1 = p1
    default = default
    other = other
    h1 = h1
    h2 = h2
    h3 = h3
    a1 = a1
    a2 = a2
    a3 = a3
    nil = nil
    Threads = {t1, t2}
    Runtimes = {r1, r2, r3}
    Players = {p1}
    Apis = {default, other}
    ApiOf <- SmallApiOf
    Handles = {h1, h2, h3}
    Addrs = {a1, a2, a3}
SYMMETRY Symmetry
INVARIANTS CountExact UpWhileUsed HandlesOwn
CHECK_DEADLOCK FALSE
