SPECIFICATION Spec
CONSTANTS
    c1 = c1
    c2 = c2
    d1 = d1
    d2 = d2
    l1 = l1
    l2 = l2
    nil = nil
    Clients = {c1, c2}
    Dispatchers = {d1, d2}
    Loops = {l1, l2}
    MayCall <- LifecycleCalls
    CallBudget <- LifecycleBudget
    MayFail = {"run"}
    QuitIsSticky = TRUE
INVARIANT ClosedMeansReleased
CHECK_DEADLOCK FALSE
