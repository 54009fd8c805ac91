SPECIFICATION FairSpec
CONSTANTS
    c1 = c1
    c2 = c2
    d1 = d1
    d2 = d2
    l1 = l1
    l2 = l2
    nil = nil
    Clients = {c1, c2}
    Dispatchers = {d1}
    Loops = {l1}
    MayCall <- ReentrantCalls
    CallBudget <- ReentrantBudget
    MayFail = {"run", "fill"}
    QuitIsSticky = TRUE
PROPERTIES CallsReturn ClosedIsTold
CHECK_DEADLOCK FALSE
