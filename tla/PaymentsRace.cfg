SPECIFICATION Spec
CONSTANTS
    Users = {u1}
    Slips = {m1}
    MaxSecond = 0
    Tasks = {t1}
    Threads = {h1, h2}
    Reviewers = {h1, h2}
    LoopOf <- OneLoop
    MaxFaults = 0
    h1 = h1
    h2 = h2
    m1 = m1
    t1 = t1
    u1 = u1
PROPERTIES
    OnlyPendingRejected
