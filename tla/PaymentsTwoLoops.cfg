SPECIFICATION Spec
CONSTANTS
    Users = {u1}
    Slips = {}
    MaxSecond = 1
    Tasks = {t1, t2}
    Threads = {h1, h2}
    Reviewers = {h1, h2}
    LoopOf <- LoopEach
    MaxFaults = 1
    h1 = h1
    h2 = h2
    t1 = t1
    t2 = t2
    u1 = u1
INVARIANTS
    CompletedWasPaid
    Books
    PaidHasRecord
    AdminsToldWithSettlement
