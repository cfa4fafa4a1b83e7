SPECIFICATION FairSpec
CONSTANTS
    Users = {u1}
    Slips = {m1}
    MaxSecond = 0
    Tasks = {t1, t2}
    Threads = {h1, h2}
    Reviewers = {h1}
    LoopOf <- OneLoop
    MaxFaults = 1
    h1 = h1
    h2 = h2
    m1 = m1
    t1 = t1
    t2 = t2
    u1 = u1
INVARIANTS
    TypeOK
    ConfirmedOnce
    MemberToldTheTruth
    ReasonMatchesStatus
PROPERTIES
    LedgerSpec
    AnsweredSettles
