SPECIFICATION FairSpec
CONSTANTS
    Members = {m1, m2}
    Payers = {}
    Titles = {t1, t2, t3}
    CutAtBar <- BarInT2
    Purposes <- NoPurpose
    MaxFaults = 0
    Bouncing = {}
    m1 = m1
    m2 = m2
    t1 = t1
    t2 = t2
    t3 = t3
INVARIANTS
    AllMembersTold
CHECK_DEADLOCK FALSE
