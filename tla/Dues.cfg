SPECIFICATION FairSpec
CONSTANTS
    Members = {m1, m2}
    Payers = {m1}
    Titles = {t1, t2, t3}
    CutAtBar <- BarInT2
    Purposes <- TwoDues
    MaxFaults = 1
    Bouncing = {m2}
    m1 = m1
    m2 = m2
    t1 = t1
    t2 = t2
    t3 = t3
INVARIANTS
    TypeOK
    UntoldHasCause
    RepeatedByRetryOnly
    ViewsErrOneWay
PROPERTIES
    ListedAreMailed
    ReviewEndsWithDecision
CHECK_DEADLOCK FALSE
