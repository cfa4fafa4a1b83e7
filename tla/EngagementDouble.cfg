SPECIFICATION AllSpec
CONSTANTS
    Members = {m1, m2}
    Host = m1
    Threads = {h1, h2}
    Seats = {1}
    Capacities = {2}
    m1 = m1
    m2 = m2
    h1 = h1
    h2 = h2
INVARIANTS
    OneRegistrationEach
CHECK_DEADLOCK FALSE
