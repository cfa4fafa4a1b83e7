SPECIFICATION Spec
CONSTANTS
    Emails = {e1}
    Rescued = {e1}
    Threads = {h1, h2}
    Admins = {h1}
    MaxFaults = 0
    Edits <- OneEdit
    e1 = e1
    h1 = h1
    h2 = h2
PROPERTIES
    InactiveCanRegister
CHECK_DEADLOCK FALSE
