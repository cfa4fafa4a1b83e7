SPECIFICATION FairSpec
CONSTANTS
    Emails = {e1}
    Rescued = {e1}
    Threads = {h1, h2}
    Admins = {h1}
    MaxFaults = 1
    Edits <- SomeEdits
    e1 = e1
    h1 = h1
    h2 = h2
INVARIANTS
    TypeOK
    ActiveWasApproved
    StatusAgreesWithActive
PROPERTIES
    AdmissionSpec
    RegistrationIsAnnounced
CHECK_DEADLOCK FALSE
