SPECIFICATION HookSpec
CONSTANTS
    Users = {u1}
    Slips = {}
    MaxSecond = 0
    Tasks = {t1}
    Threads = {}
    Reviewers = {}
    LoopOf <- OneLoop
    MaxFaults = 0
    t1 = t1
    u1 = u1
PROPERTIES
    WebhookRecords
