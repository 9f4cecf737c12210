SPECIFICATION FairSpec
CONSTANTS
    r1 = r1
    r2 = r2
    r3 = r3
    r4 = r4
    Requests = {r1, r2, r3}
    Ids = {7, 8}
    MaxContainers = 1
    Configs <- OneConfig
    Ops = {"create", "start", "delete"}
    Faults = {}
    NoJob = NoJob
INVARIANTS
    ConfigBeforeContainer
PROPERTIES
    Isolation
    EveryRequestAnswered
