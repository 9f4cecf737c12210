SPECIFICATION Spec
CONSTANTS
    r1 = r1
    r2 = r2
    r3 = r3
    r4 = r4
    Requests = {r1}
    Ids = {7}
    MaxContainers = 1
    Configs <- OneConfig
    Ops = {"create"}
    Faults = {"waitfailed"}
    NoJob = NoJob
INVARIANTS
    ConfigBeforeContainer
