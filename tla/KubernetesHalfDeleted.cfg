SPECIFICATION FairSpec
CONSTANTS
    r1 = r1
    r2 = r2
    r3 = r3
    r4 = r4
    Requests = {r1, r2, r3}
    Ids = {7}
    MaxContainers = 1
    MaxPods = 2
    NoTemplate = NoTemplate
    ListPlace <- ByIndex
    Configs <- OneConfig
    Ops = {"create", "start", "delete"}
    Faults = {"refused"}
    NoJob = NoJob
PROPERTIES
    StartedComesUp
