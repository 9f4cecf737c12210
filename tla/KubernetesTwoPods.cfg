SPECIFICATION Spec
CONSTANTS
    r1 = r1
    r2 = r2
    r3 = r3
    r4 = r4
    Requests = {r1, r2, r3}
    Ids = {7}
    MaxContainers = 2
    MaxPods = 2
    NoTemplate = NoTemplate
    ListPlace <- ByIndex
    Configs <- TwoConfigs
    Ops = {"create", "start", "stop", "output"}
    Faults = {}
    NoJob = NoJob
INVARIANTS
    OnePodPerApp
