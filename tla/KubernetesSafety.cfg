SPECIFICATION Spec
CONSTANTS
    r1 = r1
    r2 = r2
    r3 = r3
    r4 = r4
    Requests = {r1, r2, r3, r4}
    Ids = {7}
    MaxContainers = 2
    MaxPods = 1
    NoTemplate = NoTemplate
    ListPlace <- ByIndex
    Configs <- TwoConfigs
    Ops = {"create", "start", "stop", "delete"}
    Faults = {"refused", "lost", "abandoned"}
    NoJob = NoJob
SYMMETRY Symmetry
INVARIANTS
    TypeOK
    DeployedIsWhole
    DeletedLeavesNothing
    OneDeleteGoesOn
    ScaledAsAnswered
PROPERTIES
    ImplementsRegistry
