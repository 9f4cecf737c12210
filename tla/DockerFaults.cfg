SPECIFICATION Spec
CONSTANTS
    r1 = r1
    r2 = r2
    r3 = r3
    r4 = r4
    Requests = {r1, r2, r3}
    Ids = {7}
    MaxContainers = 2
    Configs <- TwoConfigs
    Ops = {"create", "start", "stop", "delete", "status", "addr",
           "output"}
    Faults = {"refused", "abandoned", "waitfailed", "exits"}
    NoJob = NoJob
SYMMETRY Symmetry
INVARIANTS
    TypeOK
    BuiltInOrder
    CreatedStaysComplete
    DeletedStaysGone
    StoppedStaysStopped
    StartedStaysRunning
    OnlyEngineFailsRequests
PROPERTIES
    StatusAgrees
