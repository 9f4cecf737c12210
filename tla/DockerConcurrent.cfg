SPECIFICATION Spec
CONSTANTS
    r1 = r1
    r2 = r2
    r3 = r3
    r4 = r4
    Requests = {r1, r2, r3, r4}
    Ids = {7}
    MaxContainers = 2
    Configs <- TwoConfigs
    Ops = {"create", "start", "stop", "delete", "status", "addr",
           "output"}
    Faults = {"exits"}
    NoJob = NoJob
SYMMETRY Symmetry
INVARIANTS
    CreatedStaysComplete
    DeletedStaysGone
    StoppedStaysStopped
    StartedStaysRunning
    OnlyEngineFailsRequests
    ConfigBeforeContainer
PROPERTIES
    StatusAgrees
