SPECIFICATION Spec
CONSTANTS
    r1 = r1
    r2 = r2
    r3 = r3
    small = small
    middle = middle
    large = large
    huge = huge
    n = n
    m = m
    w = w
    a = a
    b = b
    c = c
    d = d
    host = host
    dind = dind
    alpine = alpine
    None = None
    Name = {n, m, w}
    Image = {a, b, c, d, host, dind, alpine}
    Text = {small, middle, large, huge}
    Size <- TextSize
    Backends = {"docker"}
    Requests = {r1, r2}
    Ids = {7}
    Bodies <- SomeBodies
    LocalImages = {b, alpine}
    ForeignIds = {}
    HostImage = host
    DaemonImage = dind
    HelperImage = alpine
    DockerNames = {n, m}
    KubernetesNames = {n}
    PodImages = {a, b, d}
    RunnableImages = {a, b, c, host, dind, alpine}
    OtherAnnotations = 300
INVARIANTS
    ReadAsAsked
