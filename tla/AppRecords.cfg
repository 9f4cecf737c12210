SPECIFICATION Spec
CONSTANTS
    r1 = r1
    r2 = r2
    r3 = r3
    small = small
    middle = middle
    large = large
    huge = huge
    n = n
    m = m
    w = w
    a = a
    b = b
    c = c
    d = d
    host = host
    dind = dind
    alpine = alpine
    None = None
    Name = {n, m, w}
    Image = {a, b, c, d, host, dind, alpine}
    Text = {small, middle, large, huge}
    Size <- TextSize
    Backends = {"docker", "kubernetes"}
    Requests = {r1, r2, r3}
    Ids = {7, 8}
    Bodies <- SomeBodies
    LocalImages = {b, alpine}
    ForeignIds = {7}
    HostImage = host
    DaemonImage = dind
    HelperImage = alpine
    DockerNames = {n, m}
    KubernetesNames = {n}
    PodImages = {a, b, d}
    RunnableImages = {a, b, c, host, dind, alpine}
    OtherAnnotations = 300
SYMMETRY Symmetry
INVARIANTS
    TypeOK
    ReadBack
    StoredIsAcceptable
    PullsAsAsked
PROPERTIES
    CreatedIsFound
    ErrorsHaveReasons
