SPECIFICATION Spec
CONSTANTS
    None = None
    b1 = b1
    k1 = k1
    k2 = k2
    x = x
    y = y
    v1 = v1
    v2 = v2
    v3 = v3
    p1 = p1
    p2 = p2
    Buckets = {b1}
    BucketOf <- OneBucket
    Bodies = {x, y}
    BodySize <- Sizes
    Keys = {k1, k2}
    NestedKeys = {k2}
    VersionIds = {v1, v2, v3}
    Requests = {p1}
    Workload <- AccountedLoad
    InitVersioning = {"disabled", "enabled"}
    UnknownLength = {}
    Quotas <- SomeQuotas
    MaxRequests = 6
    MaxCrashes = 0
    MaxFaults = 0
SYMMETRY Symmetric
INVARIANTS
    StatsExact
    QuotaRespected
    IndexMatchesFiles
CHECK_DEADLOCK FALSE
