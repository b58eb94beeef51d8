SPECIFICATION Spec
CONSTANTS
    None = None
    b1 = b1
    k1 = k1
    k2 = k2
    x = x
    y = y
    v1 = v1
    v2 = v2
    v3 = v3
    p1 = p1
    p2 = p2
    Buckets = {b1}
    BucketOf <- OneBucket
    Bodies = {x, y}
    BodySize <- Sizes
    Keys = {k1, k2}
    NestedKeys = {k2}
    VersionIds = {v1, v2, v3}
    Requests = {p1}
    Workload <- EveryOperation
    InitVersioning = {"disabled", "enabled"}
    UnknownLength <- Chunked
    Quotas <- SomeQuotas
    MaxRequests = 4
    MaxCrashes = 1
    MaxFaults = 1
SYMMETRY Symmetric
INVARIANTS
    TypeOK
    AtMostOneLatest
    DeletedBucketHoldsNoData
CHECK_DEADLOCK FALSE
