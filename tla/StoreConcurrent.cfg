SPECIFICATION Spec
CONSTANTS
    None = None
    b1 = b1
    k1 = k1
    k2 = k2
    x = x
    y = y
    v1 = v1
    v2 = v2
    v3 = v3
    p1 = p1
    p2 = p2
    Buckets = {b1}
    BucketOf <- OneBucket
    Bodies = {x, y}
    BodySize <- Sizes
    Keys = {k1}
    NestedKeys = {}
    VersionIds = {v1, v2, v3}
    Requests = {p1, p2}
    Workload <- VersionedLoad
    InitVersioning = {"enabled"}
    UnknownLength = {}
    Quotas <- NoQuota
    MaxRequests = 4
    MaxCrashes = 1
    MaxFaults = 1
SYMMETRY Symmetric
INVARIANTS
    VersionedDataIntact
    VersionedReadIntegrity
    AckedVersionsDurable
    ListedVersionReadable
PROPERTY VersionFilesWriteOnce
CHECK_DEADLOCK FALSE
