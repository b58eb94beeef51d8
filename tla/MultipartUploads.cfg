SPECIFICATION Spec
CONSTANTS
    None = None
    u1 = u1
    u2 = u2
    x = x
    y = y
    p1 = p1
    p2 = p2
    Uploads = {u1}
    MaxPart = 2
    Bodies = {x, y}
    BodySize <- Sizes
    UnknownLength = {}
    Quota = 3
    MaxObjects = 2
    Requests = {p1, p2}
    MaxRequests = 5
    MaxCrashes = 1
    MaxFaults = 1
SYMMETRY Symmetric
INVARIANTS
    TypeOK
    AssembledFromParts
    RecordAfterFile
    CompletedExact
    UploadsCleanUp
CHECK_DEADLOCK FALSE
