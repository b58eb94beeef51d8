SPECIFICATION Spec
CONSTANTS
    None = None
    n1 = n1
    n2 = n2
    n3 = n3
    Nodes = {n1, n2, n3}
    MaxHandlers = 2
    MaxElections = 2
    MaxOutages = 1
SYMMETRY Symmetric
INVARIANTS
    TypeOK
    LeaderHasMajority
    ReportedLeaderWasElected
    OneLeaderIfOrderly
CHECK_DEADLOCK FALSE
