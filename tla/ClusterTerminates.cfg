SPECIFICATION Spec
CONSTANTS
    None = None
    n1 = n1
    n2 = n2
    n3 = n3
    Nodes = {n1, n2}
    MaxHandlers = 2
    MaxElections = 3
    MaxOutages = 1
PROPERTY ElectionEnds
CHECK_DEADLOCK FALSE
