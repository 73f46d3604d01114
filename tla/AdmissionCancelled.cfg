CONSTANTS
    NoSecret = NoSecret
    NoSet = NoSet
    MinInt = 0
    Kept = Kept
    Absent = Absent
    Nobody = Nobody
    p1 = p1
    p2 = p2
    n1 = n1
    n2 = n2
    Slots = {p1, p2}
    NamespaceOf <- TwoNamespaces
    Containers <- EitherImage
    Mirrors <- NoSets
    Replicas <- TwoSets
    Home <- InN2
    Locked = {}
    Unsteady = {}
    Faults = {}
    MaxFaults = 0
    MaxPods = 2
SPECIFICATION Spec
INVARIANT FirstAvailableIsUsed
CHECK_DEADLOCK FALSE
