CONSTANTS
    NoSecret = NoSecret
    NoSet = NoSet
    MinInt = 0
    Kept = Kept
    Absent = Absent
    Nobody = Nobody
    p1 = p1
    p2 = p2
    n1 = n1
    n2 = n2
    Slots = {p1, p2}
    NamespaceOf <- TwoNamespaces
    Containers <- SameImage
    Mirrors <- NoSets
    Replicas <- TwoSets
    Home <- InN2
    Locked <- JustEcr
    Unsteady <- JustHub
    Faults = {"secret", "api", "timeout", "crash"}
    MaxFaults = 1
    MaxPods = 2
SPECIFICATION FairSpec
INVARIANTS TypeOK RewrittenPodCanPull OrphansAreLate
CHECK_DEADLOCK FALSE
PROPERTIES AdmissionEnds OwnerGoes
