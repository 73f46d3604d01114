CONSTANTS
    c1 = c1
    c2 = c2
    a = a
    b = b
    p1 = p1
    p2 = p2
    r1 = r1
    Cisas = {c1}
    Images = {a, b}
    Pods = {p1}
    Registries = {r1}
    RegistryOf <- OneRegistry
    Default <- EveryOther
    Override <- FastR1
    Specs <- KeepingSpecs
    PodKinds <- RewrittenPods
    Private = {}
    Lagging = FALSE
    Faults = {"patch", "crash"}
    MaxFaults = 1
    Watched <- FirstPair
    Timed = {}
    MaxAge = 1
    Legacy <- Nothing
SPECIFICATION FairSpec
PROPERTIES WantedIsMonitored UnmarkedIsDropped DroppedAfterExpiry
