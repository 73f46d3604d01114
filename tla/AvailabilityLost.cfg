CONSTANTS
    c1 = c1
    c2 = c2
    a = a
    b = b
    p1 = p1
    p2 = p2
    r1 = r1
    Cisas = {c1}
    Images = {a, b}
    Pods = {p1, p2}
    Registries = {r1}
    RegistryOf <- OneRegistry
    Default <- EveryOther
    Override <- FastR1
    Specs <- OneSpec
    PodKinds <- PlainPods
    Private = {}
    Lagging = TRUE
    Faults = {}
    MaxFaults = 0
    Watched <- NoPair
    Timed = {}
    MaxAge = 1
    Legacy <- Nothing
SPECIFICATION FairSpec
PROPERTY WantedIsMonitored
