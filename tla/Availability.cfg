CONSTANTS
    c1 = c1
    c2 = c2
    a = a
    b = b
    p1 = p1
    p2 = p2
    r1 = r1
    Cisas = {c1, c2}
    Images = {a}
    Pods = {p1}
    Registries = {r1}
    RegistryOf <- OneRegistry
    Default <- EveryOther
    Override <- FastR1
    Specs <- OneSpec
    PodKinds <- RewrittenPods
    Private = {}
    Lagging = FALSE
    Faults = {"patch", "crash"}
    MaxFaults = 1
    Watched <- FirstPair
    Timed = {r1}
    MaxAge = 1
    Legacy <- Unmarked
SPECIFICATION Spec
INVARIANT TypeOK
PROPERTIES RegistryIsSpared DroppedAfterExpiry
