CONSTANTS
    i1 = i1
    i2 = i2
    m1 = m1
    m2 = m2
    p1 = p1
    p2 = p2
    Images <- OneImage
    Mirrors = {m1, m2}
    Pods = {p1}
    RefOf <- OwnRef
    RepoOf <- OneRepo
    DigestOf <- OwnRef
    Credentialed = {m1, m2}
    Retention = 1
    Specs <- OneSpec
    Routes = {"source"}
    Faults = {"delete"}
    MaxFaults = 1
    MaxClears = 0
SPECIFICATION ResyncSpec
PROPERTY UsedImageIsMirrored
