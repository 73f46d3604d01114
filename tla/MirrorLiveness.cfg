CONSTANTS
    i1 = i1
    i2 = i2
    m1 = m1
    m2 = m2
    p1 = p1
    p2 = p2
    Images <- TwoImages
    Mirrors = {m1}
    Pods = {p1, p2}
    RefOf <- OwnRef
    RepoOf <- OneRepo
    DigestOf <- OwnRef
    Credentialed = {m1}
    Retention = 1
    Specs <- OneSpec
    Routes = {"source"}
    Faults = {"copy", "delete"}
    MaxFaults = 2
    MaxClears = 0
SPECIFICATION HFairSpec
INVARIANTS NoOrphan
PROPERTIES UsedImageIsMirrored UnusedMirrorIsDeleted DeletionEnds
