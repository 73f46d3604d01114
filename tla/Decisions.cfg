CONSTANTS
    NoSecret = NoSecret
    NoSet = NoSet
    MinInt <- Lowest
    Broken = Broken
    Anything <- Everything
    DockerIO <- TheHub
    IndexDockerIO <- TheIndex
    Version <- Versions
    Begins <- BeginsWith
    Routes <- SomeRoutes
    FilterSpecs <- SomeFilters
    PodKinds <- SomePods
    ImageNames <- SomeImages
    Checks <- SomeChecks
    Lookups <- SomeLookups
SPECIFICATION Spec
INVARIANTS
    DocumentedOrder
    BrokenIsSkipped
    DiscardedIsNotTried
    FilterAsDocumented
    SameImagesForAll
    AvailableIsPullable
    NotFoundIsCertain
    MoreSpecificFirst
