\* One hoster with three parts of two archives, in all modes.
SPECIFICATION Spec
CONSTANTS
    Archive <- MCArchive
    Rank <- MCRank
    Starts <- MCStarts
    BulkLimit = 2
    FastLimit = 2
    MaxAdaptive = 2
    Window = 1
    Runway = 1
    Cooldown = 2
    Samples = 1
    FastSamples = 2
    FastSteps = 1
    MaxSpeed = 1
    RescueFloor = 2
INVARIANT OriginWithinCeiling
PROPERTY EveryPartStarts
