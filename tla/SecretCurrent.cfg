SPECIFICATION FairSpec

CONSTANTS
    Clusters <- TwoClusters
    Configs <- RivalConfigs
    Names <- MCNames
    Data = {"d1", "d2"}
    Types = {"t1"}
    Places <- MCPlaces
    ProviderPlace <- MCProvider
    PlaceOf <- ProviderPlaceToo
    PullSecrets <- MCPullSecrets
    HasSection <- MCHasSection
    TargetName <- MCTargetName
    InitialSecrets <- SourcesOnly
    Foreign = Foreign
    NoCluster = NoCluster
    NoName = NoName
    NoSecret = NoSecret
    Drift = FALSE
    MaxChanges = 2
    MaxErrors = 0
    MaxLookups = 0
    MaxCrashes = 1

INVARIANTS
    CopiesCurrent

PROPERTIES
    CopiesConverge
    ImplementsCopying

CHECK_DEADLOCK FALSE
