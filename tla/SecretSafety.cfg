SPECIFICATION Spec

CONSTANTS
    Clusters <- TwoClusters
    Configs <- TwoConfigs
    Names <- MCNames
    Data = {"d1"}
    Types = {"t1", "t2"}
    Places <- MCPlaces
    ProviderPlace <- MCProvider
    PlaceOf <- SharedPlace
    PullSecrets <- MCPullSecrets
    HasSection <- MCHasSection
    TargetName <- MCTargetName
    InitialSecrets <- MCInitialSecrets
    Foreign = Foreign
    NoCluster = NoCluster
    NoName = NoName
    NoSecret = NoSecret
    Drift = TRUE
    MaxChanges = 2
    MaxErrors = 1
    MaxLookups = 1
    MaxCrashes = 1

INVARIANTS
    TypeOK
    ForeignSpared

PROPERTIES
    OthersSpared

CHECK_DEADLOCK FALSE
