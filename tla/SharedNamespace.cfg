SPECIFICATION Spec

CONSTANTS
    Clusters <- TwoClusters
    Configs <- OneConfig
    Names <- MCNames
    Data = {"d1", "d2"}
    Types = {"t1"}
    Places <- MCPlaces
    ProviderPlace <- MCProvider
    PlaceOf <- SharedPlace
    PullSecrets <- MCPullSecrets
    HasSection <- MCHasSection
    TargetName <- MCTargetName
    InitialSecrets <- MCInitialSecrets
    Foreign = Foreign
    NoCluster = NoCluster
    NoName = NoName
    NoSecret = NoSecret
    Drift = FALSE
    MaxChanges = 0
    MaxErrors = 0
    MaxLookups = 0
    MaxCrashes = 0

INVARIANTS
    RefusesForeignOnly

CHECK_DEADLOCK FALSE
