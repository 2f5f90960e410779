SPECIFICATION FairSpec

CONSTANTS
    Clusters = {c1}
    Purposes <- TwoPurposes
    Configs <- TwoConfigs
    Secrets <- MCSecrets
    SourceKinds <- MCSourceKinds
    Values <- MCValues
    ValuesFor <- MCValuesFor
    SourceKind <- MCSourceKind
    SecretsToCopy <- MCSecretsToCopy
    NoCluster = NoCluster
    NoConfig = NoConfig
    NoValues = NoValues
    UserAnnotations <- NoAnnotations
    TerminatingReady = FALSE
    MaxChanges = 3
    MaxErrors = 0
    MaxCrashes = 1

INVARIANTS
    TypeOK
    FinalizerGuard
    NoTargetOrphans
    ReleaseHasAccess
    KnownCovers
    PassGuard
    AccessGuard
    CopyGuard
    WholeConfiguration

PROPERTIES
    AccessOutlivesRelease
    ReleaseAfterSecrets
    CopyBeforePrune
    ImplementsDeployment
    ImplementsCopying
    DeletionCompletes
    ConfigReaches
    PassesSettle

CHECK_DEADLOCK FALSE
