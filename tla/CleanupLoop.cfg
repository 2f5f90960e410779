SPECIFICATION FairSpec

CONSTANTS
    Clusters = {c1}
    Purposes <- TwoPurposes
    Configs <- OneConfig
    Secrets <- MCSecrets
    SourceKinds <- MCSourceKinds
    Values <- MCValues
    ValuesFor <- MCValuesFor
    SourceKind <- MCSourceKind
    SecretsToCopy <- MCSecretsToCopy
    NoCluster = NoCluster
    NoConfig = NoConfig
    NoValues = NoValues
    UserAnnotations <- NoAnnotations
    TerminatingReady = FALSE
    MaxChanges = 1
    MaxErrors = 0
    MaxCrashes = 0

PROPERTIES
    CleanupEnds

CHECK_DEADLOCK FALSE
