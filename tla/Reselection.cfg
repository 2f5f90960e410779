SPECIFICATION Spec

CONSTANTS
    Clusters = {c1}
    Purposes <- TwoPurposes
    Configs <- OneConfig
    Secrets <- MCSecrets
    SourceKinds <- MCSourceKinds
    Values <- MCValues
    ValuesFor <- MCValuesFor
    SourceKind <- MCSourceKind
    SecretsToCopy <- MCSecretsToCopy
    NoCluster = NoCluster
    NoConfig = NoConfig
    NoValues = NoValues
    UserAnnotations <- NoAnnotations
    TerminatingReady = FALSE
    MaxChanges = 2
    MaxErrors = 0
    MaxCrashes = 0

INVARIANTS
    DeploymentStays

CHECK_DEADLOCK FALSE
