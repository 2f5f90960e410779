SPECIFICATION UnmissedSpec

CONSTANTS
    Clusters = {c1, c2}
    Purposes <- TwoPurposes
    Configs <- TwoConfigs
    Secrets <- MCSecrets
    SourceKinds <- MCSourceKinds
    Values <- MCValues
    ValuesFor <- MCValuesFor
    SourceKind <- MCSourceKind
    SecretsToCopy <- MCSecretsToCopy
    NoCluster = NoCluster
    NoConfig = NoConfig
    NoValues = NoValues
    UserAnnotations <- NoAnnotations
    TerminatingReady = FALSE
    MaxChanges = 2
    MaxErrors = 0
    MaxCrashes = 1

INVARIANTS
    KnownCurrent

CHECK_DEADLOCK FALSE
