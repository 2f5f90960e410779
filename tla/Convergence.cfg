SPECIFICATION Spec

CONSTANTS
    Clusters = {c1}
    Purposes <- DocPurposes
    Configs <- OneConfig
    Secrets <- MCSecrets
    SourceKinds <- MCSourceKinds
    Values <- MCValues
    ValuesFor <- DocValuesFor
    PurposeNames <- DocNames
    Addresses <- DocAddresses
    Nil = Nil
    NoName = NoName
    Requirements <- DocRequirements
    Entries <- DocEntries
    EntryValues <- DocEntryValues
    SourceKind <- MCSourceKind
    SecretsToCopy <- MCSecretsToCopy
    NoCluster = NoCluster
    NoConfig = NoConfig
    NoValues = NoValues
    UserAnnotations <- Annotations
    TerminatingReady = FALSE
    MaxChanges = 3
    MaxErrors = 2
    MaxCrashes = 1

INVARIANTS
    Converged
    GenericConsumed
    ValuesAsDocumented
    PassGuard
    CopyGuard

CHECK_DEADLOCK FALSE
