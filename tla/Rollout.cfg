SPECIFICATION FairSpec

CONSTANTS
    Clusters = {c1}
    Purposes = {"p1", "p2"}
    Configs = {"oci"}
    Secrets = {"s1"}
    SourceKinds = {"OCIRepository"}
    Values = {"v1"}
    ValuesFor <- MCValuesFor
    SourceKind <- MCSourceKind
    SecretsToCopy <- MCSecretsToCopy
    NoCluster = NoCluster
    NoConfig = NoConfig
    NoValues = NoValues
    UserAnnotations <- NoAnnotations
    TerminatingReady = FALSE
    MaxChanges = 2
    MaxErrors = 1
    MaxCrashes = 2
    Nobody = Nobody
    LeaderElection = TRUE

INVARIANTS
    NoInterference
    TakeoverCovers
    TakeoverConverged

PROPERTIES
    TakesTurns
    ImplementsDeployment
    SomebodyLeads
    DeletionCompletes

CHECK_DEADLOCK FALSE
