---------------------- MODULE ClusterReconcilerProofs ----------------------
(***************************************************************************)
(* Machine-checked proofs about ClusterReconciler, for any sets of          *)
(* Clusters, configurations and secrets and any number of edits, failures   *)
(* and restarts: its type invariant, the invariant about the finalizer and  *)
(* the set of known Clusters on which the other proofs rest, the invariants *)
(* about the access to target clusters, and the order of copies, sources    *)
(* and releases.                                                            *)
(***************************************************************************)
EXTENDS ClusterProperties, TLAPS

-----------------------------------------------------------------------------
(* Types. *)

\* A Cluster as users create it is a Cluster.
LEMMA NewClusterType == \A p \in Purposes : NewCluster(p) \in ClusterObject
  BY DEF NewCluster, ClusterObject, Operations

\* Initially every variable has its type.
LEMMA TypeInit == Init => TypeOK
  <1> SUFFICES ASSUME Init PROVE TypeOK
      OBVIOUS
  <1>1. cluster \in [Clusters -> ClusterObject \cup {NoCluster}]
      BY NewClusterType DEF Init
  <1>2. release \in [Clusters -> Release]
      BY DEF Init, NoRelease, Release, Status
  <1>3. /\ source \in [Clusters -> [SourceKinds -> Status]]
        /\ access \in [Clusters -> AccessStatus]
        /\ copies \in [Sites -> [Clusters -> SUBSET Secrets]]
      BY DEF Init, Status, AccessStatus
  <1>4. worker \in Worker /\ worker.pc = "idle" /\ worker = Idle
      BY DEF Init, Worker, Idle, PC
  <1>5. left \in [changes: Nat, errors: Nat, crashes: Nat]
      BY BoundsAssumption DEF Init
  <1> QED
      BY <1>1, <1>2, <1>3, <1>4, <1>5 DEF Init, TypeOK, DeploySteps, CleanupSteps

\* The part of TypeOK that is about the pass.
WorkerOK ==
    /\ worker \in Worker
    /\ worker.pc = "idle" => worker = Idle
    /\ worker.pc # "idle" => worker.c \in Clusters /\ worker.seen \in ClusterObject
    /\ worker.pc \in DeploySteps \cup CleanupSteps => worker.cfg \in Configs
    /\ worker.pc \in DeploySteps => worker.values \in Values

\* The ends of a pass leave a well-typed idle worker.
LEMMA IdleType == ASSUME worker' = Idle PROVE WorkerOK'
  BY DEF WorkerOK, Worker, Idle, PC, DeploySteps, CleanupSteps

\* Going on to a next call changes nothing but the place.
LEMMA GotoType ==
    ASSUME TypeOK, worker.pc # "idle", NEW pc \in PC \ {"idle"}, Goto(pc),
           pc \in DeploySteps \cup CleanupSteps => worker.cfg \in Configs,
           pc \in DeploySteps => worker.values \in Values
    PROVE  /\ WorkerOK'
           /\ worker'.pc = pc /\ worker'.c = worker.c
           /\ worker'.seen = worker.seen /\ worker'.cfg = worker.cfg
           /\ worker'.copied = worker.copied /\ worker'.err = worker.err
  BY DEF TypeOK, WorkerOK, Goto, Worker

\* A request that comes back is one that was taken from the queue.
LEMMA RequeueType ==
    ASSUME TypeOK, worker.pc # "idle", Requeue
    PROVE  WorkerOK' /\ queue' \subseteq Clusters
  BY IdleType DEF TypeOK, Requeue

\* What the pass reads and changes of the Cluster it works on is well-typed.
LEMMA UpdateClusterType ==
    ASSUME TypeOK, NEW c \in Clusters, NEW new \in ClusterObject, UpdateCluster(c, new)
    PROVE  /\ cluster' \in [Clusters -> ClusterObject \cup {NoCluster}]
           /\ queue' \subseteq Clusters
  BY DEF TypeOK, UpdateCluster, Enqueue

\* The access library leaves an AccessRequest of a known status.
LEMMA ReconcileAccessType ==
    ASSUME TypeOK, worker.pc # "idle", worker.cfg \in Configs, NEW next \in PC \ {"idle"},
           next \in DeploySteps => worker.values \in Values, ReconcileAccess(next)
    PROVE  access' \in [Clusters -> AccessStatus] /\ WorkerOK' /\ queue' \subseteq Clusters
  <1>1. PICK outcome \in AccessOutcomes(access[worker.c]) :
            /\ access' = [access EXCEPT ![worker.c] = outcome.access]
            /\ IF outcome.ready THEN Goto(next) /\ queue' = queue ELSE Requeue
      BY DEF ReconcileAccess
  <1>2. outcome.access \in AccessStatus
      BY <1>1 DEF AccessOutcomes, TypeOK, AccessStatus
  <1>3. CASE Goto(next) /\ queue' = queue
      BY <1>1, <1>2, <1>3, GotoType DEF TypeOK
  <1>4. CASE Requeue
      BY <1>1, <1>2, <1>4, RequeueType DEF TypeOK
  <1> QED
      BY <1>1, <1>3, <1>4

\* removeSecrets keeps the types.
LEMMA RemoveSecretsType ==
    ASSUME TypeOK, worker.pc # "idle", worker.cfg \in Configs,
           NEW site \in Sites, NEW pc, NEW next \in PC \ {"idle"},
           next \in DeploySteps => worker.values \in Values, RemoveSecrets(site, pc, next)
    PROVE  TypeOK'
  <1>1. copies' \in [Sites -> [Clusters -> SUBSET Secrets]]
    <2>1. CASE copies' = copies
        BY <2>1 DEF TypeOK
    <2>2. ASSUME NEW s, copies' = [copies EXCEPT ![site][worker.c] = @ \ {s}]
          PROVE  copies' \in [Sites -> [Clusters -> SUBSET Secrets]]
      <3>1. copies[site] \in [Clusters -> SUBSET Secrets]
          BY DEF TypeOK
      <3>2. [copies[site] EXCEPT ![worker.c] = @ \ {s}] \in [Clusters -> SUBSET Secrets]
          BY <3>1
      <3> QED
          BY <2>2, <3>2 DEF TypeOK
    <2> QED
        BY <2>1, <2>2 DEF RemoveSecrets
  <1>2. WorkerOK'
      BY DEF RemoveSecrets, TypeOK, WorkerOK, Worker
  <1> QED
      BY <1>1, <1>2 DEF RemoveSecrets, ProcessUnchanged, TypeOK, WorkerOK

\* Deleting sources keeps the types.
LEMMA DeleteSourcesType ==
    ASSUME TypeOK, worker.pc # "idle", worker.cfg \in Configs,
           NEW pc, NEW obsolete, NEW next \in PC \ {"idle"},
           next \in DeploySteps => worker.values \in Values, DeleteSources(pc, obsolete, next)
    PROVE  TypeOK'
  <1>1. source' \in [Clusters -> [SourceKinds -> Status]]
    <2>1. CASE source' = source
        BY <2>1 DEF TypeOK
    <2>2. ASSUME NEW k, source' = [source EXCEPT ![worker.c][k] = "terminating"]
          PROVE  source' \in [Clusters -> [SourceKinds -> Status]]
        BY <2>2 DEF TypeOK, Status
    <2> QED
        BY <2>1, <2>2 DEF DeleteSources
  <1>2. WorkerOK'
      BY GotoType DEF DeleteSources, TypeOK, WorkerOK
  <1> QED
      BY <1>1, <1>2 DEF DeleteSources, ProcessUnchanged, TypeOK, WorkerOK

\* Every step preserves the types.
LEMMA TypeStep == TypeOK /\ [Next]_vars => TypeOK'
  <1> SUFFICES ASSUME TypeOK, [Next]_vars PROVE TypeOK'
      OBVIOUS
  <1> USE DEF ProcessUnchanged
  <1>1. ASSUME NEW c \in Clusters, GetCluster(c) PROVE TypeOK'
    <2>1. CASE Exists(c)
      <3>1. cluster[c] \in ClusterObject
          BY <2>1 DEF TypeOK, Exists
      <3>2. WorkerOK'
          BY <1>1, <2>1, <3>1 DEF GetCluster, WorkerOK, Worker, Idle, PC, DeploySteps, CleanupSteps
      <3> QED
          BY <1>1, <2>1, <3>2 DEF GetCluster, TypeOK, WorkerOK
    <2>2. CASE ~Exists(c)
        BY <1>1, <2>2 DEF GetCluster, TypeOK
    <2> QED
        BY <2>1, <2>2
  <1>2. CASE HandleOperation
    <2> DEFINE c == worker.c
    <2>1. worker.pc # "idle" /\ c \in Clusters
        BY <1>2 DEF HandleOperation, TypeOK
    <2>2. CASE Done /\ UNCHANGED <<cluster, queue>>
        BY <1>2, <2>2, IdleType DEF HandleOperation, TypeOK, WorkerOK, Done
    <2>3. CASE Goto("config") /\ UNCHANGED <<cluster, queue>>
      <3>1. WorkerOK'
          BY <2>1, <2>3, GotoType DEF PC, DeploySteps, CleanupSteps
      <3> QED
          BY <1>2, <2>3, <3>1 DEF HandleOperation, TypeOK, WorkerOK
    <2>4. CASE Requeue /\ UNCHANGED cluster
        BY <1>2, <2>1, <2>4, RequeueType DEF HandleOperation, TypeOK, WorkerOK
    <2>5. ASSUME Exists(c), NEW new, new = [cluster[c] EXCEPT !.op = "none"],
                 UpdateCluster(c, new),
                 worker' = [worker EXCEPT !.pc = "config", !.seen = new]
          PROVE  TypeOK'
      <3>1. new \in ClusterObject
          BY <2>1, <2>5 DEF TypeOK, Exists, ClusterObject, Operations
      <3>2. cluster' \in [Clusters -> ClusterObject \cup {NoCluster}] /\ queue' \subseteq Clusters
          BY <2>1, <2>5, <3>1, UpdateClusterType
      <3>3. WorkerOK'
          BY <2>1, <2>5, <3>1 DEF TypeOK, WorkerOK, Worker, PC, DeploySteps, CleanupSteps
      <3> QED
          BY <1>2, <3>2, <3>3 DEF HandleOperation, TypeOK, WorkerOK
    <2> QED
        BY <1>2, <2>2, <2>3, <2>4, <2>5 DEF HandleOperation, RemoveOperationAnnotation
  <1>3. CASE ReadConfig
    <2>1. WorkerOK' /\ queue' \subseteq Clusters /\ known' \subseteq Clusters
      <3>1. worker.pc # "idle"
          BY <1>3 DEF ReadConfig
      <3>2. CASE config = NoConfig
          BY <1>3, <3>1, <3>2, RequeueType DEF ReadConfig, TypeOK
      <3>3. CASE config # NoConfig /\ worker' = Idle
          BY <1>3, <3>3, IdleType DEF ReadConfig, TypeOK
      <3>4. ASSUME config # NoConfig, NEW pc \in {"finalizer", "undeploy"},
                   worker' = [worker EXCEPT !.pc = pc, !.cfg = config,
                                 !.values = ValuesFor[config][worker.seen.purpose]],
                   pc = "finalizer" => Selected(config, worker.seen)
            PROVE  WorkerOK'
        <4>1. worker.seen \in ClusterObject /\ config \in Configs
            BY <3>1, <3>4 DEF TypeOK
        <4>2. /\ ValuesFor[config][worker.seen.purpose] \in Values \cup {NoValues}
              /\ pc = "finalizer" => ValuesFor[config][worker.seen.purpose] \in Values
            BY <3>4, <4>1, ConstantsAssumption DEF ClusterObject, Selected
        <4> QED
            BY <3>1, <3>4, <4>2
            DEF TypeOK, WorkerOK, Worker, PC, DeploySteps, CleanupSteps
      <3> QED
          BY <1>3, <3>2, <3>3, <3>4 DEF ReadConfig, Done, TypeOK
    <2> QED
        BY <1>3, <2>1 DEF ReadConfig, TypeOK, WorkerOK
  <1>4. CASE HandleCreateOrUpdate
    <2>0. /\ worker.pc # "idle" /\ worker.c \in Clusters
          /\ worker.cfg \in Configs /\ worker.values \in Values
        BY <1>4 DEF HandleCreateOrUpdate, AddFinalizer, AddKnownCluster, EnsureAccess,
                    GetAccess, CopySecrets, RemoveSecrets, DeploySource, PruneSources,
                    DeleteSources, EnsureTargetClusterNamespace, DeployHelmRelease,
                    TypeOK, DeploySteps
    <2>1. CASE AddFinalizer
      <3>1. CASE Goto("known") /\ UNCHANGED <<cluster, queue>>
          BY <2>0, <2>1, <3>1, GotoType DEF AddFinalizer, TypeOK, WorkerOK, PC, DeploySteps
      <3>2. CASE /\ AcceptsFinalizer(worker.c)
                 /\ cluster' = [cluster EXCEPT ![worker.c].finalizer = TRUE]
                 /\ worker' = [worker EXCEPT !.pc = "known", !.seen = cluster'[worker.c]]
                 /\ queue' = queue
        <4>1. [cluster[worker.c] EXCEPT !.finalizer = TRUE] \in ClusterObject
            BY <2>0, <3>2 DEF TypeOK, AcceptsFinalizer, Exists, ClusterObject
        <4>2. cluster' \in [Clusters -> ClusterObject \cup {NoCluster}]
              /\ cluster'[worker.c] \in ClusterObject
            BY <2>0, <3>2, <4>1 DEF TypeOK
        <4>3. WorkerOK'
            BY <2>0, <3>2, <4>2 DEF TypeOK, WorkerOK, Worker, PC, DeploySteps
        <4> QED
            BY <2>1, <3>2, <4>2, <4>3 DEF AddFinalizer, TypeOK, WorkerOK
      <3>3. CASE Requeue /\ UNCHANGED cluster
          BY <2>0, <2>1, <3>3, RequeueType DEF AddFinalizer, TypeOK, WorkerOK
      <3> QED
          BY <2>1, <3>1, <3>2, <3>3 DEF AddFinalizer
    <2>2. CASE AddKnownCluster
        BY <2>0, <2>2, GotoType DEF AddKnownCluster, TypeOK, WorkerOK, PC, DeploySteps
    <2>3. CASE EnsureAccess
        BY <2>0, <2>3, ReconcileAccessType DEF EnsureAccess, TypeOK, WorkerOK, PC, DeploySteps
    <2>4. CASE GetAccess
      <3>1. WorkerOK'
        <4>1. CASE Goto("copyPlatform")
            BY <2>0, <4>1, GotoType DEF PC, DeploySteps
        <4>2. CASE worker' = [worker EXCEPT !.pc = "copyPlatform", !.err = TRUE]
            BY <2>0, <4>2 DEF TypeOK, WorkerOK, Worker, PC, DeploySteps
        <4> QED
            BY <2>4, <4>1, <4>2 DEF GetAccess
      <3> QED
          BY <2>4, <3>1 DEF GetAccess, TypeOK, WorkerOK
    <2>5. ASSUME NEW site \in Sites, NEW pc \in DeploySteps, NEW next \in DeploySteps,
                 CopySecrets(site, pc, next)
          PROVE  TypeOK'
      <3>1. CASE \E s \in ToCopy(site) :
                    /\ copies' = [copies EXCEPT ![site][worker.c] = @ \cup {s}]
                    /\ worker' = [worker EXCEPT !.copied = @ \cup {s}]
                    /\ queue' = queue
        <4>1. PICK s \in ToCopy(site) :
                    /\ copies' = [copies EXCEPT ![site][worker.c] = @ \cup {s}]
                    /\ worker' = [worker EXCEPT !.copied = @ \cup {s}]
                    /\ queue' = queue
            BY <3>1
        <4>2. s \in Secrets
            BY <2>0, <4>1, ConstantsAssumption DEF ToCopy
        <4>3. copies' \in [Sites -> [Clusters -> SUBSET Secrets]]
            BY <4>1, <4>2, ZenonT(60) DEF TypeOK
        <4>4. WorkerOK'
            BY <2>0, <4>1, <4>2 DEF TypeOK, WorkerOK, Worker
        <4> QED
            BY <2>5, <4>1, <4>3, <4>4 DEF CopySecrets, TypeOK, WorkerOK
      <3>2. CASE Goto(next) /\ UNCHANGED <<copies, queue>>
          BY <2>0, <2>5, <3>2, GotoType DEF CopySecrets, TypeOK, WorkerOK, PC, DeploySteps
      <3>3. CASE Requeue /\ copies' = copies
          BY <2>0, <2>5, <3>3, RequeueType DEF CopySecrets, TypeOK, WorkerOK
      <3> QED
          BY <2>5, <3>1, <3>2, <3>3 DEF CopySecrets
    <2>6. ASSUME NEW site \in Sites, NEW pc, NEW next \in DeploySteps,
                 RemoveSecrets(site, pc, next)
          PROVE  TypeOK'
        BY <2>0, <2>6, RemoveSecretsType DEF PC, DeploySteps
    <2>7. CASE DeploySource
      <3>1. source' \in [Clusters -> [SourceKinds -> Status]]
          BY <2>7 DEF DeploySource, TypeOK, Status
      <3>2. WorkerOK'
          BY <2>0, <2>7, GotoType DEF DeploySource, PC, DeploySteps
      <3> QED
          BY <2>7, <3>1, <3>2 DEF DeploySource, TypeOK, WorkerOK
    <2>8. CASE PruneSources
        BY <2>0, <2>8, DeleteSourcesType DEF PruneSources, PC, DeploySteps
    <2>9. CASE EnsureTargetClusterNamespace
        BY <2>0, <2>9, GotoType DEF EnsureTargetClusterNamespace, TypeOK, WorkerOK, PC, DeploySteps
    <2>10. CASE DeployHelmRelease
      <3>1. release' \in [Clusters -> Release]
          BY <2>0, <2>10 DEF DeployHelmRelease, TypeOK, Release, Status
      <3> QED
          BY <2>10, <3>1, IdleType DEF DeployHelmRelease, Done, TypeOK, WorkerOK
    <2> QED
        BY <1>4, <2>1, <2>2, <2>3, <2>4, <2>5, <2>6, <2>7, <2>8, <2>9, <2>10
        DEF HandleCreateOrUpdate, Sites, DeploySteps
  <1>5. CASE HandleDelete
    <2>0. worker.pc # "idle" /\ worker.c \in Clusters /\ worker.cfg \in Configs
        BY <1>5 DEF HandleDelete, UndeployHelmRelease, RefreshAccess, CheckAccess,
                    RemoveSecrets, UndeployHelmChartSource, DeleteSources, DeleteAccess,
                    RemoveFinalizer, RemoveKnownCluster, TypeOK, CleanupSteps
    <2>1. CASE UndeployHelmRelease
      <3>1. release' \in [Clusters -> Release]
        <4>1. CASE release' = release
            BY <4>1 DEF TypeOK
        <4>2. CASE release' = [release EXCEPT ![worker.c].status = "terminating"]
          <5>0. release[worker.c] \in Release
              BY <2>0 DEF TypeOK
          <5>1. [release[worker.c] EXCEPT !.status = "terminating"] \in Release
              BY <5>0 DEF Release, Status
          <5> QED
              BY <4>2, <5>1 DEF TypeOK
        <4> QED
            BY <2>1, <4>1, <4>2 DEF UndeployHelmRelease
      <3>2. WorkerOK' /\ queue' \subseteq Clusters
          BY <2>0, <2>1, GotoType, RequeueType
          DEF UndeployHelmRelease, TypeOK, PC, DeploySteps, CleanupSteps
      <3> QED
          BY <2>1, <3>1, <3>2 DEF UndeployHelmRelease, TypeOK, WorkerOK
    <2>2. CASE RefreshAccess
        BY <2>0, <2>2, ReconcileAccessType DEF RefreshAccess, TypeOK, WorkerOK, PC, DeploySteps, CleanupSteps
    <2>3. CASE CheckAccess
        BY <2>0, <2>3, GotoType DEF CheckAccess, AccessUsable, TypeOK, WorkerOK, PC, DeploySteps, CleanupSteps
    <2>4. ASSUME NEW site \in Sites, NEW pc, NEW next \in CleanupSteps,
                 RemoveSecrets(site, pc, next)
          PROVE  TypeOK'
        BY <2>0, <2>4, RemoveSecretsType DEF PC, DeploySteps, CleanupSteps
    <2>5. CASE UndeployHelmChartSource
        BY <2>0, <2>5, DeleteSourcesType DEF UndeployHelmChartSource, PC, DeploySteps, CleanupSteps
    <2>6. CASE DeleteAccess
      <3>1. PICK status \in DeleteOutcomes(access[worker.c]) :
                /\ access' = [access EXCEPT ![worker.c] = status]
                /\ IF status = "absent"
                   THEN Goto("removeFinalizer") /\ queue' = queue
                   ELSE Requeue
          BY <2>6 DEF DeleteAccess
      <3>2. access' \in [Clusters -> AccessStatus]
          BY <3>1 DEF TypeOK, DeleteOutcomes, AccessStatus
      <3>3. WorkerOK' /\ queue' \subseteq Clusters
          BY <2>0, <3>1, GotoType, RequeueType DEF TypeOK, PC, DeploySteps, CleanupSteps
      <3> QED
          BY <2>6, <3>2, <3>3 DEF DeleteAccess, TypeOK, WorkerOK
    <2>7. CASE RemoveFinalizer
      <3>1. CASE Exists(worker.c)
        <4>1. [cluster[worker.c] EXCEPT !.finalizer = FALSE] \in ClusterObject
            BY <2>0, <3>1 DEF TypeOK, Exists, ClusterObject
        <4>2. cluster' \in [Clusters -> ClusterObject \cup {NoCluster}]
              /\ cluster'[worker.c] \in ClusterObject
          <5>1. cluster' = [cluster EXCEPT ![worker.c].finalizer = FALSE]
              BY <2>7, <3>1 DEF RemoveFinalizer
          <5>2. cluster \in [Clusters -> ClusterObject \cup {NoCluster}]
              BY DEF TypeOK
          <5> QED
              BY <2>0, <4>1, <5>1, <5>2
        <4>3. worker' = [worker EXCEPT !.pc = "forget", !.seen = cluster'[worker.c]]
            BY <2>7, <3>1 DEF RemoveFinalizer
        <4>4. WorkerOK'
            BY <2>0, <4>2, <4>3 DEF TypeOK, WorkerOK, Worker, PC, DeploySteps, CleanupSteps
        <4> QED
            BY <2>7, <3>1, <4>2, <4>4 DEF RemoveFinalizer, TypeOK, WorkerOK
      <3>2. CASE ~Exists(worker.c)
          BY <2>0, <2>7, <3>2, RequeueType DEF RemoveFinalizer, TypeOK, WorkerOK
      <3> QED
          BY <3>1, <3>2
    <2>8. CASE RemoveKnownCluster
        BY <2>8, IdleType DEF RemoveKnownCluster, Done, TypeOK, WorkerOK
    <2> QED
        BY <1>5, <2>1, <2>2, <2>3, <2>4, <2>5, <2>6, <2>7, <2>8
        DEF HandleDelete, Sites, CleanupSteps
  <1>6. CASE Fail
      BY <1>6, RequeueType DEF Fail, TypeOK, WorkerOK
  <1>7. CASE DeliverConfigEvent
      BY <1>7 DEF DeliverConfigEvent, ListKnownClusters, TypeOK
  <1>8. CASE Start
      BY <1>8 DEF Start, Listed, TypeOK
  <1>9. CASE Crash
    <2>1. WorkerOK'
        BY <1>9, IdleType DEF Crash
    <2>2. left' \in [changes: Nat, errors: Nat, crashes: Nat]
        BY <1>9 DEF Crash, TypeOK
    <2> QED
        BY <1>9, <2>1, <2>2 DEF Crash, TypeOK, WorkerOK
  <1>10. ASSUME NEW c \in Clusters,
                CreateCluster(c) \/ ChangePurposes(c) \/ Annotate(c) \/ DeleteCluster(c)
         PROVE  TypeOK'
    <2>1. CASE CreateCluster(c)
        BY <1>10, <2>1, NewClusterType
        DEF CreateCluster, Enqueue, UserChange, PlatformUnchanged, TypeOK
    <2>2. ASSUME NEW new \in ClusterObject, EditCluster(c, new) PROVE TypeOK'
        BY <1>10, <2>2, UpdateClusterType DEF EditCluster, UserChange, PlatformUnchanged, TypeOK
    <2>3. Exists(c) => cluster[c] \in ClusterObject
        BY <1>10 DEF TypeOK, Exists
    <2>4. CASE ChangePurposes(c)
      <3>1. ASSUME Exists(c), NEW p \in Purposes
            PROVE  [cluster[c] EXCEPT !.purpose = p] \in ClusterObject
          BY <2>3, <3>1 DEF ClusterObject
      <3> QED
          BY <2>2, <2>4, <3>1 DEF ChangePurposes
    <2>5. CASE Annotate(c)
      <3>1. ASSUME Exists(c), NEW a \in UserAnnotations
            PROVE  [cluster[c] EXCEPT ![a.key] = a.value] \in ClusterObject
          BY <2>3, <3>1, ConstantsAssumption DEF ClusterObject, AnnotationKeys
      <3> QED
          BY <2>2, <2>5, <3>1 DEF Annotate
    <2>6. CASE DeleteCluster(c)
      <3>1. Exists(c) => [cluster[c] EXCEPT !.deleting = TRUE] \in ClusterObject
          BY <2>3 DEF ClusterObject
      <3> QED
          BY <2>2, <2>6, <3>1 DEF DeleteCluster
    <2> QED
        BY <1>10, <2>1, <2>4, <2>5, <2>6
  <1>11. CASE ChangeConfig
      BY <1>11 DEF ChangeConfig, UserChange, PlatformUnchanged, TypeOK
  <1>12. ASSUME NEW c \in Clusters, ClusterGone(c) PROVE TypeOK'
      BY <1>12 DEF ClusterGone, Enqueue, TypeOK
  <1>13. ASSUME NEW c \in Clusters, Providers(c) PROVE TypeOK'
    <2>1. CASE ReleaseGone(c)
        BY <2>1 DEF ReleaseGone, NoRelease, Release, Status, TypeOK
    <2>2. CASE SourceGone(c)
        BY <2>2 DEF SourceGone, Status, TypeOK
    <2>3. CASE ProvideAccess(c)
        BY <2>3 DEF ProvideAccess, AccessStatus, TypeOK
    <2> QED
        BY <1>13, <2>1, <2>2, <2>3 DEF Providers
  <1>14. CASE UNCHANGED vars
      BY <1>14 DEF vars, TypeOK
  <1> QED
      BY <1>1, <1>2, <1>3, <1>4, <1>5, <1>6, <1>7, <1>8, <1>9, <1>10, <1>11, <1>12, <1>13, <1>14
      DEF Next, Step, Users

\* TypeOK is an invariant.
THEOREM TypeInvariant == Spec => []TypeOK
  BY TypeInit, TypeStep, PTL DEF Spec

-----------------------------------------------------------------------------
(* The finalizer and the set of known Clusters. *)

\* FinalizerGuard and KnownCovers are not inductive: what a step of a pass may
\* do depends on what earlier steps found, which PassGuard carries along.
GuardInv == FinalizerGuard /\ KnownCovers /\ PassGuard

\* Initially nothing is there and nothing runs.
LEMMA GuardInit == Init => GuardInv
  BY DEF Init, GuardInv, FinalizerGuard, HasResources, NoRelease, KnownCovers,
         PassGuard, Idle, PC, DeploySteps, CleanupSteps, Sites

\* Ending the pass keeps the guards when the request comes back.
LEMMA GuardRequeue ==
    ASSUME TypeOK, GuardInv, Requeue, worker.pc # "idle",
           UNCHANGED <<cluster, release, source, copies, up, known>>,
           \A c \in Clusters : access'[c] # "absent" =>
               access[c] # "absent" \/ HasFinalizer(c)
    PROVE  GuardInv'
  BY DEF GuardInv, FinalizerGuard, HasResources, HasFinalizer, Exists, KnownCovers,
         PassGuard, Ignored, Requeue, Idle, PC, DeploySteps, CleanupSteps

\* Waiting for access, or going on with it, keeps the guards.
LEMMA GuardAccess ==
    ASSUME TypeOK, GuardInv, NEW next,
           \/ worker.pc = "access" /\ next \in DeploySteps \ {"finalizer", "known"}
           \/ worker.pc = "refreshAccess" /\ next = "checkAccess",
           ReconcileAccess(next),
           UNCHANGED <<cluster, config, release, source, copies, namespace>>,
           ProcessUnchanged
    PROVE  GuardInv'
  <1>0. worker.pc # "idle" /\ worker.c \in Clusters /\ HasFinalizer(worker.c) /\ worker \in Worker
      BY DEF TypeOK, GuardInv, PassGuard, PC, DeploySteps, CleanupSteps
  <1>1. \A c \in Clusters : c # worker.c => access'[c] = access[c]
      BY DEF ReconcileAccess, TypeOK
  <1>2. CASE Requeue
      BY <1>0, <1>1, <1>2, GuardRequeue DEF ProcessUnchanged
  <1>3. CASE Goto(next) /\ queue' = queue
    <2>1. worker'.pc = next /\ worker'.c = worker.c /\ worker'.seen = worker.seen
            /\ worker'.copied = worker.copied
        BY <1>0, <1>3 DEF Goto, Worker
    <2> QED
        BY <1>0, <1>1, <1>3, <2>1
        DEF ProcessUnchanged, GuardInv, FinalizerGuard, HasResources, HasFinalizer, Exists,
            KnownCovers, PassGuard, Ignored, PC, DeploySteps, CleanupSteps
  <1> QED
      BY <1>2, <1>3 DEF ReconcileAccess

\* Copying secrets keeps the guards.
LEMMA GuardCopySecrets ==
    ASSUME TypeOK, GuardInv, NEW site \in Sites, NEW pc, NEW next,
           pc \in {"copyPlatform", "copyTarget"}, next \in {"prunePlatform", "pruneTarget"},
           CopySecrets(site, pc, next)
    PROVE  GuardInv'
  <1>0. /\ worker.pc = pc /\ worker.c \in Clusters /\ HasFinalizer(worker.c)
        /\ worker \in Worker /\ worker.c \in known /\ worker.pc # "idle"
      BY DEF CopySecrets, TypeOK, GuardInv, PassGuard, DeploySteps, CleanupSteps
  <1>1. CASE Requeue /\ copies' = copies
      BY <1>0, <1>1, GuardRequeue DEF CopySecrets, ProcessUnchanged
  <1>2. CASE /\ queue' = queue /\ worker'.c = worker.c /\ worker'.seen = worker.seen
             /\ worker'.pc \in {pc, next}
    <2>1. \A c \in Clusters : c # worker.c => copies'["platform"][c] = copies["platform"][c]
        BY DEF CopySecrets, TypeOK, Sites
    <2>2. FinalizerGuard' /\ KnownCovers'
        BY <1>0, <1>2, <2>1
        DEF CopySecrets, ProcessUnchanged, GuardInv, FinalizerGuard, HasResources,
            HasFinalizer, Exists, KnownCovers, Ignored
    <2>3. PassGuard'
        BY <1>0, <1>2
        DEF CopySecrets, ProcessUnchanged, GuardInv, PassGuard, HasFinalizer, Exists, PC,
            DeploySteps, CleanupSteps
    <2> QED
        BY <2>2, <2>3 DEF GuardInv
  <1> QED
      BY <1>0, <1>1, <1>2 DEF CopySecrets, Goto, Worker

\* Pruning or removing copies keeps the guards.
LEMMA GuardRemoveSecrets ==
    ASSUME TypeOK, GuardInv, NEW site \in Sites, NEW pc, NEW next,
           \/ /\ pc \in {"prunePlatform", "pruneTarget"}
              /\ next \in {"source", "release"}
           \/ pc = "removeTarget" /\ next = "removeSources"
           \/ pc = "removePlatform" /\ next = "deleteAccess" /\ site = "platform",
           RemoveSecrets(site, pc, next)
    PROVE  GuardInv'
  <1>0. /\ worker.pc = pc /\ worker.c \in Clusters /\ HasFinalizer(worker.c)
        /\ worker \in Worker
      BY DEF RemoveSecrets, TypeOK, GuardInv, PassGuard, PC, DeploySteps, CleanupSteps
  <1>1. \A c \in Clusters : c # worker.c => copies'["platform"][c] = copies["platform"][c]
      BY DEF RemoveSecrets, TypeOK, Sites
  <1>2. worker'.c = worker.c /\ worker'.seen = worker.seen /\ worker'.pc \in {pc, next}
      BY <1>0 DEF RemoveSecrets, Worker
  <1>3. FinalizerGuard' /\ KnownCovers'
      BY <1>0, <1>1, <1>2
      DEF RemoveSecrets, ProcessUnchanged, GuardInv, FinalizerGuard, HasResources, HasFinalizer,
          Exists, KnownCovers, Ignored
  <1>4. CASE worker' = worker
    <2>1. /\ UNCHANGED <<cluster, release, source, access, up, known, queue, worker>>
          /\ worker.pc \notin {"deleteAccess", "removeFinalizer"}
        BY <1>0, <1>4 DEF RemoveSecrets, ProcessUnchanged
    <2> QED
        BY <1>3, <2>1 DEF GuardInv, PassGuard, HasFinalizer, Exists, Ignored
  <1>5. CASE /\ ToRemove(site) = {} /\ copies' = copies
             /\ worker' = [worker EXCEPT !.pc = next, !.copied = {}]
    <2>1. worker'.pc = next /\ worker'.copied = {}
        BY <1>0, <1>5 DEF Worker
    <2>2. next = "deleteAccess" => copies["platform"][worker.c] = {}
        BY <1>0, <1>5 DEF GuardInv, PassGuard, ToRemove, PC, CleanupSteps
    <2>3. /\ UNCHANGED <<cluster, release, source, access, copies, up, known, queue>>
          /\ worker'.c = worker.c /\ worker'.seen = worker.seen
        BY <1>2, <1>5 DEF RemoveSecrets, ProcessUnchanged
    <2>4. CASE pc \in {"prunePlatform", "pruneTarget"}
        BY <1>0, <1>3, <2>1, <2>3, <2>4
        DEF GuardInv, PassGuard, HasFinalizer, Exists, PC, DeploySteps, CleanupSteps
    <2>5. CASE pc \in {"removeTarget", "removePlatform"}
        BY <1>0, <1>3, <2>1, <2>2, <2>3, <2>5
        DEF GuardInv, PassGuard, HasFinalizer, Exists, PC, DeploySteps, CleanupSteps
    <2> QED
        BY <2>4, <2>5
  <1> QED
      BY <1>3, <1>4, <1>5 DEF RemoveSecrets, GuardInv

\* Deleting sources keeps the guards.
LEMMA GuardDeleteSources ==
    ASSUME TypeOK, GuardInv, NEW pc, NEW next, NEW obsolete,
           \/ pc = "pruneSources" /\ next = "namespace"
           \/ pc = "removeSources" /\ next = "removePlatform" /\ obsolete = SourceKinds,
           DeleteSources(pc, obsolete, next)
    PROVE  GuardInv'
  <1>0. /\ worker.pc = pc /\ worker.c \in Clusters /\ HasFinalizer(worker.c)
        /\ worker \in Worker
      BY DEF DeleteSources, TypeOK, GuardInv, PassGuard, PC, DeploySteps, CleanupSteps
  <1>1. \A c \in Clusters : c # worker.c => source'[c] = source[c]
      BY DEF DeleteSources, TypeOK
  <1>2. /\ worker'.c = worker.c /\ worker'.seen = worker.seen
        /\ worker'.copied = worker.copied /\ worker'.pc \in {pc, next}
        /\ worker'.pc = "removePlatform" => source' = source
               /\ \A k \in SourceKinds : source[worker.c][k] # "live"
      BY <1>0 DEF DeleteSources, Goto, Worker
  <1>3. FinalizerGuard' /\ KnownCovers'
      BY <1>0, <1>1, <1>2
      DEF DeleteSources, ProcessUnchanged, GuardInv, FinalizerGuard, HasResources, HasFinalizer,
          Exists, KnownCovers, Ignored
  <1>4. PassGuard'
      BY <1>0, <1>2
      DEF DeleteSources, ProcessUnchanged, GuardInv, PassGuard, HasFinalizer,
          Exists, Ignored, PC, DeploySteps, CleanupSteps
  <1> QED
      BY <1>3, <1>4 DEF GuardInv

\* Every step keeps the guards.
LEMMA GuardStep == TypeOK /\ GuardInv /\ [Next]_vars => GuardInv'
  <1> SUFFICES ASSUME TypeOK, GuardInv, [Next]_vars PROVE GuardInv'
      OBVIOUS
  <1> USE DEF ProcessUnchanged, GuardInv, FinalizerGuard, HasResources, HasFinalizer, Exists,
              KnownCovers, PassGuard, Ignored
  <1>0. /\ cluster \in [Clusters -> ClusterObject \cup {NoCluster}]
        /\ release \in [Clusters -> Release]
        /\ source \in [Clusters -> [SourceKinds -> Status]]
        /\ access \in [Clusters -> AccessStatus]
        /\ copies \in [Sites -> [Clusters -> SUBSET Secrets]]
        /\ worker \in Worker
        /\ worker.pc = "idle" => worker = Idle
        /\ worker.pc # "idle" => worker.c \in Clusters /\ worker.seen \in ClusterObject
      BY DEF TypeOK
  <1> USE <1>0
  <1>1. ASSUME NEW c \in Clusters, GetCluster(c) PROVE GuardInv'
    <2>1. FinalizerGuard'
        BY <1>1 DEF GetCluster
    <2>2. CASE Exists(c)
      <3>1. /\ worker'.pc = "operation" /\ worker'.c = c /\ worker'.seen = cluster[c]
            /\ queue' = queue \ {c} /\ known' = known /\ up /\ worker'.copied = {}
          BY <1>1, <2>2 DEF GetCluster, Idle
      <3>2. KnownCovers'
          BY <1>1, <2>2, <3>1, SentinelsAssumption DEF GetCluster, Idle
      <3>3. PassGuard'
          BY <1>1, <2>2, <3>1 DEF GetCluster, PC, DeploySteps, CleanupSteps
      <3> QED
          BY <2>1, <3>2, <3>3
    <2>3. CASE ~Exists(c)
      <3>1. worker' = worker /\ worker.pc = "idle" /\ queue' = queue \ {c} /\ known' = known \ {c}
          BY <1>1, <2>3 DEF GetCluster
      <3>2. KnownCovers'
          BY <1>1, <2>3, <3>1 DEF GetCluster
      <3>3. PassGuard'
          BY <1>1, <2>3, <3>1 DEF GetCluster, PC, DeploySteps, CleanupSteps
      <3> QED
          BY <2>1, <3>2, <3>3
    <2> QED
        BY <2>2, <2>3
  <1>2. CASE ReadConfig
    <2>0. worker.pc = "config" /\ worker.c \in Clusters
        BY <1>2 DEF ReadConfig
    <2>1. CASE config = NoConfig
        BY <1>2, <2>0, <2>1, GuardRequeue DEF ReadConfig
    <2>2. ASSUME NEW pc \in {"finalizer", "undeploy"},
                 worker' = [worker EXCEPT !.pc = pc, !.cfg = config,
                               !.values = ValuesFor[config][worker.seen.purpose]],
                 pc = "undeploy" => worker.seen.finalizer,
                 queue' = queue, known' = known
          PROVE  GuardInv'
      <3>1. worker'.pc = pc /\ worker'.c = worker.c /\ worker'.seen = worker.seen
            /\ worker'.copied = worker.copied
          BY <2>2 DEF Worker
      <3> QED
          BY <1>2, <2>0, <2>2, <3>1 DEF ReadConfig, PC, DeploySteps, CleanupSteps
    <2>3. CASE ~worker.seen.finalizer /\ Done /\ known' = known \ {worker.c} /\ queue' = queue
        BY <1>2, <2>0, <2>3 DEF ReadConfig, Done, Idle, PC, DeploySteps, CleanupSteps
    <2> QED
        BY <1>2, <2>1, <2>2, <2>3 DEF ReadConfig
  <1>3. CASE Fail
      BY <1>3, GuardRequeue DEF Fail
  <1>4. CASE DeliverConfigEvent
      BY <1>4 DEF DeliverConfigEvent
  <1>5. CASE Start
      BY <1>5 DEF Start, Listed
  <1>6. CASE Crash
      BY <1>6 DEF Crash, Idle, PC, DeploySteps, CleanupSteps
  <1>7. CASE ChangeConfig
      BY <1>7 DEF ChangeConfig, PlatformUnchanged
  <1>8. ASSUME NEW c \in Clusters, ClusterGone(c) PROVE GuardInv'
      BY <1>8 DEF ClusterGone, Enqueue, ClusterObject
  <1>9. CASE UNCHANGED vars
      BY <1>9 DEF vars
  <1>10. CASE HandleOperation
    <2>0. worker.pc = "operation" /\ worker.c \in Clusters
        BY <1>10 DEF HandleOperation
    <2>1. CASE EffectiveOperation(worker.seen) = "ignore" /\ Done /\ UNCHANGED <<cluster, queue>>
      <3>1. Ignored(worker.seen)
          BY <2>1 DEF EffectiveOperation
      <3> QED
          BY <1>10, <2>0, <2>1, <3>1 DEF HandleOperation, Done, Idle, PC, DeploySteps, CleanupSteps
    <2>2. CASE Goto("config") /\ UNCHANGED <<cluster, queue>>
      <3>1. worker'.pc = "config" /\ worker'.c = worker.c /\ worker'.seen = worker.seen
            /\ worker'.copied = worker.copied
          BY <2>2 DEF Goto, Worker
      <3> QED
          BY <1>10, <2>0, <2>2, <3>1 DEF HandleOperation, PC, DeploySteps, CleanupSteps
    <2>3. CASE Requeue /\ UNCHANGED cluster
        BY <1>10, <2>0, <2>3, GuardRequeue DEF HandleOperation
    <2>4. ASSUME Exists(worker.c), NEW new, new = [cluster[worker.c] EXCEPT !.op = "none"],
                 UpdateCluster(worker.c, new),
                 worker' = [worker EXCEPT !.pc = "config", !.seen = new]
          PROVE  GuardInv'
      <3>1. new \in ClusterObject /\ new.finalizer = cluster[worker.c].finalizer
          BY <2>0, <2>4 DEF ClusterObject, Operations
      <3>2. worker'.pc = "config" /\ worker'.c = worker.c /\ worker'.seen = new
             /\ worker'.copied = worker.copied
          BY <2>4 DEF Worker
      <3>3. /\ cluster' = [cluster EXCEPT ![worker.c] = new]
            /\ queue \subseteq queue'
            /\ Exists(worker.c)
          BY <2>4 DEF UpdateCluster, Enqueue
      <3>4. \A c \in Clusters : HasFinalizer(c)' <=> HasFinalizer(c)
          BY <2>0, <2>4, <3>1, <3>3, SentinelsAssumption
      <3>5. FinalizerGuard'
          BY <1>10, <3>4 DEF HandleOperation
      <3>6. KnownCovers'
          BY <1>10, <2>0, <3>2, <3>3, <3>4 DEF HandleOperation
      <3>7. PassGuard'
          BY <1>10, <2>0, <3>1, <3>2, <3>3, <3>4 DEF HandleOperation, PC, DeploySteps, CleanupSteps
      <3> QED
          BY <3>5, <3>6, <3>7
    <2> QED
        BY <1>10, <2>1, <2>2, <2>3, <2>4 DEF HandleOperation, RemoveOperationAnnotation
  <1>11. ASSUME NEW c \in Clusters,
                CreateCluster(c) \/ ChangePurposes(c) \/ Annotate(c) \/ DeleteCluster(c)
         PROVE  GuardInv'
    <2>1. CASE CreateCluster(c)
      <3>1. PICK p \in Purposes : cluster' = [cluster EXCEPT ![c] = NewCluster(p)]
          BY <2>1 DEF CreateCluster
      <3>2. \A d \in Clusters : HasFinalizer(d)' <=> HasFinalizer(d)
          BY <2>1, <3>1, NewClusterType, SentinelsAssumption DEF CreateCluster, NewCluster
      <3>3. queue \subseteq queue' /\ (up => c \in queue')
          BY <2>1 DEF CreateCluster, Enqueue
      <3>4. FinalizerGuard' /\ KnownCovers'
          BY <2>1, <3>1, <3>2, <3>3 DEF CreateCluster, PlatformUnchanged
      <3>5. PassGuard'
          BY <2>1, <3>1, <3>2, <3>3 DEF CreateCluster, PlatformUnchanged, PC, DeploySteps, CleanupSteps
      <3> QED
          BY <3>4, <3>5
    <2>2. ASSUME Exists(c), NEW new \in ClusterObject, EditCluster(c, new),
                 new.finalizer = cluster[c].finalizer,
                 up /\ Ignored(cluster[c]) /\ ~Ignored(new) => c \in queue'
          PROVE  GuardInv'
      <3>1. cluster' = [cluster EXCEPT ![c] = new] /\ queue \subseteq queue'
            /\ UNCHANGED <<release, source, access, copies, up, known, worker>>
          BY <2>2 DEF EditCluster, UpdateCluster, Enqueue, PlatformUnchanged
      <3>2. \A d \in Clusters : HasFinalizer(d)' <=> HasFinalizer(d)
          BY <1>11, <2>2, <3>1, SentinelsAssumption
      <3>3. FinalizerGuard' /\ KnownCovers'
          BY <2>2, <3>1, <3>2
      <3>4. PassGuard'
          BY <2>2, <3>1, <3>2 DEF PC, DeploySteps, CleanupSteps
      <3> QED
          BY <3>3, <3>4
    <2>3. Exists(c) => cluster[c] \in ClusterObject
        BY <1>11
    <2>4. CASE ChangePurposes(c)
      <3>1. ASSUME Exists(c), NEW p \in Purposes
            PROVE  LET new == [cluster[c] EXCEPT !.purpose = p]
                   IN  /\ new \in ClusterObject
                       /\ new.finalizer = cluster[c].finalizer
                       /\ Ignored(cluster[c]) => Ignored(new)
          BY <2>3, <3>1 DEF ClusterObject
      <3> QED
          BY <2>2, <2>4, <3>1 DEF ChangePurposes
    <2>5. CASE Annotate(c)
      <3>1. PICK a \in UserAnnotations : EditCluster(c, [cluster[c] EXCEPT ![a.key] = a.value])
          BY <2>5 DEF Annotate
      <3> DEFINE new == [cluster[c] EXCEPT ![a.key] = a.value]
      <3>2. Exists(c) /\ a.key \in AnnotationKeys /\ a.value \in Operations
          BY <2>5, ConstantsAssumption DEF Annotate
      <3>3. new \in ClusterObject /\ new.finalizer = cluster[c].finalizer
          BY <2>3, <3>2 DEF ClusterObject, AnnotationKeys
      <3>4. Ignored(cluster[c]) /\ ~Ignored(new) => UpdatePasses(cluster[c], new)
          BY DEF UpdatePasses, AnnotationTrigger, AnnotationKeys
      <3>5. up /\ Ignored(cluster[c]) /\ ~Ignored(new) => c \in queue'
          BY <3>1, <3>4 DEF EditCluster, UpdateCluster, Enqueue
      <3> QED
          BY <2>2, <3>1, <3>2, <3>3, <3>5
    <2>6. CASE DeleteCluster(c)
      <3>1. Exists(c) => LET new == [cluster[c] EXCEPT !.deleting = TRUE]
                         IN  /\ new \in ClusterObject
                             /\ new.finalizer = cluster[c].finalizer
                             /\ Ignored(cluster[c]) => Ignored(new)
          BY <2>3 DEF ClusterObject
      <3> QED
          BY <2>2, <2>6, <3>1 DEF DeleteCluster
    <2> QED
        BY <1>11, <2>1, <2>4, <2>5, <2>6
  <1>12. ASSUME NEW c \in Clusters, Providers(c) PROVE GuardInv'
    <2>1. CASE ReleaseGone(c)
        BY <2>1 DEF ReleaseGone, NoRelease, PC, DeploySteps, CleanupSteps
    <2>2. CASE SourceGone(c)
        BY <2>2 DEF SourceGone, PC, DeploySteps, CleanupSteps
    <2>3. CASE ProvideAccess(c)
        BY <2>3 DEF ProvideAccess, PC, DeploySteps, CleanupSteps
    <2> QED
        BY <1>12, <2>1, <2>2, <2>3 DEF Providers
  <1>13. CASE HandleCreateOrUpdate
    <2>1. CASE AddFinalizer
      <3>0. worker.pc = "finalizer" /\ worker.c \in Clusters
          BY <2>1 DEF AddFinalizer
      <3>1. CASE worker.seen.finalizer /\ Goto("known") /\ UNCHANGED <<cluster, queue>>
        <4>1. worker'.pc = "known" /\ worker'.c = worker.c /\ worker'.seen = worker.seen
              /\ worker'.copied = worker.copied
            BY <3>1 DEF Goto, Worker
        <4> QED
            BY <2>1, <3>0, <3>1, <4>1 DEF AddFinalizer, PC, DeploySteps, CleanupSteps
      <3>2. CASE /\ AcceptsFinalizer(worker.c)
                 /\ cluster' = [cluster EXCEPT ![worker.c].finalizer = TRUE]
                 /\ worker' = [worker EXCEPT !.pc = "known", !.seen = cluster'[worker.c]]
                 /\ queue' = queue
        <4> DEFINE new == [cluster[worker.c] EXCEPT !.finalizer = TRUE]
        <4>1. new \in ClusterObject /\ new.finalizer /\ (Ignored(new) <=> Ignored(cluster[worker.c]))
              /\ cluster' = [cluster EXCEPT ![worker.c] = new]
            BY <3>0, <3>2 DEF AcceptsFinalizer, ClusterObject
        <4>2. worker'.pc = "known" /\ worker'.c = worker.c /\ worker'.seen = new
              /\ worker'.copied = worker.copied
            BY <3>0, <3>2 DEF Worker
        <4>3. \A c \in Clusters : HasFinalizer(c)' <=> HasFinalizer(c) \/ c = worker.c
            BY <3>0, <4>1, SentinelsAssumption
        <4>4. FinalizerGuard'
            BY <2>1, <4>3 DEF AddFinalizer
        <4>5. KnownCovers'
            BY <2>1, <3>2, <4>1, <4>2, <4>3 DEF AddFinalizer
        <4>6. PassGuard'
            BY <2>1, <3>0, <3>2, <4>1, <4>2, <4>3 DEF AddFinalizer, PC, DeploySteps, CleanupSteps
        <4> QED
            BY <4>4, <4>5, <4>6
      <3>3. CASE Requeue /\ UNCHANGED cluster
          BY <2>1, <3>0, <3>3, GuardRequeue DEF AddFinalizer
      <3> QED
          BY <2>1, <3>1, <3>2, <3>3 DEF AddFinalizer
    <2>2. CASE AddKnownCluster
      <3>1. worker'.pc = "access" /\ worker'.c = worker.c /\ worker'.seen = worker.seen
            /\ worker'.copied = worker.copied
          BY <2>2 DEF AddKnownCluster, Goto, Worker
      <3> QED
          BY <2>2, <3>1 DEF AddKnownCluster, PC, DeploySteps, CleanupSteps
    <2>3. CASE EnsureAccess
        BY <2>3, GuardAccess DEF EnsureAccess, PC, DeploySteps, CleanupSteps
    <2>4. CASE GetAccess
      <3>1. worker'.pc = "copyPlatform" /\ worker'.c = worker.c /\ worker'.seen = worker.seen
            /\ worker'.copied = worker.copied
          BY <2>4 DEF GetAccess, Goto, Worker
      <3> QED
          BY <2>4, <3>1 DEF GetAccess, PC, DeploySteps, CleanupSteps
    <2>5. CASE \/ CopySecrets("platform", "copyPlatform", "prunePlatform")
               \/ CopySecrets("target", "copyTarget", "pruneTarget")
        BY <2>5, GuardCopySecrets DEF Sites
    <2>6. CASE \/ RemoveSecrets("platform", "prunePlatform", "source")
               \/ RemoveSecrets("target", "pruneTarget", "release")
        BY <2>6, GuardRemoveSecrets DEF Sites
    <2>7. CASE DeploySource
      <3>1. worker'.pc = "pruneSources" /\ worker'.c = worker.c /\ worker'.seen = worker.seen
            /\ worker'.copied = worker.copied
          BY <2>7 DEF DeploySource, Goto, Worker
      <3>2. \A c \in Clusters : c # worker.c => source'[c] = source[c]
          BY <2>7 DEF DeploySource
      <3> QED
          BY <2>7, <3>1, <3>2 DEF DeploySource, PC, DeploySteps, CleanupSteps
    <2>8. CASE PruneSources
        BY <2>8, GuardDeleteSources DEF PruneSources
    <2>9. CASE EnsureTargetClusterNamespace
      <3>1. worker'.pc = "copyTarget" /\ worker'.c = worker.c /\ worker'.seen = worker.seen
            /\ worker'.copied = worker.copied
          BY <2>9 DEF EnsureTargetClusterNamespace, Goto, Worker
      <3> QED
          BY <2>9, <3>1 DEF EnsureTargetClusterNamespace, PC, DeploySteps, CleanupSteps
    <2>10. CASE DeployHelmRelease
      <3>1. worker.pc = "release" /\ worker.c \in Clusters /\ HasFinalizer(worker.c)
            /\ worker.c \in known /\ worker'.pc = "idle"
          BY <2>10 DEF DeployHelmRelease, DeploySteps, Done, Idle
      <3>2. \A c \in Clusters : c # worker.c => release'[c] = release[c]
          BY <2>10 DEF DeployHelmRelease
      <3> QED
          BY <2>10, <3>1, <3>2 DEF DeployHelmRelease, Done, Idle, PC, DeploySteps, CleanupSteps
    <2> QED
        BY <1>13, <2>1, <2>2, <2>3, <2>4, <2>5, <2>6, <2>7, <2>8, <2>9, <2>10
        DEF HandleCreateOrUpdate
  <1>14. CASE HandleDelete
    <2>1. CASE UndeployHelmRelease
      <3>0. worker.pc = "undeploy" /\ worker.c \in Clusters /\ HasFinalizer(worker.c)
          BY <2>1 DEF UndeployHelmRelease, DeploySteps, CleanupSteps
      <3>1. CASE release[worker.c].status = "absent" /\ Goto("refreshAccess")
                 /\ UNCHANGED <<release, queue>>
        <4>1. worker'.pc = "refreshAccess" /\ worker'.c = worker.c /\ worker'.seen = worker.seen
              /\ worker'.copied = worker.copied
            BY <3>1 DEF Goto, Worker
        <4> QED
            BY <2>1, <3>0, <3>1, <4>1 DEF UndeployHelmRelease, PC, DeploySteps, CleanupSteps
      <3>2. CASE /\ release' = [release EXCEPT ![worker.c].status = "terminating"]
                 /\ Requeue
        <4>1. worker'.pc = "idle" /\ queue \subseteq queue' /\ worker.c \in queue'
              /\ worker'.copied = {}
            BY <3>2 DEF Requeue, Idle
        <4>2. \A c \in Clusters : c # worker.c => release'[c] = release[c]
            BY <3>2
        <4> QED
            BY <2>1, <3>0, <4>1, <4>2 DEF UndeployHelmRelease, PC, DeploySteps, CleanupSteps
      <3> QED
          BY <2>1, <3>1, <3>2 DEF UndeployHelmRelease
    <2>2. CASE RefreshAccess
        BY <2>2, GuardAccess DEF RefreshAccess
    <2>3. CASE CheckAccess
      <3>1. worker'.pc \in {"removeTarget", "removeSources"} /\ worker'.c = worker.c
            /\ worker'.seen = worker.seen /\ worker'.copied = worker.copied
          BY <2>3 DEF CheckAccess, Goto, Worker
      <3> QED
          BY <2>3, <3>1 DEF CheckAccess, PC, DeploySteps, CleanupSteps
    <2>4. CASE \/ RemoveSecrets("target", "removeTarget", "removeSources")
               \/ RemoveSecrets("platform", "removePlatform", "deleteAccess")
        BY <2>4, GuardRemoveSecrets DEF Sites
    <2>5. CASE UndeployHelmChartSource
        BY <2>5, GuardDeleteSources DEF UndeployHelmChartSource
    <2>6. CASE DeleteAccess
      <3>0. worker.pc = "deleteAccess" /\ worker.c \in Clusters /\ HasFinalizer(worker.c)
          BY <2>6 DEF DeleteAccess, DeploySteps, CleanupSteps
      <3>1. PICK status \in DeleteOutcomes(access[worker.c]) :
                /\ access' = [access EXCEPT ![worker.c] = status]
                /\ IF status = "absent"
                   THEN Goto("removeFinalizer") /\ queue' = queue
                   ELSE Requeue
          BY <2>6 DEF DeleteAccess
      <3>2. \A c \in Clusters : c # worker.c => access'[c] = access[c]
          BY <3>1
      <3>3. CASE status = "absent"
        <4>1. worker'.pc = "removeFinalizer" /\ worker'.c = worker.c /\ worker'.seen = worker.seen
              /\ worker'.copied = worker.copied /\ access'[worker.c] = "absent" /\ queue' = queue
            BY <3>0, <3>1, <3>3 DEF Goto, Worker
        <4> QED
            BY <2>6, <3>0, <3>2, <4>1 DEF DeleteAccess, PC, DeploySteps, CleanupSteps
      <3>4. CASE status # "absent"
          BY <2>6, <3>0, <3>1, <3>2, <3>4, GuardRequeue DEF DeleteAccess
      <3> QED
          BY <3>3, <3>4
    <2>7. CASE RemoveFinalizer
      <3>0. worker.pc = "removeFinalizer" /\ worker.c \in Clusters /\ HasFinalizer(worker.c)
          BY <2>7 DEF RemoveFinalizer, DeploySteps, CleanupSteps
      <3> DEFINE new == [cluster[worker.c] EXCEPT !.finalizer = FALSE]
      <3>1. new \in ClusterObject /\ ~new.finalizer /\ cluster' = [cluster EXCEPT ![worker.c] = new]
          BY <2>7, <3>0 DEF RemoveFinalizer, ClusterObject
      <3>2. worker'.pc = "forget" /\ worker'.c = worker.c /\ worker'.seen = new
            /\ worker'.copied = worker.copied /\ queue' = queue
          BY <2>7, <3>0, <3>1 DEF RemoveFinalizer, Worker
      <3>3. \A c \in Clusters : HasFinalizer(c)' <=> HasFinalizer(c) /\ c # worker.c
          BY <3>0, <3>1
      <3>4. ~HasResources(worker.c)
          BY <3>0 DEF PC, DeploySteps, CleanupSteps
      <3>5. FinalizerGuard'
          BY <2>7, <3>3, <3>4 DEF RemoveFinalizer
      <3>6. KnownCovers'
          BY <2>7, <3>1, <3>2, <3>3 DEF RemoveFinalizer
      <3>7. PassGuard'
          BY <2>7, <3>0, <3>1, <3>2, <3>3 DEF RemoveFinalizer, PC, DeploySteps, CleanupSteps
      <3> QED
          BY <3>5, <3>6, <3>7
    <2>8. CASE RemoveKnownCluster
      <3>1. worker.pc = "forget" /\ ~HasFinalizer(worker.c) /\ worker'.pc = "idle"
            /\ worker'.copied = {}
          BY <2>8 DEF RemoveKnownCluster, Done, Idle
      <3> QED
          BY <2>8, <3>1 DEF RemoveKnownCluster, PC, DeploySteps, CleanupSteps
    <2> QED
        BY <1>14, <2>1, <2>2, <2>3, <2>4, <2>5, <2>6, <2>7, <2>8 DEF HandleDelete
  <1> QED
      BY <1>1, <1>2, <1>3, <1>4, <1>5, <1>6, <1>7, <1>8, <1>9, <1>10, <1>11, <1>12, <1>13, <1>14
      DEF Next, Step, Users

\* GuardInv is an invariant.
THEOREM GuardInvariant == Spec => []GuardInv
  <1>1. TypeOK /\ GuardInv /\ [Next]_vars => GuardInv'
      BY GuardStep
  <1> QED
      BY <1>1, GuardInit, TypeInvariant, PTL DEF Spec

\* No resource of a Cluster exists without the finalizer on it, for any number
\* of Clusters, edits, failures and restarts.
THEOREM FinalizerGuardInvariant == Spec => []FinalizerGuard
  <1>1. GuardInv => FinalizerGuard
      BY DEF GuardInv
  <1> QED
      BY <1>1, GuardInvariant, PTL

\* What a pass relies on holds whenever it runs: no edit, failure or provider
\* can take it away between two of its calls.
THEOREM PassGuardInvariant == Spec => []PassGuard
  <1>1. GuardInv => PassGuard
      BY DEF GuardInv
  <1> QED
      BY <1>1, GuardInvariant, PTL

\* Every Cluster with the finalizer is known, queued, being worked on or
\* ignored whenever the controller runs.
THEOREM KnownCoversInvariant == Spec => []KnownCovers
  <1>1. GuardInv => KnownCovers
      BY DEF GuardInv
  <1> QED
      BY <1>1, GuardInvariant, PTL

(***************************************************************************)
(* The access to target clusters: that it outlives the HelmRelease, and,    *)
(* when the access library reports no terminating AccessRequest as ready,   *)
(* that nothing stays behind on a target cluster.                           *)
(***************************************************************************)

\* Only DeleteAccess takes a granted access away.
LEMMA AccessKept ==
    TypeOK /\ [Next]_vars /\ ~DeleteAccess
        => \A c \in Clusters : access[c] = "granted" => access'[c] = "granted"
  <1> SUFFICES ASSUME TypeOK, [Next]_vars, ~DeleteAccess
               PROVE  \A c \in Clusters : access[c] = "granted" => access'[c] = "granted"
      OBVIOUS
  <1> USE DEF ProcessUnchanged, PlatformUnchanged
  <1>1. ASSUME NEW next, ReconcileAccess(next)
        PROVE  \A c \in Clusters : access[c] = "granted" => access'[c] = "granted"
      BY <1>1 DEF ReconcileAccess, AccessOutcomes, TypeOK
  <1>2. ASSUME NEW c \in Clusters, ProvideAccess(c)
        PROVE  \A d \in Clusters : access[d] = "granted" => access'[d] = "granted"
      BY <1>2 DEF ProvideAccess, TypeOK
  <1>3. CASE UNCHANGED access
      BY <1>3
  <1> QED
      BY <1>1, <1>2, <1>3
      DEF Next, Step, Users, Providers, vars, GetCluster, HandleOperation, ReadConfig,
          HandleCreateOrUpdate, AddFinalizer, AddKnownCluster, EnsureAccess, GetAccess,
          CopySecrets, RemoveSecrets, DeploySource, PruneSources, DeleteSources,
          EnsureTargetClusterNamespace, DeployHelmRelease, HandleDelete,
          UndeployHelmRelease, RefreshAccess, CheckAccess, UndeployHelmChartSource,
          RemoveFinalizer, RemoveKnownCluster, Fail, DeliverConfigEvent, Start, Crash,
          CreateCluster, ChangePurposes, Annotate, DeleteCluster, EditCluster, ChangeConfig,
          ReleaseGone, SourceGone, ClusterGone

\* Access is given up only for Clusters without a HelmRelease, whatever the
\* access library reports.
THEOREM AccessOutlivesReleaseProperty == Spec => AccessOutlivesRelease
  <1> DEFINE Outlives == \A c \in Clusters :
                            access[c] = "granted" /\ access'[c] # "granted"
                                => release[c].status = "absent"
  <1>1. TypeOK /\ GuardInv /\ [Next]_vars => [Outlives]_vars
    <2> SUFFICES ASSUME TypeOK, GuardInv, [Next]_vars PROVE Outlives
        OBVIOUS
    <2>1. CASE DeleteAccess
      <3>1. release[worker.c].status = "absent"
          BY <2>1 DEF DeleteAccess, GuardInv, PassGuard, CleanupSteps
      <3>2. \A c \in Clusters : c # worker.c => access'[c] = access[c]
          BY <2>1 DEF DeleteAccess, TypeOK
      <3> QED
          BY <3>1, <3>2
    <2> QED
        BY <2>1, AccessKept
  <1> QED
      BY <1>1, TypeInvariant, GuardInvariant, PTL DEF Spec, AccessOutlivesRelease

-----------------------------------------------------------------------------
(* Nothing is left on a target cluster. *)

\* Where a pass relies on a granted access, and where on an empty target.
GrantedSteps == (DeploySteps \ {"finalizer", "known", "access"})
                    \cup {"checkAccess", "removeTarget"}

EmptiedSteps == {"removeSources", "removePlatform", "deleteAccess", "removeFinalizer"}

AccessInv == NoTargetOrphans /\ ReleaseHasAccess /\ AccessGuard

\* Initially there are no copies and no releases.
LEMMA AccessInit == Init => AccessInv
  BY DEF Init, AccessInv, NoTargetOrphans, ReleaseHasAccess, AccessGuard, NoRelease, Idle,
         Sites, DeploySteps

\* A step keeps AccessInv if it keeps releases, accesses and finalizers, adds
\* no copy and gets to no step that relies on the access from elsewhere.
LEMMA AccessFrame ==
    ASSUME AccessInv,
           \A c \in Clusters :
               /\ release'[c].status # "absent" => release[c].status # "absent"
               /\ access[c] = "granted" => access'[c] = "granted"
               /\ HasFinalizer(c) => HasFinalizer(c)'
               /\ copies["target"][c] = {} => copies'["target"][c] = {},
           worker'.pc \in GrantedSteps => worker.pc \in GrantedSteps /\ worker'.c = worker.c,
           worker'.pc \in EmptiedSteps => worker.pc \in EmptiedSteps /\ worker'.c = worker.c,
           worker.pc # "idle" => worker.c \in Clusters
    PROVE  AccessInv'
  <1>1. NoTargetOrphans' /\ ReleaseHasAccess'
      BY DEF AccessInv, NoTargetOrphans, ReleaseHasAccess
  <1>2. AccessGuard'
    <2>1. ASSUME worker'.pc \in GrantedSteps PROVE access'[worker'.c] = "granted"
        BY <2>1 DEF AccessInv, AccessGuard, GrantedSteps, DeploySteps
    <2>2. ASSUME worker'.pc \in EmptiedSteps PROVE copies'["target"][worker'.c] = {}
        BY <2>2 DEF AccessInv, AccessGuard, EmptiedSteps
    <2> QED
        BY <2>1, <2>2 DEF AccessGuard, GrantedSteps, EmptiedSteps
  <1> QED
      BY <1>1, <1>2 DEF AccessInv

\* Only AddFinalizer and RemoveFinalizer touch a finalizer.
LEMMA FinalizerSame ==
    TypeOK /\ [Next]_vars /\ ~AddFinalizer /\ ~RemoveFinalizer
        => \A c \in Clusters : HasFinalizer(c)' = HasFinalizer(c)
  <1> DEFINE Same == \A c \in Clusters : HasFinalizer(c)' = HasFinalizer(c)
  <1> SUFFICES ASSUME TypeOK, [Next]_vars, ~AddFinalizer, ~RemoveFinalizer PROVE Same
      OBVIOUS
  <1> USE DEF ProcessUnchanged, PlatformUnchanged, HasFinalizer, Exists
  <1>0. cluster \in [Clusters -> ClusterObject \cup {NoCluster}]
      BY DEF TypeOK
  <1>1. ASSUME NEW c \in Clusters, NEW new \in ClusterObject,
               cluster' = [cluster EXCEPT ![c] = new],
               HasFinalizer(c) <=> new.finalizer
        PROVE  Same
    <2>1. new # NoCluster /\ new.finalizer \in BOOLEAN
        BY SentinelsAssumption DEF ClusterObject
    <2>2. cluster'[c] = new /\ \A d \in Clusters \ {c} : cluster'[d] = cluster[d]
        BY <1>0, <1>1
    <2>3. cluster[c] # NoCluster => cluster[c].finalizer \in BOOLEAN
        BY <1>0 DEF ClusterObject
    <2> QED
        BY <1>1, <2>1, <2>2, <2>3
  <1>2. CASE UNCHANGED cluster
      BY <1>2
  <1>3. CASE HandleOperation
    <2>1. CASE Exists(worker.c)
      <3>1. worker.c \in Clusters /\ cluster[worker.c] \in ClusterObject
          BY <1>3, <2>1 DEF HandleOperation, TypeOK
      <3>2. [cluster[worker.c] EXCEPT !.op = "none"] \in ClusterObject
          BY <3>1 DEF ClusterObject, Operations
      <3> QED
          BY <1>1, <1>2, <1>3, <2>1, <3>1, <3>2
          DEF HandleOperation, RemoveOperationAnnotation, UpdateCluster, ClusterObject
    <2>2. CASE ~Exists(worker.c)
        BY <1>2, <1>3, <2>2 DEF HandleOperation, RemoveOperationAnnotation
    <2> QED
        BY <2>1, <2>2
  <1>4. ASSUME NEW c \in Clusters, CreateCluster(c) PROVE Same
    <2>1. PICK p \in Purposes : cluster' = [cluster EXCEPT ![c] = NewCluster(p)]
        BY <1>4 DEF CreateCluster
    <2>2. ~HasFinalizer(c) /\ NewCluster(p) \in ClusterObject /\ ~NewCluster(p).finalizer
        BY <1>4, NewClusterType DEF CreateCluster, NewCluster
    <2> QED
        BY <1>1, <2>1, <2>2
  <1>5. ASSUME NEW c \in Clusters, ChangePurposes(c) \/ DeleteCluster(c) PROVE Same
    <2>1. cluster[c] \in ClusterObject
        BY <1>0, <1>5 DEF ChangePurposes, DeleteCluster
    <2>2. /\ \A p \in Purposes : [cluster[c] EXCEPT !.purpose = p] \in ClusterObject
          /\ [cluster[c] EXCEPT !.deleting = TRUE] \in ClusterObject
        BY <2>1 DEF ClusterObject
    <2>3. PICK new \in ClusterObject : /\ cluster' = [cluster EXCEPT ![c] = new]
                                       /\ new.finalizer = cluster[c].finalizer
        BY <1>5, <2>1, <2>2
        DEF ChangePurposes, DeleteCluster, EditCluster, UpdateCluster, ClusterObject
    <2>4. Exists(c)
        BY <1>5 DEF ChangePurposes, DeleteCluster
    <2> QED
        BY <1>1, <2>3, <2>4
  <1>6. ASSUME NEW c \in Clusters, Annotate(c) PROVE Same
    <2>1. PICK a \in UserAnnotations :
              cluster' = [cluster EXCEPT ![c] = [cluster[c] EXCEPT ![a.key] = a.value]]
        BY <1>6 DEF Annotate, EditCluster, UpdateCluster
    <2>2. cluster[c] \in ClusterObject /\ a.key \in AnnotationKeys /\ a.value \in Operations
        BY <1>0, <1>6, ConstantsAssumption DEF Annotate
    <2>3. /\ [cluster[c] EXCEPT ![a.key] = a.value] \in ClusterObject
          /\ [cluster[c] EXCEPT ![a.key] = a.value].finalizer = cluster[c].finalizer
        BY <2>2 DEF ClusterObject, AnnotationKeys
    <2>4. Exists(c)
        BY <1>6 DEF Annotate
    <2> QED
        BY <1>1, <2>1, <2>3, <2>4
  <1>7. ASSUME NEW c \in Clusters, ClusterGone(c) PROVE Same
    <2>1. cluster'[c] = NoCluster /\ ~cluster[c].finalizer
        BY <1>0, <1>7 DEF ClusterGone
    <2>2. \A d \in Clusters \ {c} : cluster'[d] = cluster[d]
        BY <1>0, <1>7 DEF ClusterGone
    <2> QED
        BY <2>1, <2>2
  <1> QED
      BY <1>2, <1>3, <1>4, <1>5, <1>6, <1>7
      DEF Next, Step, Users, Providers, vars, GetCluster, ReadConfig,
          HandleCreateOrUpdate, AddKnownCluster, EnsureAccess, GetAccess,
          CopySecrets, RemoveSecrets, DeploySource, PruneSources, DeleteSources,
          EnsureTargetClusterNamespace, DeployHelmRelease, HandleDelete,
          UndeployHelmRelease, RefreshAccess, CheckAccess, UndeployHelmChartSource,
          DeleteAccess, RemoveKnownCluster, Fail, DeliverConfigEvent, Start, Crash,
          ChangeConfig, ReleaseGone, SourceGone, ProvideAccess

\* AddFinalizer sets the finalizer of its Cluster and no other.
LEMMA FinalizerAdded ==
    ASSUME TypeOK, AddFinalizer, ~worker.seen.finalizer, AcceptsFinalizer(worker.c)
    PROVE  /\ worker.c \in Clusters
           /\ \A c \in Clusters :
                  HasFinalizer(c)' = IF c = worker.c THEN TRUE ELSE HasFinalizer(c)
  <1>1. worker.c \in Clusters /\ cluster[worker.c] \in ClusterObject
      BY DEF AddFinalizer, AcceptsFinalizer, Exists, TypeOK
  <1> DEFINE new == [cluster[worker.c] EXCEPT !.finalizer = TRUE]
  <1>2. new \in ClusterObject /\ new.finalizer /\ cluster' = [cluster EXCEPT ![worker.c] = new]
      BY <1>1 DEF ClusterObject, AddFinalizer
  <1>3. new # NoCluster
      BY <1>2, SentinelsAssumption
  <1> HIDE DEF new
  <1>4. cluster'[worker.c] = new /\ \A c \in Clusters \ {worker.c} : cluster'[c] = cluster[c]
      BY <1>1, <1>2 DEF TypeOK
  <1>5. \A c \in Clusters : Exists(c) => cluster[c].finalizer \in BOOLEAN
      BY DEF Exists, TypeOK, ClusterObject
  <1>6. new.finalizer \in BOOLEAN
      BY <1>2 DEF ClusterObject
  <1> QED
      BY <1>1, <1>2, <1>3, <1>4, <1>5, <1>6 DEF HasFinalizer, Exists

\* Only RemoveFinalizer takes a finalizer away.
LEMMA FinalizerKept ==
    TypeOK /\ [Next]_vars /\ ~RemoveFinalizer
        => \A c \in Clusters : HasFinalizer(c) => HasFinalizer(c)'
  <1> SUFFICES ASSUME TypeOK, [Next]_vars, ~RemoveFinalizer
               PROVE  \A c \in Clusters : HasFinalizer(c) => HasFinalizer(c)'
      OBVIOUS
  <1>1. CASE ~AddFinalizer
      BY <1>1, FinalizerSame
  <1>2. CASE AddFinalizer /\ ~worker.seen.finalizer /\ AcceptsFinalizer(worker.c)
    <2>1. \A c \in Clusters :
              HasFinalizer(c)' = IF c = worker.c THEN TRUE ELSE HasFinalizer(c)
        BY <1>2, FinalizerAdded
    <2> QED
        BY <2>1
  <1>3. CASE AddFinalizer /\ UNCHANGED cluster
      BY <1>3 DEF HasFinalizer, Exists
  <1> QED
      BY <1>1, <1>2, <1>3 DEF AddFinalizer

\* Every step keeps AccessInv when a terminating AccessRequest is not ready.
LEMMA AccessStep ==
    ASSUME ~TerminatingReady
    PROVE  TypeOK /\ GuardInv /\ AccessInv /\ [Next]_vars => AccessInv'
  <1> SUFFICES ASSUME TypeOK, GuardInv, AccessInv, [Next]_vars PROVE AccessInv'
      OBVIOUS
  <1> USE DEF ProcessUnchanged, PlatformUnchanged
  <1>0. /\ release \in [Clusters -> Release]
        /\ access \in [Clusters -> AccessStatus]
        /\ copies \in [Sites -> [Clusters -> SUBSET Secrets]]
        /\ worker \in Worker
        /\ worker.pc # "idle" => worker.c \in Clusters
      BY DEF TypeOK
  <1>1. /\ worker.pc \in GrantedSteps => access[worker.c] = "granted"
        /\ worker.pc \in EmptiedSteps => copies["target"][worker.c] = {}
      BY DEF AccessInv, AccessGuard, GrantedSteps, EmptiedSteps
  <1>2. ASSUME NEW next, ReconcileAccess(next), worker.c \in Clusters,
               next \in GrantedSteps \ EmptiedSteps,
               UNCHANGED <<cluster, release, copies>>
        PROVE  AccessInv'
    <2>1. PICK outcome \in AccessOutcomes(access[worker.c]) :
              /\ access' = [access EXCEPT ![worker.c] = outcome.access]
              /\ IF outcome.ready THEN Goto(next) /\ queue' = queue ELSE Requeue
        BY <1>2 DEF ReconcileAccess
    <2>2. /\ outcome.ready => access[worker.c] = "granted"
          /\ access[worker.c] = "granted" => outcome.access = "granted"
        BY <2>1 DEF AccessOutcomes
    <2>3. \A c \in Clusters : access[c] = "granted" => access'[c] = "granted"
        BY <1>0, <2>1, <2>2
    <2>4. NoTargetOrphans' /\ ReleaseHasAccess'
        BY <1>2, <2>3 DEF AccessInv, NoTargetOrphans, ReleaseHasAccess, HasFinalizer, Exists
    <2>5. CASE outcome.ready
      <3>1. worker'.pc = next /\ worker'.c = worker.c /\ access'[worker.c] = "granted"
          BY <1>0, <1>2, <2>1, <2>2, <2>3, <2>5 DEF Goto, Worker
      <3> QED
          BY <1>2, <2>4, <3>1 DEF AccessInv, AccessGuard, EmptiedSteps
    <2>6. CASE ~outcome.ready
        BY <2>1, <2>4, <2>6 DEF Requeue, Idle, AccessInv, AccessGuard, DeploySteps
    <2> QED
        BY <2>5, <2>6
  <1>3. CASE EnsureAccess
      BY <1>0, <1>2, <1>3 DEF EnsureAccess, GrantedSteps, EmptiedSteps, DeploySteps
  <1>4. CASE RefreshAccess
      BY <1>0, <1>2, <1>4 DEF RefreshAccess, GrantedSteps, EmptiedSteps, DeploySteps
  <1>5. CASE CheckAccess
    <2>1. worker'.pc = "removeTarget" /\ worker'.c = worker.c /\ worker.pc = "checkAccess"
        BY <1>0, <1>1, <1>5 DEF CheckAccess, AccessUsable, Goto, Worker, GrantedSteps
    <2> QED
        BY <1>0, <1>5, <2>1, AccessFrame
        DEF CheckAccess, HasFinalizer, Exists, GrantedSteps, EmptiedSteps, DeploySteps
  <1>6. CASE CopySecrets("target", "copyTarget", "pruneTarget")
    <2>1. /\ worker.pc = "copyTarget" /\ worker.c \in Clusters /\ HasFinalizer(worker.c)
          /\ access[worker.c] = "granted"
        BY <1>0, <1>1, <1>6 DEF CopySecrets, GuardInv, PassGuard, GrantedSteps, DeploySteps
    <2>2. \A c \in Clusters : c # worker.c => copies'["target"][c] = copies["target"][c]
        BY <1>0, <1>6 DEF CopySecrets, Sites
    <2>3. NoTargetOrphans' /\ ReleaseHasAccess'
        BY <1>6, <2>1, <2>2
        DEF CopySecrets, AccessInv, NoTargetOrphans, ReleaseHasAccess, HasFinalizer, Exists
    <2>4. /\ worker'.pc \in {"copyTarget", "pruneTarget", "idle"}
          /\ worker'.pc # "idle" => worker'.c = worker.c
        BY <1>0, <1>6 DEF CopySecrets, Goto, Requeue, Idle, Worker
    <2>5. AccessGuard'
        BY <1>6, <2>1, <2>4 DEF CopySecrets, AccessGuard, DeploySteps
    <2> QED
        BY <2>3, <2>5 DEF AccessInv
  <1>7. CASE RemoveSecrets("target", "removeTarget", "removeSources")
    <2>1. /\ worker.pc = "removeTarget" /\ worker.c \in Clusters /\ worker.copied = {}
          /\ access[worker.c] = "granted"
        BY <1>0, <1>1, <1>7
        DEF RemoveSecrets, GuardInv, PassGuard, PC, CleanupSteps, GrantedSteps
    <2>2. \A c \in Clusters : copies'["target"][c] \subseteq copies["target"][c]
        BY <1>0, <1>7 DEF RemoveSecrets, Sites
    <2>3. NoTargetOrphans' /\ ReleaseHasAccess'
        BY <1>7, <2>2
        DEF RemoveSecrets, AccessInv, NoTargetOrphans, ReleaseHasAccess, HasFinalizer, Exists
    <2>4. /\ worker'.c = worker.c
          /\ \/ worker'.pc = "removeTarget"
             \/ worker'.pc = "removeSources" /\ copies'["target"][worker.c] = {}
        BY <1>0, <1>7, <2>1 DEF RemoveSecrets, ToRemove, Worker
    <2>5. AccessGuard'
        BY <1>7, <2>1, <2>4 DEF RemoveSecrets, AccessGuard, DeploySteps
    <2> QED
        BY <2>3, <2>5 DEF AccessInv
  <1>8. CASE DeployHelmRelease
    <2>1. worker.c \in Clusters /\ access[worker.c] = "granted"
        BY <1>0, <1>1, <1>8 DEF DeployHelmRelease, GrantedSteps, DeploySteps
    <2>2. \A c \in Clusters : c # worker.c => release'[c] = release[c]
        BY <1>0, <1>8 DEF DeployHelmRelease
    <2> QED
        BY <1>8, <2>1, <2>2
        DEF DeployHelmRelease, Done, Idle, AccessInv, NoTargetOrphans, ReleaseHasAccess,
            AccessGuard, HasFinalizer, Exists, DeploySteps
  <1>9. CASE DeleteAccess
    <2>1. /\ worker.c \in Clusters /\ release[worker.c].status = "absent"
          /\ copies["target"][worker.c] = {}
        BY <1>0, <1>1, <1>9 DEF DeleteAccess, GuardInv, PassGuard, CleanupSteps, EmptiedSteps
    <2>2. \A c \in Clusters : c # worker.c => access'[c] = access[c]
        BY <1>0, <1>9 DEF DeleteAccess
    <2>3. \/ worker'.pc = "removeFinalizer" /\ worker'.c = worker.c
          \/ worker'.pc = "idle"
        BY <1>0, <1>9 DEF DeleteAccess, Goto, Requeue, Idle, Worker
    <2> QED
        BY <1>9, <2>1, <2>2, <2>3
        DEF DeleteAccess, AccessInv, NoTargetOrphans, ReleaseHasAccess, AccessGuard,
            HasFinalizer, Exists, DeploySteps
  <1>10. CASE RemoveFinalizer
    <2>1. worker.c \in Clusters /\ copies["target"][worker.c] = {}
        BY <1>0, <1>1, <1>10 DEF RemoveFinalizer, EmptiedSteps
    <2>2. \A c \in Clusters : c # worker.c => cluster'[c] = cluster[c]
        BY <1>10 DEF RemoveFinalizer, TypeOK
    <2>3. worker'.pc \in {"idle", "forget"}
      <3>1. CASE Exists(worker.c)
        <4>1. worker' = [worker EXCEPT !.pc = "forget", !.seen = cluster'[worker.c]]
            BY <1>10, <3>1 DEF RemoveFinalizer
        <4> QED
            BY <1>0, <4>1 DEF Worker
      <3>2. CASE ~Exists(worker.c)
          BY <1>10, <3>2 DEF RemoveFinalizer, Requeue, Idle
      <3> QED
          BY <3>1, <3>2
    <2>4. NoTargetOrphans' /\ ReleaseHasAccess'
        BY <1>10, <2>1, <2>2
        DEF RemoveFinalizer, AccessInv, NoTargetOrphans, ReleaseHasAccess, HasFinalizer, Exists
    <2>5. AccessGuard'
        BY <2>3 DEF AccessGuard, DeploySteps
    <2> QED
        BY <2>4, <2>5 DEF AccessInv
  <1>11. ASSUME ~DeleteAccess, ~RemoveFinalizer,
                \A c \in Clusters : release'[c].status # "absent" => release[c].status # "absent",
                \A c \in Clusters : copies["target"][c] = {} => copies'["target"][c] = {},
                worker'.pc \in GrantedSteps => worker.pc \in GrantedSteps /\ worker'.c = worker.c,
                worker'.pc \in EmptiedSteps => worker.pc \in EmptiedSteps /\ worker'.c = worker.c
         PROVE  AccessInv'
    <2>1. /\ \A c \in Clusters : access[c] = "granted" => access'[c] = "granted"
          /\ \A c \in Clusters : HasFinalizer(c) => HasFinalizer(c)'
        BY <1>11, AccessKept, FinalizerKept
    <2> QED
        BY <1>0, <1>11, <2>1, AccessFrame
  <1>12. ASSUME UNCHANGED <<release, copies>>, worker'.pc \notin GrantedSteps \cup EmptiedSteps,
                ~DeleteAccess, ~RemoveFinalizer
         PROVE  AccessInv'
      BY <1>11, <1>12
  <1>13. ASSUME UNCHANGED <<release, copies, worker>>, ~DeleteAccess, ~RemoveFinalizer
         PROVE  AccessInv'
      BY <1>11, <1>13
  <1> USE <1>0 DEF GrantedSteps, EmptiedSteps, DeploySteps
  <1>14. CASE HandleOperation
    <2>1. CASE \E new : worker' = [worker EXCEPT !.pc = "config", !.seen = new]
      <3>1. worker'.pc = "config"
          BY <2>1 DEF Worker
      <3> QED
          BY <1>12, <1>14, <3>1 DEF HandleOperation, DeleteAccess, RemoveFinalizer
    <2>2. CASE Goto("config") \/ Done \/ Requeue
      <3>1. worker'.pc \in {"config", "idle"}
          BY <2>2 DEF Goto, Done, Requeue, Idle, Worker
      <3> QED
          BY <1>12, <1>14, <3>1 DEF HandleOperation, DeleteAccess, RemoveFinalizer
    <2> QED
        BY <1>14, <2>1, <2>2 DEF HandleOperation, RemoveOperationAnnotation
  <1>15. CASE ReadConfig
    <2>1. ASSUME NEW pc \in {"finalizer", "undeploy"},
                 worker' = [worker EXCEPT !.pc = pc, !.cfg = config,
                               !.values = ValuesFor[config][worker.seen.purpose]]
          PROVE  AccessInv'
      <3>1. worker'.pc = pc
          BY <2>1 DEF Worker
      <3> QED
          BY <1>12, <1>15, <3>1 DEF ReadConfig, DeleteAccess, RemoveFinalizer
    <2>2. CASE Done \/ Requeue
      <3>1. worker'.pc = "idle"
          BY <2>2 DEF Done, Requeue, Idle
      <3> QED
          BY <1>12, <1>15, <3>1 DEF ReadConfig, DeleteAccess, RemoveFinalizer
    <2>3. \/ Done \/ Requeue
          \/ \E pc \in {"finalizer", "undeploy"} :
                 worker' = [worker EXCEPT !.pc = pc, !.cfg = config,
                               !.values = ValuesFor[config][worker.seen.purpose]]
        BY <1>15 DEF ReadConfig
    <2> QED
        BY <2>1, <2>2, <2>3
  <1>16. CASE \/ \E c \in Clusters : GetCluster(c)
              \/ Fail \/ Crash \/ RemoveKnownCluster
    <2>1. worker' = worker \/ worker'.pc \in {"idle", "operation"}
      <3>1. CASE worker' = Idle
          BY <3>1 DEF Idle
      <3>2. ASSUME NEW c \in Clusters, GetCluster(c)
            PROVE  worker' = worker \/ worker'.pc = "operation"
          BY <3>2 DEF GetCluster, Idle
      <3> QED
          BY <1>16, <3>1, <3>2 DEF Fail, Crash, RemoveKnownCluster, Done, Requeue
    <2>2. UNCHANGED <<release, copies>>
        BY <1>16 DEF GetCluster, Fail, Crash, RemoveKnownCluster
    <2>3. CASE DeleteAccess \/ RemoveFinalizer
        BY <1>9, <1>10, <2>3
    <2> QED
        BY <1>12, <1>13, <2>1, <2>2, <2>3
  <1>17. CASE AddFinalizer \/ AddKnownCluster
    <2>1. CASE worker' = [worker EXCEPT !.pc = "known", !.seen = cluster'[worker.c]]
      <3>1. worker'.pc = "known"
          BY <2>1 DEF Worker
      <3> QED
          BY <1>12, <1>17, <3>1 DEF AddFinalizer, AddKnownCluster, DeleteAccess, RemoveFinalizer
    <2>2. CASE Goto("known") \/ Goto("access") \/ Requeue
      <3>1. worker'.pc \in {"known", "access", "idle"}
          BY <2>2 DEF Goto, Requeue, Idle, Worker
      <3> QED
          BY <1>12, <1>17, <3>1 DEF AddFinalizer, AddKnownCluster, DeleteAccess, RemoveFinalizer
    <2> QED
        BY <1>17, <2>1, <2>2 DEF AddFinalizer, AddKnownCluster
  <1>18. ASSUME GetAccess \/ DeploySource \/ EnsureTargetClusterNamespace,
                UNCHANGED <<release, copies>>
         PROVE  AccessInv'
    <2>1. worker.pc \in GrantedSteps /\ worker'.pc \in GrantedSteps /\ worker'.c = worker.c
        BY <1>18 DEF GetAccess, DeploySource, EnsureTargetClusterNamespace, Goto, Worker
    <2> QED
        BY <1>11, <1>18, <2>1 DEF GetAccess, DeploySource, EnsureTargetClusterNamespace,
                                  DeleteAccess, RemoveFinalizer
  <1>19. CASE CopySecrets("platform", "copyPlatform", "prunePlatform")
    <2>1. \/ worker'.pc = "idle"
          \/ /\ worker'.pc \in GrantedSteps \ EmptiedSteps
             /\ worker.pc \in GrantedSteps /\ worker'.c = worker.c
        BY <1>19 DEF CopySecrets, Goto, Requeue, Idle, Worker
    <2>2. \A c \in Clusters : copies'["target"][c] = copies["target"][c]
        BY <1>19 DEF CopySecrets, Sites
    <2> QED
        BY <1>11, <1>19, <2>1, <2>2 DEF CopySecrets, DeleteAccess, RemoveFinalizer
  <1>20. CASE \/ RemoveSecrets("platform", "prunePlatform", "source")
              \/ RemoveSecrets("target", "pruneTarget", "release")
              \/ RemoveSecrets("platform", "removePlatform", "deleteAccess")
    <2>1. /\ worker'.c = worker.c
          /\ \/ worker.pc \in GrantedSteps /\ worker'.pc \in GrantedSteps \ EmptiedSteps
             \/ worker.pc \in EmptiedSteps /\ worker'.pc \in EmptiedSteps \ GrantedSteps
        BY <1>20 DEF RemoveSecrets, Worker
    <2>2. \A c \in Clusters : copies'["target"][c] \subseteq copies["target"][c]
        BY <1>20 DEF RemoveSecrets, Sites
    <2>3. ~DeleteAccess /\ ~RemoveFinalizer
        BY <1>20, <2>1 DEF RemoveSecrets, DeleteAccess, RemoveFinalizer
    <2> QED
        BY <1>11, <1>20, <2>1, <2>2, <2>3 DEF RemoveSecrets
  <1>21. CASE PruneSources \/ UndeployHelmChartSource
    <2>1. /\ worker'.c = worker.c
          /\ \/ worker.pc \in GrantedSteps /\ worker'.pc \in GrantedSteps \ EmptiedSteps
             \/ worker.pc \in EmptiedSteps /\ worker'.pc \in EmptiedSteps \ GrantedSteps
        BY <1>21 DEF PruneSources, UndeployHelmChartSource, DeleteSources, Goto, Worker
    <2>2. ~DeleteAccess /\ ~RemoveFinalizer
        BY <1>21 DEF PruneSources, UndeployHelmChartSource, DeleteSources, DeleteAccess,
                     RemoveFinalizer
    <2> QED
        BY <1>11, <1>21, <2>1, <2>2 DEF PruneSources, UndeployHelmChartSource, DeleteSources
  <1>22. CASE UndeployHelmRelease
    <2>1. worker'.pc \in {"refreshAccess", "idle"}
        BY <1>22 DEF UndeployHelmRelease, Goto, Requeue, Idle, Worker
    <2>2. \A c \in Clusters : release'[c].status # "absent" => release[c].status # "absent"
        BY <1>22 DEF UndeployHelmRelease, Release
    <2> QED
        BY <1>11, <1>22, <2>1, <2>2 DEF UndeployHelmRelease, DeleteAccess, RemoveFinalizer
  <1>23. ASSUME NEW c \in Clusters, Providers(c) \/ ClusterGone(c) PROVE AccessInv'
    <2>1. worker' = worker
        BY <1>23 DEF Providers, ReleaseGone, SourceGone, ProvideAccess, ClusterGone
    <2>2. \A d \in Clusters : release'[d].status # "absent" => release[d].status # "absent"
        BY <1>23 DEF Providers, ReleaseGone, SourceGone, ProvideAccess, ClusterGone, NoRelease
    <2>3. \A d \in Clusters : copies'["target"][d] \subseteq copies["target"][d]
        BY <1>23 DEF Providers, ReleaseGone, SourceGone, ProvideAccess, ClusterGone, Sites
    <2> QED
        BY <1>9, <1>10, <1>11, <2>1, <2>2, <2>3
  <1>24. ASSUME UNCHANGED <<release, copies, worker>> PROVE AccessInv'
      BY <1>9, <1>10, <1>13, <1>24
  <1>25. CASE HandleCreateOrUpdate
      BY <1>3, <1>6, <1>8, <1>17, <1>18, <1>19, <1>20, <1>21, <1>25
      DEF HandleCreateOrUpdate, GetAccess, DeploySource, EnsureTargetClusterNamespace
  <1>26. CASE HandleDelete
      BY <1>4, <1>5, <1>7, <1>9, <1>10, <1>16, <1>20, <1>21, <1>22, <1>26 DEF HandleDelete
  <1> QED
      BY <1>14, <1>15, <1>16, <1>23, <1>24, <1>25, <1>26
      DEF Next, Step, Users, vars, DeliverConfigEvent, Start, CreateCluster, ChangePurposes,
          Annotate, DeleteCluster, EditCluster, ChangeConfig

\* AccessInv is an invariant when a terminating AccessRequest is not ready.
THEOREM AccessInvariant == ~TerminatingReady => (Spec => []AccessInv)
  <1> SUFFICES ASSUME ~TerminatingReady PROVE Spec => []AccessInv
      OBVIOUS
  <1>1. TypeOK /\ GuardInv /\ AccessInv /\ [Next]_vars => AccessInv'
      BY AccessStep
  <1> QED
      BY <1>1, AccessInit, TypeInvariant, GuardInvariant, PTL DEF Spec

\* No copied credentials stay on a target cluster whose Cluster is released.
THEOREM NoTargetOrphansInvariant == ~TerminatingReady => (Spec => []NoTargetOrphans)
  <1> SUFFICES ASSUME ~TerminatingReady PROVE Spec => []NoTargetOrphans
      OBVIOUS
  <1>1. AccessInv => NoTargetOrphans
      BY DEF AccessInv
  <1> QED
      BY <1>1, AccessInvariant, PTL

\* What a pass relies on at the target cluster, a granted access before and an
\* empty target after, holds whenever it runs.
THEOREM AccessGuardInvariant == ~TerminatingReady => (Spec => []AccessGuard)
  <1> SUFFICES ASSUME ~TerminatingReady PROVE Spec => []AccessGuard
      OBVIOUS
  <1>1. AccessInv => AccessGuard
      BY DEF AccessInv
  <1> QED
      BY <1>1, AccessInvariant, PTL

\* A HelmRelease has access to its target cluster as long as it exists.
THEOREM ReleaseHasAccessInvariant == ~TerminatingReady => (Spec => []ReleaseHasAccess)
  <1> SUFFICES ASSUME ~TerminatingReady PROVE Spec => []ReleaseHasAccess
      OBVIOUS
  <1>1. AccessInv => ReleaseHasAccess
      BY DEF AccessInv
  <1> QED
      BY <1>1, AccessInvariant, PTL

(***************************************************************************)
(* The order of copies and releases: a HelmRelease is written only when its *)
(* secrets are in place, and no secret goes before the ones that replace it *)
(* are there.                                                               *)
(***************************************************************************)

\* The steps of a pass that CopyGuard speaks about.
CopySteps == {"copyPlatform", "prunePlatform", "source", "pruneSources", "namespace",
              "copyTarget", "pruneTarget", "release"}

\* Initially no pass is running.
LEMMA CopyInit == Init => CopyGuard
  BY DEF Init, CopyGuard, Idle, Sites

\* A pass that is at none of these steps has nothing to say.
LEMMA CopyElsewhere == ASSUME worker'.pc \notin CopySteps PROVE CopyGuard'
  BY DEF CopyGuard, CopySteps, Sites

\* What does not touch the Cluster of the pass keeps the guard.
LEMMA CopyFrame ==
    ASSUME CopyGuard, worker' = worker,
           worker.pc \in CopySteps =>
               /\ \A site \in Sites : copies'[site][worker.c] = copies[site][worker.c]
               /\ \A k \in SourceKinds :
                      source'[worker.c][k] = "live" => source[worker.c][k] = "live"
               /\ worker.c \in namespace => worker.c \in namespace'
    PROVE  CopyGuard'
  BY DEF CopyGuard, CopySteps, Sites

\* Every step keeps CopyGuard.
LEMMA CopyStep == TypeOK /\ GuardInv /\ CopyGuard /\ [Next]_vars => CopyGuard'
  <1> SUFFICES ASSUME TypeOK, GuardInv, CopyGuard, [Next]_vars PROVE CopyGuard'
      OBVIOUS
  <1> USE DEF ProcessUnchanged, PlatformUnchanged
  <1>0. /\ source \in [Clusters -> [SourceKinds -> Status]]
        /\ copies \in [Sites -> [Clusters -> SUBSET Secrets]]
        /\ worker \in Worker
        /\ worker.pc # "idle" => worker.c \in Clusters
      BY DEF TypeOK
  <1> USE <1>0 DEF CopySteps
  <1>1. ASSUME UNCHANGED <<copies, source, namespace, worker>> PROVE CopyGuard'
      BY <1>1, CopyFrame
  <1>2. CASE Done \/ Requeue
    <2>1. worker'.pc = "idle"
        BY <1>2 DEF Done, Requeue, Idle
    <2> QED
        BY <2>1, CopyElsewhere
  <1>3. ASSUME NEW pc \in PC \ CopySteps, Goto(pc) PROVE CopyGuard'
    <2>1. worker'.pc = pc
        BY <1>3 DEF Goto, Worker
    <2> QED
        BY <1>3, <2>1, CopyElsewhere
  <1>4. CASE \/ \E c \in Clusters : GetCluster(c)
             \/ Fail \/ Crash \/ RemoveKnownCluster \/ DeployHelmRelease
    <2>1. ASSUME NEW c \in Clusters, GetCluster(c) PROVE CopyGuard'
      <3>1. worker' = worker \/ worker'.pc = "operation"
          BY <2>1 DEF GetCluster, Idle
      <3> QED
          BY <2>1, <3>1, <1>1, CopyElsewhere DEF GetCluster
    <2>2. CASE Crash
        BY <2>2, <1>2 DEF Crash, Done
    <2> QED
        BY <1>2, <1>4, <2>1, <2>2 DEF Fail, RemoveKnownCluster, DeployHelmRelease
  <1>5. CASE HandleOperation
    <2>1. CASE \E new : worker' = [worker EXCEPT !.pc = "config", !.seen = new]
      <3>1. worker'.pc = "config"
          BY <2>1 DEF Worker
      <3> QED
          BY <3>1, CopyElsewhere
    <2> QED
        BY <1>2, <1>3, <1>5, <2>1 DEF HandleOperation, RemoveOperationAnnotation, PC
  <1>6. CASE ReadConfig
    <2>1. ASSUME NEW pc \in {"finalizer", "undeploy"},
                 worker' = [worker EXCEPT !.pc = pc, !.cfg = config,
                               !.values = ValuesFor[config][worker.seen.purpose]]
          PROVE  CopyGuard'
      <3>1. worker'.pc = pc
          BY <2>1 DEF Worker
      <3> QED
          BY <3>1, CopyElsewhere
    <2>2. \/ Done \/ Requeue
          \/ \E pc \in {"finalizer", "undeploy"} :
                 worker' = [worker EXCEPT !.pc = pc, !.cfg = config,
                               !.values = ValuesFor[config][worker.seen.purpose]]
        BY <1>6 DEF ReadConfig
    <2> QED
        BY <1>2, <2>1, <2>2
  <1>7. CASE AddFinalizer \/ AddKnownCluster \/ EnsureAccess
    <2>1. CASE worker' = [worker EXCEPT !.pc = "known", !.seen = cluster'[worker.c]]
      <3>1. worker'.pc = "known"
          BY <2>1 DEF Worker
      <3> QED
          BY <3>1, CopyElsewhere
    <2>2. CASE Goto("known") \/ Goto("access") \/ Goto("accessRequest")
        BY <1>3, <2>2 DEF PC, DeploySteps
    <2> QED
        BY <1>2, <1>7, <2>1, <2>2
        DEF AddFinalizer, AddKnownCluster, EnsureAccess, ReconcileAccess
  <1>8. CASE GetAccess
    <2>1. worker.copied = {}
        BY <1>8 DEF GetAccess, GuardInv, PassGuard, PC, DeploySteps
    <2>2. worker'.pc = "copyPlatform" /\ worker'.copied = {}
        BY <1>8, <2>1 DEF GetAccess, Goto, Worker
    <2> QED
        BY <2>2 DEF CopyGuard, Sites
  <1>9. ASSUME NEW site \in Sites, NEW pc, NEW next,
               \/ site = "platform" /\ pc = "copyPlatform" /\ next = "prunePlatform"
               \/ site = "target" /\ pc = "copyTarget" /\ next = "pruneTarget",
               CopySecrets(site, pc, next)
        PROVE  CopyGuard'
    <2>0. worker.c \in Clusters /\ worker.pc = pc
        BY <1>9 DEF CopySecrets
    <2>1. worker.copied \subseteq copies[site][worker.c] \cap SecretsToCopy[site][worker.cfg]
        BY <1>9, <2>0 DEF CopyGuard
    <2>2. ASSUME NEW s \in ToCopy(site),
                 copies' = [copies EXCEPT ![site][worker.c] = @ \cup {s}],
                 worker' = [worker EXCEPT !.copied = @ \cup {s}]
          PROVE  CopyGuard'
      <3>1. /\ worker'.pc = pc /\ worker'.c = worker.c /\ worker'.cfg = worker.cfg
            /\ worker'.copied = worker.copied \cup {s}
          BY <2>0, <2>2 DEF Worker
      <3>2. /\ copies'[site][worker.c] = copies[site][worker.c] \cup {s}
            /\ \A other \in Sites \ {site} : copies'[other] = copies[other]
          BY <2>0, <2>2
      <3>3. s \in SecretsToCopy[site][worker.cfg]
          BY <2>2 DEF ToCopy
      <3> QED
          BY <1>9, <2>1, <3>1, <3>2, <3>3 DEF CopySecrets, CopyGuard, Sites
    <2>3. CASE ToCopy(site) = {} /\ Goto(next) /\ UNCHANGED copies
      <3>1. /\ worker'.pc = next /\ worker'.c = worker.c /\ worker'.cfg = worker.cfg
            /\ worker'.copied = worker.copied
          BY <2>0, <2>3 DEF Goto, Worker
      <3>2. worker.copied = SecretsToCopy[site][worker.cfg]
          BY <2>1, <2>3 DEF ToCopy
      <3> QED
          BY <1>9, <2>1, <2>3, <3>1, <3>2 DEF CopySecrets, CopyGuard, Sites
    <2> QED
        BY <1>2, <1>9, <2>2, <2>3 DEF CopySecrets
  <1>10. ASSUME NEW site \in Sites, NEW pc, NEW next,
                \/ site = "platform" /\ pc = "prunePlatform" /\ next = "source"
                \/ site = "target" /\ pc = "pruneTarget" /\ next = "release",
                RemoveSecrets(site, pc, next)
         PROVE  CopyGuard'
    <2>0. worker.c \in Clusters /\ worker.pc = pc
        BY <1>10 DEF RemoveSecrets
    <2>1. /\ worker.copied \subseteq copies[site][worker.c]
          /\ worker.copied = SecretsToCopy[site][worker.cfg]
        BY <1>10, <2>0 DEF CopyGuard
    <2>2. ASSUME NEW s \in ToRemove(site), worker' = worker,
                 copies' = [copies EXCEPT ![site][worker.c] = @ \ {s}]
          PROVE  CopyGuard'
      <3>1. /\ copies'[site][worker.c] = copies[site][worker.c] \ {s}
            /\ \A other \in Sites \ {site} : copies'[other] = copies[other]
          BY <2>0, <2>2
      <3>2. s \notin worker.copied
          BY <2>2 DEF ToRemove
      <3> QED
          BY <1>10, <2>0, <2>1, <2>2, <3>1, <3>2 DEF RemoveSecrets, CopyGuard, Sites
    <2>3. CASE /\ ToRemove(site) = {} /\ copies' = copies
               /\ worker' = [worker EXCEPT !.pc = next, !.copied = {}]
      <3>1. /\ worker'.pc = next /\ worker'.c = worker.c /\ worker'.cfg = worker.cfg
            /\ worker'.copied = {}
          BY <2>0, <2>3 DEF Worker
      <3>2. copies[site][worker.c] = SecretsToCopy[site][worker.cfg]
          BY <2>1, <2>3 DEF ToRemove
      <3> QED
          BY <1>10, <2>0, <2>3, <3>1, <3>2 DEF RemoveSecrets, CopyGuard, Sites
    <2> QED
        BY <1>10, <2>2, <2>3 DEF RemoveSecrets
  <1>11. CASE DeploySource
    <2>1. /\ worker'.pc = "pruneSources" /\ worker'.c = worker.c /\ worker'.cfg = worker.cfg
          /\ worker'.copied = worker.copied
        BY <1>11 DEF DeploySource, Goto, Worker
    <2> QED
        BY <1>11, <2>1 DEF DeploySource, CopyGuard, Sites
  <1>12. CASE PruneSources
    <2>0. worker.c \in Clusters /\ worker.pc = "pruneSources"
        BY <1>12 DEF PruneSources, DeleteSources
    <2>1. CASE worker' = worker
      <3>1. \/ source' = source
            \/ \E k \in SourceKinds : source' = [source EXCEPT ![worker.c][k] = "terminating"]
          BY <1>12 DEF PruneSources, DeleteSources
      <3>2. \A k \in SourceKinds :
                source'[worker.c][k] = "live" => source[worker.c][k] = "live"
        <4>1. source \in [Clusters -> [SourceKinds -> Status]]
            BY DEF TypeOK
        <4>2. ASSUME NEW o \in SourceKinds,
                     source' = [source EXCEPT ![worker.c][o] = "terminating"]
              PROVE  \A k \in SourceKinds :
                         source'[worker.c][k] = "live" => source[worker.c][k] = "live"
            BY <2>0, <4>1, <4>2
        <4> QED
            BY <3>1, <4>2
      <3> QED
          BY <1>12, <2>1, <3>2, CopyFrame DEF PruneSources, DeleteSources
    <2>2. CASE /\ Goto("namespace") /\ source' = source
               /\ \A k \in SourceKinds \ {SourceKind[worker.cfg]} : source[worker.c][k] # "live"
      <3>1. /\ worker'.pc = "namespace" /\ worker'.c = worker.c /\ worker'.cfg = worker.cfg
            /\ worker'.copied = worker.copied
          BY <2>2 DEF Goto, Worker
      <3> QED
          BY <1>12, <2>0, <2>2, <3>1 DEF PruneSources, DeleteSources, CopyGuard, Sites
    <2> QED
        BY <1>12, <2>1, <2>2 DEF PruneSources, DeleteSources
  <1>13. CASE EnsureTargetClusterNamespace
    <2>1. /\ worker.pc = "namespace" /\ worker.copied = {}
        BY <1>13 DEF EnsureTargetClusterNamespace, GuardInv, PassGuard, PC, DeploySteps
    <2>2. /\ worker'.pc = "copyTarget" /\ worker'.c = worker.c /\ worker'.cfg = worker.cfg
          /\ worker'.copied = {}
        BY <1>13, <2>1 DEF EnsureTargetClusterNamespace, Goto, Worker
    <2> QED
        BY <1>13, <2>1, <2>2 DEF EnsureTargetClusterNamespace, CopyGuard, Sites
  <1>14. CASE HandleCreateOrUpdate
      BY <1>4, <1>7, <1>8, <1>9, <1>10, <1>11, <1>12, <1>13, <1>14
      DEF HandleCreateOrUpdate, Sites
  <1>15. CASE UndeployHelmRelease \/ RefreshAccess \/ CheckAccess \/ DeleteAccess
    <2>1. \/ Requeue
          \/ \E pc \in {"refreshAccess", "checkAccess", "removeTarget", "removeSources",
                        "removeFinalizer"} : Goto(pc)
        BY <1>15 DEF UndeployHelmRelease, RefreshAccess, CheckAccess, DeleteAccess,
                     ReconcileAccess
    <2> QED
        BY <1>2, <1>3, <2>1 DEF PC, CleanupSteps
  <1>16. CASE \/ RemoveSecrets("target", "removeTarget", "removeSources")
              \/ RemoveSecrets("platform", "removePlatform", "deleteAccess")
              \/ UndeployHelmChartSource
    <2>1. worker'.pc \in {"removeTarget", "removeSources", "removePlatform", "deleteAccess"}
        BY <1>16 DEF RemoveSecrets, UndeployHelmChartSource, DeleteSources, Goto, Worker
    <2> QED
        BY <2>1, CopyElsewhere
  <1>17. CASE RemoveFinalizer
    <2>1. CASE worker' = [worker EXCEPT !.pc = "forget", !.seen = cluster'[worker.c]]
      <3>1. worker'.pc = "forget"
          BY <2>1 DEF Worker
      <3> QED
          BY <3>1, CopyElsewhere
    <2> QED
        BY <1>2, <1>17, <2>1 DEF RemoveFinalizer
  <1>18. CASE HandleDelete
      BY <1>4, <1>15, <1>16, <1>17, <1>18 DEF HandleDelete
  <1>19. ASSUME NEW c \in Clusters, ClusterGone(c) PROVE CopyGuard'
    <2>1. worker.pc \in CopySteps => c # worker.c
        BY <1>19 DEF ClusterGone, GuardInv, PassGuard, HasFinalizer, PC, DeploySteps
    <2> QED
        BY <1>19, <2>1, CopyFrame DEF ClusterGone, Sites
  <1>20. ASSUME NEW c \in Clusters, Providers(c) PROVE CopyGuard'
    <2>1. /\ UNCHANGED <<copies, namespace, worker>>
          /\ \A d \in Clusters, k \in SourceKinds :
                 source'[d][k] = "live" => source[d][k] = "live"
        BY <1>20 DEF Providers, ReleaseGone, SourceGone, ProvideAccess
    <2> QED
        BY <2>1, CopyFrame
  <1> QED
      BY <1>1, <1>4, <1>5, <1>6, <1>14, <1>18, <1>19, <1>20
      DEF Next, Step, Users, vars, DeliverConfigEvent, Start, CreateCluster, ChangePurposes,
          Annotate, DeleteCluster, EditCluster, ChangeConfig

\* CopyGuard is an invariant.
THEOREM CopyInvariant == Spec => []CopyGuard
  <1>1. TypeOK /\ GuardInv /\ CopyGuard /\ [Next]_vars => CopyGuard'
      BY CopyStep
  <1> QED
      BY <1>1, CopyInit, TypeInvariant, GuardInvariant, PTL DEF Spec

\* Only CopySecrets and RemoveSecrets, of the Cluster of the pass, and the end
\* of a Cluster change the copies.
LEMMA CopiesChange ==
    ASSUME TypeOK, [Next]_vars, NEW c \in Clusters, NEW site \in Sites,
           ~(copies[site][c] \subseteq copies'[site][c])
    PROVE  \/ ClusterGone(c)
           \/ /\ worker.c = c
              /\ \/ /\ site = "platform"
                    /\ \/ RemoveSecrets("platform", "prunePlatform", "source")
                       \/ RemoveSecrets("platform", "removePlatform", "deleteAccess")
                 \/ /\ site = "target"
                    /\ \/ RemoveSecrets("target", "pruneTarget", "release")
                       \/ RemoveSecrets("target", "removeTarget", "removeSources")
  <1> USE DEF ProcessUnchanged, PlatformUnchanged
  <1>0. copies \in [Sites -> [Clusters -> SUBSET Secrets]]
      BY DEF TypeOK
  <1>1. ASSUME NEW other \in Sites, NEW pc, NEW next, CopySecrets(other, pc, next)
        PROVE  FALSE
      BY <1>0, <1>1 DEF CopySecrets
  <1>2. ASSUME NEW other \in Sites, NEW pc, NEW next, RemoveSecrets(other, pc, next)
        PROVE  worker.c = c /\ site = other
      BY <1>0, <1>2 DEF RemoveSecrets
  <1>3. ASSUME NEW d \in Clusters, ClusterGone(d) PROVE d = c
      BY <1>0, <1>3 DEF ClusterGone, Sites
  <1>4. copies' # copies
      OBVIOUS
  <1> QED
      BY <1>1, <1>2, <1>3, <1>4
      DEF Next, Step, Users, Providers, vars, GetCluster, HandleOperation, ReadConfig,
          HandleCreateOrUpdate, AddFinalizer, AddKnownCluster, EnsureAccess, GetAccess,
          DeploySource, PruneSources, DeleteSources, EnsureTargetClusterNamespace,
          DeployHelmRelease, HandleDelete, UndeployHelmRelease, RefreshAccess, CheckAccess,
          UndeployHelmChartSource, DeleteAccess, RemoveFinalizer, RemoveKnownCluster, Fail,
          DeliverConfigEvent, Start, Crash, CreateCluster, ChangePurposes, Annotate,
          DeleteCluster, EditCluster, ChangeConfig, ReleaseGone, SourceGone, ProvideAccess, Sites

\* No live HelmRelease loses a copied secret before its successors are there.
THEOREM CopyBeforePruneProperty == Spec => CopyBeforePrune
  <1> DEFINE Ordered ==
          \A c \in Clusters, site \in Sites :
              release[c].status = "live" /\ ~(copies[site][c] \subseteq copies'[site][c])
                  => /\ worker.c = c
                     /\ SecretsToCopy[site][worker.cfg] \subseteq copies'[site][c]
  <1>1. TypeOK /\ GuardInv /\ CopyGuard /\ [Next]_vars => [Ordered]_vars
    <2> SUFFICES ASSUME TypeOK, GuardInv, CopyGuard, [Next]_vars,
                        NEW c \in Clusters, NEW site \in Sites, release[c].status = "live",
                        ~(copies[site][c] \subseteq copies'[site][c])
                 PROVE  worker.c = c /\ SecretsToCopy[site][worker.cfg] \subseteq copies'[site][c]
        OBVIOUS
    <2>1. CASE ClusterGone(c)
        BY <2>1 DEF ClusterGone, GuardInv, FinalizerGuard, HasResources, HasFinalizer
    <2>2. CASE worker.pc \in {"removeTarget", "removePlatform"} /\ worker.c = c
        BY <2>2 DEF GuardInv, PassGuard, CleanupSteps
    <2>3. ASSUME worker.c = c, NEW pc, NEW next, RemoveSecrets(site, pc, next),
                 \/ site = "platform" /\ pc = "prunePlatform"
                 \/ site = "target" /\ pc = "pruneTarget"
          PROVE  SecretsToCopy[site][worker.cfg] \subseteq copies'[site][c]
      <3>1. /\ worker.copied \subseteq copies[site][c]
            /\ worker.copied = SecretsToCopy[site][worker.cfg]
          BY <2>3 DEF RemoveSecrets, CopyGuard
      <3> QED
          BY <2>3, <3>1 DEF RemoveSecrets, ToRemove, TypeOK
    <2>4. CASE worker.c = c /\ site = "platform"
              /\ RemoveSecrets("platform", "prunePlatform", "source")
        BY <2>3, <2>4
    <2>5. CASE worker.c = c /\ site = "target"
              /\ RemoveSecrets("target", "pruneTarget", "release")
        BY <2>3, <2>5
    <2> QED
        BY <2>1, <2>2, <2>4, <2>5, CopiesChange DEF RemoveSecrets
  <1> QED
      BY <1>1, TypeInvariant, GuardInvariant, CopyInvariant, PTL DEF Spec, CopyBeforePrune

\* Only DeployHelmRelease, of the Cluster of the pass, writes what a HelmRelease
\* is to deploy.
LEMMA ReleaseWritten ==
    ASSUME TypeOK, [Next]_vars, NEW c \in Clusters, release'[c].cfg # NoConfig,
           <<release'[c].cfg, release'[c].values>> # <<release[c].cfg, release[c].values>>
    PROVE  DeployHelmRelease /\ worker.c = c /\ release'[c].cfg = worker.cfg
  <1> USE DEF ProcessUnchanged, PlatformUnchanged
  <1>0. release \in [Clusters -> Release]
      BY DEF TypeOK
  <1>1. release' # release
      OBVIOUS
  <1>2. CASE DeployHelmRelease
      BY <1>0, <1>2 DEF DeployHelmRelease
  <1>3. CASE UndeployHelmRelease
    <2>1. \/ release' = release
          \/ release' = [release EXCEPT ![worker.c].status = "terminating"]
        BY <1>3 DEF UndeployHelmRelease
    <2>2. release'[c].cfg = release[c].cfg /\ release'[c].values = release[c].values
        BY <1>0, <2>1 DEF Release
    <2> QED
        BY <2>2
  <1>4. ASSUME NEW d \in Clusters, ReleaseGone(d) PROVE FALSE
      BY <1>0, <1>4 DEF ReleaseGone, NoRelease
  <1> QED
      BY <1>1, <1>2, <1>3, <1>4
      DEF Next, Step, Users, Providers, vars, GetCluster, HandleOperation, ReadConfig,
          HandleCreateOrUpdate, AddFinalizer, AddKnownCluster, EnsureAccess, GetAccess,
          CopySecrets, RemoveSecrets, DeploySource, PruneSources, DeleteSources,
          EnsureTargetClusterNamespace, HandleDelete, RefreshAccess, CheckAccess,
          UndeployHelmChartSource, DeleteAccess, RemoveFinalizer, RemoveKnownCluster, Fail,
          DeliverConfigEvent, Start, Crash, CreateCluster, ChangePurposes, Annotate,
          DeleteCluster, EditCluster, ChangeConfig, ClusterGone, SourceGone, ProvideAccess

\* A HelmRelease is written only when its secrets are in place on both sites.
THEOREM ReleaseAfterSecretsProperty == Spec => ReleaseAfterSecrets
  <1> DEFINE After ==
          \A c \in Clusters :
              release'[c].cfg # NoConfig
              /\ <<release'[c].cfg, release'[c].values>> # <<release[c].cfg, release[c].values>>
                  => LET g == release'[c].cfg
                     IN  /\ \A site \in Sites : copies[site][c] = SecretsToCopy[site][g]
                         /\ \A k \in SourceKinds \ {SourceKind[g]} : source[c][k] # "live"
                         /\ c \in namespace /\ HasFinalizer(c)
  <1>1. TypeOK /\ GuardInv /\ CopyGuard /\ [Next]_vars => [After]_vars
    <2> SUFFICES ASSUME TypeOK, GuardInv, CopyGuard, [Next]_vars,
                        NEW c \in Clusters, release'[c].cfg # NoConfig,
                        <<release'[c].cfg, release'[c].values>>
                            # <<release[c].cfg, release[c].values>>
                 PROVE  LET g == release'[c].cfg
                        IN  /\ \A site \in Sites : copies[site][c] = SecretsToCopy[site][g]
                            /\ \A k \in SourceKinds \ {SourceKind[g]} : source[c][k] # "live"
                            /\ c \in namespace /\ HasFinalizer(c)
        OBVIOUS
    <2>1. worker.pc = "release" /\ worker.c = c /\ release'[c].cfg = worker.cfg
        BY ReleaseWritten DEF DeployHelmRelease
    <2>2. HasFinalizer(c)
        BY <2>1 DEF GuardInv, PassGuard, DeploySteps
    <2> QED
        BY <2>1, <2>2 DEF CopyGuard, Sites
  <1> QED
      BY <1>1, TypeInvariant, GuardInvariant, CopyInvariant, PTL DEF Spec, ReleaseAfterSecrets

=============================================================================
