------------------------- MODULE ClusterReconciler -------------------------
(***************************************************************************)
(* The DNSCluster controller of platform-service-dns: one worker that       *)
(* reconciles Cluster resources, deploys external-dns for the ones a        *)
(* DNSServiceConfig selects and cleans up after the others.                 *)
(*                                                                         *)
(* One step of the worker is one call to an API server, because between     *)
(* two calls anything may happen: users edit Clusters and configuration,    *)
(* Flux and the cluster provider finish what they were asked to do, a call  *)
(* fails, the pod dies.  Every read goes to the API server (the client of   *)
(* clusters.Cluster has no cache), so only the Cluster and the              *)
(* configuration kept in local variables during a pass can be stale.        *)
(***************************************************************************)
EXTENDS Naturals

CONSTANTS
    Clusters,       \* names of Cluster resources (with their namespaces)
    Purposes,       \* values of spec.purposes of a Cluster, taken as a whole
    Configs,        \* contents of the DNSServiceConfig resource
    Secrets,        \* names of copied secrets, in the namespace they go to
    SourceKinds,    \* Flux source kinds: Helm, Git and OCI repositories
    Values,         \* Helm values that entries of externalDNSForPurposes carry
    ValuesFor,      \* ValuesFor[g][p]: those of the first entry of g that
                    \* matches the purposes p, or NoValues
    SourceKind,     \* SourceKind[g]: the one source kind that g configures
    SecretsToCopy,  \* SecretsToCopy[site][g]: the copies that g asks for
    NoCluster,      \* stands for a Cluster that does not exist
    NoConfig,       \* stands for a DNSServiceConfig that does not exist
    NoValues,       \* no entry matches
    UserAnnotations,   \* the operation annotations that users set and unset
    TerminatingReady,  \* may the access library report a terminating
                       \* AccessRequest as ready?
    MaxChanges,     \* bound: changes by users (Clusters, configuration)
    MaxErrors,      \* bound: failing API calls
    MaxCrashes      \* bound: restarts of the controller

\* Where secrets are copied to (type copyTo).
Sites == {"platform", "target"}

\* Values of an operation annotation; "none" when it is not set.
Operations == {"none", "ignore", "reconcile"}

AnnotationKeys == {"op", "dnsOp"}

ASSUME ConstantsAssumption ==
    /\ ValuesFor \in [Configs -> [Purposes -> Values \cup {NoValues}]]
    /\ SourceKind \in [Configs -> SourceKinds]
    /\ SecretsToCopy \in [Sites -> [Configs -> SUBSET Secrets]]
    /\ UserAnnotations \subseteq [key: AnnotationKeys, value: Operations]
    /\ TerminatingReady \in BOOLEAN

ASSUME BoundsAssumption == MaxChanges \in Nat /\ MaxErrors \in Nat /\ MaxCrashes \in Nat

\* What the controller reads of a Cluster: deletion timestamp, its own
\* finalizer, the purposes, and the generic and DNS operation annotations.
ClusterObject == [deleting: BOOLEAN, finalizer: BOOLEAN, purpose: Purposes,
                  op: Operations, dnsOp: Operations]

ASSUME SentinelsAssumption ==
    /\ NoCluster \notin Clusters
    /\ NoCluster \notin ClusterObject
    /\ NoConfig \notin Configs
    /\ NoValues \notin Values

VARIABLES
    \* the platform cluster
    cluster,        \* the Cluster resources
    config,         \* the DNSServiceConfig of this provider
    release,        \* the HelmRelease of each Cluster
    source,         \* the Flux sources of each Cluster, by kind
    access,         \* the AccessRequest of each Cluster
    copies,         \* the copied secrets of each Cluster, by site
    \* the target clusters
    namespace,      \* Clusters that have the external-dns namespace
    \* the controller process
    up,             \* is it running?
    known,          \* KnownClusters
    queue,          \* the work queue, with the delayed and retried requests
    configEvent,    \* a configuration event that was not handled yet
    worker,         \* local state of the pass that is running
    left            \* what remains of the bounds

vars == <<cluster, config, release, source, access, copies, namespace,
          up, known, queue, configEvent, worker, left>>

Status == {"absent", "live", "terminating"}

AccessStatus == {"absent", "pending", "granted", "terminating"}

Release == [status: Status, cfg: Configs \cup {NoConfig}, values: Values \cup {NoValues}]

NoRelease == [status |-> "absent", cfg |-> NoConfig, values |-> NoValues]

\* Where a pass is: the call it makes next.
DeploySteps == {"finalizer", "known", "access", "accessRequest",
                "copyPlatform", "prunePlatform", "source", "pruneSources",
                "namespace", "copyTarget", "pruneTarget", "release"}

CleanupSteps == {"undeploy", "refreshAccess", "checkAccess", "removeTarget",
                 "removeSources", "removePlatform", "deleteAccess",
                 "removeFinalizer", "forget"}

PC == {"idle", "operation", "config"} \cup DeploySteps \cup CleanupSteps

\* c: the request; seen: the Cluster as read; cfg: the configuration as read;
\* values: what it holds for the purposes; copied: secrets copied by the last
\* loop; err: an error that did not end the pass at once.
Worker == [pc: PC, c: Clusters \cup {NoCluster}, seen: ClusterObject \cup {NoCluster},
           cfg: Configs \cup {NoConfig}, values: Values \cup {NoValues},
           copied: SUBSET Secrets, err: BOOLEAN]

Idle == [pc |-> "idle", c |-> NoCluster, seen |-> NoCluster, cfg |-> NoConfig,
         values |-> NoValues, copied |-> {}, err |-> FALSE]

TypeOK ==
    /\ cluster \in [Clusters -> ClusterObject \cup {NoCluster}]
    /\ config \in Configs \cup {NoConfig}
    /\ release \in [Clusters -> Release]
    /\ source \in [Clusters -> [SourceKinds -> Status]]
    /\ access \in [Clusters -> AccessStatus]
    /\ copies \in [Sites -> [Clusters -> SUBSET Secrets]]
    /\ namespace \subseteq Clusters
    /\ up \in BOOLEAN
    /\ known \subseteq Clusters
    /\ queue \subseteq Clusters
    /\ configEvent \in BOOLEAN
    /\ worker \in Worker
    /\ worker.pc = "idle" => worker = Idle
    /\ worker.pc # "idle" => worker.c \in Clusters /\ worker.seen \in ClusterObject
    /\ worker.pc \in DeploySteps \cup CleanupSteps => worker.cfg \in Configs
    /\ worker.pc \in DeploySteps => worker.values \in Values
    /\ left \in [changes: Nat, errors: Nat, crashes: Nat]

Exists(c) == cluster[c] # NoCluster

NewCluster(p) == [deleting |-> FALSE, finalizer |-> FALSE, purpose |-> p,
                  op |-> "none", dnsOp |-> "none"]

\* Clusters exist or not, the controller was never there.
Init ==
    /\ cluster \in [Clusters -> {NewCluster(p) : p \in Purposes} \cup {NoCluster}]
    /\ config \in Configs \cup {NoConfig}
    /\ release = [c \in Clusters |-> NoRelease]
    /\ source = [c \in Clusters |-> [k \in SourceKinds |-> "absent"]]
    /\ access = [c \in Clusters |-> "absent"]
    /\ copies = [s \in Sites |-> [c \in Clusters |-> {}]]
    /\ namespace = {}
    /\ up = FALSE
    /\ known = {}
    /\ queue = {}
    /\ configEvent = FALSE
    /\ worker = Idle
    /\ left = [changes |-> MaxChanges, errors |-> MaxErrors, crashes |-> MaxCrashes]

-----------------------------------------------------------------------------
(* Watches: which changes of a Cluster lead to a request. *)

\* HasAnnotationPredicate, on either key.
Ignored(obj) == "ignore" \in {obj.op, obj.dnsOp}

\* Mutant: setting the reconcile annotation is no reason to reconcile.
OnlyLostAnnotation(old, new) ==
    \E key \in AnnotationKeys : old[key] # new[key] /\ old[key] = "ignore"

\* Mutant: the end of an ignore annotation is no reason to reconcile.
OnlyGotAnnotation(old, new) ==
    \E key \in AnnotationKeys : old[key] # new[key] /\ new[key] = "reconcile"

\* GotAnnotationPredicate and LostAnnotationPredicate, on either key.
AnnotationTrigger(old, new) ==
    \E key \in AnnotationKeys :
        /\ old[key] # new[key]
        /\ new[key] = "reconcile" \/ old[key] = "ignore"

\* Mutant: a deletion timestamp is no reason to reconcile.
DeletionPasses(old, new) ==
    (old.purpose # new.purpose \/ AnnotationTrigger(old, new)) /\ ~Ignored(new)

\* The predicates of SetupWithManager on an update.  A change of the spec and
\* the deletion timestamp also change the generation.
UpdatePasses(old, new) ==
    /\ \/ old.purpose # new.purpose
       \/ old.deleting # new.deleting
       \/ AnnotationTrigger(old, new)
    /\ ~Ignored(new)

\* Adding to the queue is idempotent; a stopped controller sees no event.
Enqueue(c, passes) == queue' = IF up /\ passes THEN queue \cup {c} ELSE queue

UpdateCluster(c, new) ==
    /\ cluster' = [cluster EXCEPT ![c] = new]
    /\ Enqueue(c, UpdatePasses(cluster[c], new))

-----------------------------------------------------------------------------
(* The worker: a pass of Reconcile. *)

Goto(pc) == worker' = [worker EXCEPT !.pc = pc]

\* The pass ends without a result, the request is forgotten.
Done == worker' = Idle

\* Mutant: the name of the request is taken after the reset.
RequeueAfterReset ==
    /\ worker' = Idle
    /\ queue' = queue \cup {worker'.c}

\* The pass ends with RequeueAfter or an error, the request comes back.
Requeue ==
    /\ worker' = Idle
    /\ queue' = queue \cup {worker.c}

\* Objects that the middle of a pass never touches.
ProcessUnchanged == UNCHANGED <<up, known, configEvent, left>>

\* Reconcile, first part: take a request and read the Cluster.
GetCluster(c) ==
    /\ up /\ worker.pc = "idle" /\ c \in queue
    /\ queue' = queue \ {c}
    /\ IF Exists(c)
       THEN /\ worker' = [Idle EXCEPT !.pc = "operation", !.c = c, !.seen = cluster[c]]
            /\ known' = known
       ELSE /\ known' = known \ {c}
            /\ worker' = worker
    /\ UNCHANGED <<cluster, config, release, source, access, copies, namespace,
                   up, configEvent, left>>

\* The generic annotation counts only when there is no DNS-specific one.
EffectiveOperation(obj) == IF obj.dnsOp # "none" THEN obj.dnsOp ELSE obj.op

\* EnsureAnnotation removes the generic annotation, whichever of the two was
\* evaluated.  It patches only if the copy at hand has the annotation, and the
\* response of the patch refreshes that copy.
RemoveOperationAnnotation(c) ==
    IF worker.seen.op = "none"
    THEN /\ Goto("config")
         /\ UNCHANGED <<cluster, queue>>
    ELSE IF Exists(c)
    THEN LET new == [cluster[c] EXCEPT !.op = "none"]
         IN  /\ UpdateCluster(c, new)
             /\ worker' = [worker EXCEPT !.pc = "config", !.seen = new]
    ELSE /\ Requeue
         /\ UNCHANGED cluster

HandleOperation ==
    /\ worker.pc = "operation"
    /\ LET operation == EffectiveOperation(worker.seen)
       IN  \/ /\ operation = "ignore"
              /\ Done
              /\ UNCHANGED <<cluster, queue>>
           \/ /\ operation = "reconcile"
              /\ RemoveOperationAnnotation(worker.c)
           \/ /\ operation = "none"
              /\ Goto("config")
              /\ UNCHANGED <<cluster, queue>>
    /\ UNCHANGED <<config, release, source, access, copies, namespace>>
    /\ ProcessUnchanged

Selected(g, obj) == ValuesFor[g][obj.purpose] # NoValues

\* Read the configuration, match the purposes, and take the deploying or the
\* cleaning branch; without the finalizer there is nothing to clean.
ReadConfig ==
    /\ worker.pc = "config"
    /\ \/ /\ config = NoConfig
          /\ Requeue
          /\ known' = known
       \/ /\ config # NoConfig
          /\ queue' = queue
          /\ LET start(pc) == [worker EXCEPT !.pc = pc, !.cfg = config,
                                 !.values = ValuesFor[config][worker.seen.purpose]]
             IN  IF ~worker.seen.deleting /\ Selected(config, worker.seen)
                 THEN worker' = start("finalizer") /\ known' = known
                 ELSE IF worker.seen.finalizer
                 THEN worker' = start("undeploy") /\ known' = known
                 ELSE Done /\ known' = known \ {worker.c}
    /\ UNCHANGED <<cluster, config, release, source, access, copies, namespace,
                   up, configEvent, left>>

\* The API server rejects a new finalizer on a Cluster that is being deleted.
AcceptsFinalizer(c) == Exists(c) /\ ~cluster[c].deleting

\* Patch the finalizer in, unless the Cluster was read with it.
AddFinalizer ==
    /\ worker.pc = "finalizer"
    /\ LET c == worker.c
       IN  \/ /\ worker.seen.finalizer
              /\ Goto("known")
              /\ UNCHANGED <<cluster, queue>>
           \/ /\ ~worker.seen.finalizer
              /\ AcceptsFinalizer(c)
              /\ cluster' = [cluster EXCEPT ![c].finalizer = TRUE]
              /\ worker' = [worker EXCEPT !.pc = "known", !.seen = cluster'[c]]
              /\ queue' = queue
           \/ /\ ~worker.seen.finalizer
              /\ ~AcceptsFinalizer(c)
              /\ Requeue
              /\ UNCHANGED cluster
    /\ UNCHANGED <<config, release, source, access, copies, namespace>>
    /\ ProcessUnchanged

AddKnownCluster ==
    /\ worker.pc = "known"
    /\ known' = known \cup {worker.c}
    /\ Goto("access")
    /\ UNCHANGED <<cluster, config, release, source, access, copies, namespace,
                   up, queue, configEvent, left>>

\* The access library, external: Reconcile creates a missing AccessRequest and
\* asks for a requeue until it is granted.
AccessOutcomes(status) ==
    [access: {IF status = "absent" THEN "pending" ELSE status},
     ready: {status = "granted"} \cup
            (IF status = "terminating" /\ TerminatingReady THEN {TRUE} ELSE {})]

ReconcileAccess(next) ==
    \E outcome \in AccessOutcomes(access[worker.c]) :
        /\ access' = [access EXCEPT ![worker.c] = outcome.access]
        /\ IF outcome.ready
           THEN /\ Goto(next)
                /\ queue' = queue
           ELSE Requeue

EnsureAccess ==
    /\ worker.pc = "access"
    /\ ReconcileAccess("accessRequest")
    /\ UNCHANGED <<cluster, config, release, source, copies, namespace>>
    /\ ProcessUnchanged

\* Read the AccessRequest and get a client.  An error of the read is recorded
\* without a return; it ends the pass after the first copying.
GetAccess ==
    /\ worker.pc = "accessRequest"
    /\ \/ /\ Goto("copyPlatform")
          /\ left' = left
       \/ /\ left.errors > 0
          /\ worker' = [worker EXCEPT !.pc = "copyPlatform", !.err = TRUE]
          /\ left' = [left EXCEPT !.errors = @ - 1]
    /\ UNCHANGED <<cluster, config, release, source, access, copies, namespace,
                   up, known, queue, configEvent>>

\* Mutant: copying ends with the first secret.
FirstToCopy(site) == IF worker.copied = {} THEN SecretsToCopy[site][worker.cfg] ELSE {}

ToCopy(site) == SecretsToCopy[site][worker.cfg] \ worker.copied

\* copySecrets: the configured secrets, one at a time, in any order.
CopySecrets(site, pc, next) ==
    /\ worker.pc = pc
    /\ \/ \E s \in ToCopy(site) :
             /\ copies' = [copies EXCEPT ![site][worker.c] = @ \cup {s}]
             /\ worker' = [worker EXCEPT !.copied = @ \cup {s}]
             /\ queue' = queue
       \/ /\ ToCopy(site) = {} /\ ~worker.err
          /\ Goto(next)
          /\ UNCHANGED <<copies, queue>>
       \/ /\ ToCopy(site) = {} /\ worker.err
          /\ Requeue
          /\ copies' = copies
    /\ UNCHANGED <<cluster, config, release, source, access, namespace>>
    /\ ProcessUnchanged

\* Mutant: nothing is pruned.
NothingToRemove(site) == {}

ToRemove(site) == copies[site][worker.c] \ worker.copied

\* removeSecrets: delete, one at a time, what is not in copied.
RemoveSecrets(site, pc, next) ==
    /\ worker.pc = pc
    /\ \/ \E s \in ToRemove(site) :
             /\ copies' = [copies EXCEPT ![site][worker.c] = @ \ {s}]
             /\ worker' = worker
       \/ /\ ToRemove(site) = {}
          /\ worker' = [worker EXCEPT !.pc = next, !.copied = {}]
          /\ copies' = copies
    /\ UNCHANGED <<cluster, config, release, source, access, namespace, queue>>
    /\ ProcessUnchanged

\* Create or update the configured Flux source.  An update does not revive an
\* object that is terminating.
DeploySource ==
    /\ worker.pc = "source"
    /\ source' = [source EXCEPT ![worker.c][SourceKind[worker.cfg]] =
                      IF @ = "absent" THEN "live" ELSE @]
    /\ Goto("pruneSources")
    /\ UNCHANGED <<cluster, config, release, access, copies, namespace, queue>>
    /\ ProcessUnchanged

\* Delete sources, one at a time, without waiting for them to be gone.
DeleteSources(pc, obsolete, next) ==
    /\ worker.pc = pc
    /\ LET todo == {k \in obsolete : source[worker.c][k] = "live"}
       IN  \/ \E k \in todo :
                 /\ source' = [source EXCEPT ![worker.c][k] = "terminating"]
                 /\ worker' = worker
           \/ /\ todo = {}
              /\ Goto(next)
              /\ source' = source
    /\ UNCHANGED <<cluster, config, release, access, copies, namespace, queue>>
    /\ ProcessUnchanged

PruneSources ==
    DeleteSources("pruneSources", SourceKinds \ {SourceKind[worker.cfg]}, "namespace")

EnsureTargetClusterNamespace ==
    /\ worker.pc = "namespace"
    /\ namespace' = namespace \cup {worker.c}
    /\ Goto("copyTarget")
    /\ UNCHANGED <<cluster, config, release, source, access, copies, queue>>
    /\ ProcessUnchanged

\* Create or update the HelmRelease; the pass has succeeded.
DeployHelmRelease ==
    /\ worker.pc = "release"
    /\ release' = [release EXCEPT ![worker.c] =
                       [status |-> IF @.status = "absent" THEN "live" ELSE @.status,
                        cfg |-> worker.cfg, values |-> worker.values]]
    /\ Done
    /\ UNCHANGED <<cluster, config, source, access, copies, namespace, queue>>
    /\ ProcessUnchanged

\* Mutant: the deletion of the HelmRelease is not awaited.
UndeployWithoutWaiting ==
    /\ worker.pc = "undeploy"
    /\ release' = [release EXCEPT ![worker.c].status =
                       IF @ = "absent" THEN @ ELSE "terminating"]
    /\ Goto("refreshAccess")
    /\ UNCHANGED <<cluster, config, source, access, copies, namespace, queue>>
    /\ ProcessUnchanged

\* Mutant: the pass comes back even when the HelmRelease is gone.
UndeployAlwaysWaiting ==
    /\ worker.pc = "undeploy"
    /\ release' = [release EXCEPT ![worker.c].status =
                       IF @ = "absent" THEN @ ELSE "terminating"]
    /\ Requeue
    /\ UNCHANGED <<cluster, config, source, access, copies, namespace>>
    /\ ProcessUnchanged

\* Delete the HelmRelease and come back until it is gone.
UndeployHelmRelease ==
    /\ worker.pc = "undeploy"
    /\ IF release[worker.c].status = "absent"
       THEN /\ Goto("refreshAccess")
            /\ UNCHANGED <<release, queue>>
       ELSE /\ release' = [release EXCEPT ![worker.c].status = "terminating"]
            /\ Requeue
    /\ UNCHANGED <<cluster, config, source, access, copies, namespace>>
    /\ ProcessUnchanged

RefreshAccess ==
    /\ worker.pc = "refreshAccess"
    /\ ReconcileAccess("checkAccess")
    /\ UNCHANGED <<cluster, config, release, source, copies, namespace>>
    /\ ProcessUnchanged

\* Mutant: the copies on the target cluster are always skipped.
NeverUsable(c) == FALSE

AccessUsable(c) == access[c] = "granted"

\* The copies on the target cluster are skipped without a usable access.
CheckAccess ==
    /\ worker.pc = "checkAccess"
    /\ Goto(IF AccessUsable(worker.c) THEN "removeTarget" ELSE "removeSources")
    /\ UNCHANGED <<cluster, config, release, source, access, copies, namespace, queue>>
    /\ ProcessUnchanged

UndeployHelmChartSource == DeleteSources("removeSources", SourceKinds, "removePlatform")

\* The access library, external: ReconcileDelete deletes the AccessRequest and
\* asks for a requeue while it is still there.
DeleteOutcomes(status) ==
    CASE status = "absent" -> {"absent"}
      [] status = "terminating" -> {"terminating"}
      [] OTHER -> {"absent", "terminating"}

DeleteAccess ==
    /\ worker.pc = "deleteAccess"
    /\ \E status \in DeleteOutcomes(access[worker.c]) :
          /\ access' = [access EXCEPT ![worker.c] = status]
          /\ IF status = "absent"
             THEN /\ Goto("removeFinalizer")
                  /\ queue' = queue
             ELSE Requeue
    /\ UNCHANGED <<cluster, config, release, source, copies, namespace>>
    /\ ProcessUnchanged

RemoveFinalizer ==
    /\ worker.pc = "removeFinalizer"
    /\ IF Exists(worker.c)
       THEN /\ cluster' = [cluster EXCEPT ![worker.c].finalizer = FALSE]
            /\ worker' = [worker EXCEPT !.pc = "forget", !.seen = cluster'[worker.c]]
            /\ queue' = queue
       ELSE /\ Requeue
            /\ UNCHANGED cluster
    /\ UNCHANGED <<config, release, source, access, copies, namespace>>
    /\ ProcessUnchanged

RemoveKnownCluster ==
    /\ worker.pc = "forget"
    /\ known' = known \ {worker.c}
    /\ Done
    /\ UNCHANGED <<cluster, config, release, source, access, copies, namespace,
                   up, queue, configEvent, left>>

\* A call of the pass fails, or its answer is lost: the request is retried.
Fail ==
    /\ worker.pc # "idle" /\ left.errors > 0
    /\ left' = [left EXCEPT !.errors = @ - 1]
    /\ Requeue
    /\ UNCHANGED <<cluster, config, release, source, access, copies, namespace,
                   up, known, configEvent>>

HandleCreateOrUpdate ==
    \/ AddFinalizer
    \/ AddKnownCluster
    \/ EnsureAccess
    \/ GetAccess
    \/ CopySecrets("platform", "copyPlatform", "prunePlatform")
    \/ RemoveSecrets("platform", "prunePlatform", "source")
    \/ DeploySource
    \/ PruneSources
    \/ EnsureTargetClusterNamespace
    \/ CopySecrets("target", "copyTarget", "pruneTarget")
    \/ RemoveSecrets("target", "pruneTarget", "release")
    \/ DeployHelmRelease

HandleDelete ==
    \/ UndeployHelmRelease
    \/ RefreshAccess
    \/ CheckAccess
    \/ RemoveSecrets("target", "removeTarget", "removeSources")
    \/ UndeployHelmChartSource
    \/ RemoveSecrets("platform", "removePlatform", "deleteAccess")
    \/ DeleteAccess
    \/ RemoveFinalizer
    \/ RemoveKnownCluster

\* One step of a pass that has begun.
Step == HandleOperation \/ ReadConfig \/ HandleCreateOrUpdate \/ HandleDelete

-----------------------------------------------------------------------------
(* The process. *)

\* Mutant: a Cluster that is being worked on need not come back.
ListIdleClusters == known \ {worker.c}

ListKnownClusters == known

\* Watches EnqueueRequestsFromMapFunc: the Clusters that are known when the
\* event is handled, not when the configuration changed.
DeliverConfigEvent ==
    /\ up /\ configEvent
    /\ configEvent' = FALSE
    /\ queue' = queue \cup ListKnownClusters
    /\ UNCHANGED <<cluster, config, release, source, access, copies, namespace,
                   up, known, worker, left>>

\* Mutant: Clusters that were handled before need not be listed.
ListedWithoutFinalizer ==
    {c \in Clusters : Exists(c) /\ ~Ignored(cluster[c]) /\ ~cluster[c].finalizer}

Listed == {c \in Clusters : Exists(c) /\ ~Ignored(cluster[c])}

\* The process checks that its configuration exists before it starts its
\* watches; by then the configuration may be gone again.  The first listing is
\* a create event for every Cluster and for the configuration, if it is there.
Start ==
    /\ ~up
    /\ up' = TRUE
    /\ queue' = Listed
    /\ configEvent' = (config # NoConfig)
    /\ UNCHANGED <<cluster, config, release, source, access, copies, namespace,
                   known, worker, left>>

\* Everything in memory is lost, in the middle of a pass or between two.
Crash ==
    /\ up /\ left.crashes > 0
    /\ left' = [left EXCEPT !.crashes = @ - 1]
    /\ up' = FALSE
    /\ known' = {}
    /\ queue' = {}
    /\ configEvent' = FALSE
    /\ worker' = Idle
    /\ UNCHANGED <<cluster, config, release, source, access, copies, namespace>>

-----------------------------------------------------------------------------
(* The environment. *)

PlatformUnchanged == UNCHANGED <<release, source, access, copies, namespace>>

UserChange == left.changes > 0 /\ left' = [left EXCEPT !.changes = @ - 1]

CreateCluster(c) ==
    /\ UserChange
    /\ ~Exists(c)
    /\ \E p \in Purposes : cluster' = [cluster EXCEPT ![c] = NewCluster(p)]
    /\ Enqueue(c, TRUE)
    /\ PlatformUnchanged
    /\ UNCHANGED <<config, up, known, configEvent, worker>>

EditCluster(c, new) ==
    /\ UserChange
    /\ UpdateCluster(c, new)
    /\ PlatformUnchanged
    /\ UNCHANGED <<config, up, known, configEvent, worker>>

ChangePurposes(c) ==
    /\ Exists(c)
    /\ \E p \in Purposes \ {cluster[c].purpose} :
          EditCluster(c, [cluster[c] EXCEPT !.purpose = p])

Annotate(c) ==
    /\ Exists(c)
    /\ \E a \in UserAnnotations :
          /\ cluster[c][a.key] # a.value
          /\ EditCluster(c, [cluster[c] EXCEPT ![a.key] = a.value])

\* Deleting sets the deletion timestamp; the Cluster stays while finalizers,
\* this controller's or the cluster provider's, hold it.
DeleteCluster(c) ==
    /\ Exists(c) /\ ~cluster[c].deleting
    /\ EditCluster(c, [cluster[c] EXCEPT !.deleting = TRUE])

\* The Cluster resource is gone, and with it the target cluster.
ClusterGone(c) ==
    /\ Exists(c) /\ cluster[c].deleting /\ ~cluster[c].finalizer
    /\ cluster' = [cluster EXCEPT ![c] = NoCluster]
    /\ Enqueue(c, ~Ignored(cluster[c]))
    /\ copies' = [copies EXCEPT !["target"][c] = {}]
    /\ namespace' = namespace \ {c}
    /\ UNCHANGED <<config, release, source, access, up, known, configEvent,
                   worker, left>>

\* The configuration is created, edited or deleted.
ChangeConfig ==
    /\ UserChange
    /\ \E g \in (Configs \cup {NoConfig}) \ {config} : config' = g
    /\ configEvent' = up
    /\ PlatformUnchanged
    /\ UNCHANGED <<cluster, up, known, queue, worker>>

\* Flux's helm controller has uninstalled the chart.
ReleaseGone(c) ==
    /\ release[c].status = "terminating"
    /\ release' = [release EXCEPT ![c] = NoRelease]
    /\ UNCHANGED <<cluster, config, source, access, copies, namespace,
                   up, known, queue, configEvent, worker, left>>

\* Flux's source controller has cleaned up.
SourceGone(c) ==
    /\ \E k \in SourceKinds :
          /\ source[c][k] = "terminating"
          /\ source' = [source EXCEPT ![c][k] = "absent"]
    /\ UNCHANGED <<cluster, config, release, access, copies, namespace,
                   up, known, queue, configEvent, worker, left>>

\* The cluster provider grants the access or takes it back.
ProvideAccess(c) ==
    /\ \/ /\ access[c] = "pending"
          /\ access' = [access EXCEPT ![c] = "granted"]
       \/ /\ access[c] = "terminating"
          /\ access' = [access EXCEPT ![c] = "absent"]
    /\ UNCHANGED <<cluster, config, release, source, copies, namespace,
                   up, known, queue, configEvent, worker, left>>

Providers(c) == ReleaseGone(c) \/ SourceGone(c) \/ ProvideAccess(c)

Users ==
    \/ \E c \in Clusters : \/ CreateCluster(c) \/ ChangePurposes(c)
                           \/ Annotate(c) \/ DeleteCluster(c)
    \/ ChangeConfig

Next ==
    \/ \E c \in Clusters : GetCluster(c)
    \/ Step
    \/ Fail
    \/ DeliverConfigEvent
    \/ Start
    \/ Crash
    \/ Users
    \/ \E c \in Clusters : Providers(c) \/ ClusterGone(c)

Spec == Init /\ [][Next]_vars

(***************************************************************************)
(* What the runtime and the providers owe: a running pass goes on, the      *)
(* queue starves nobody, a configuration event is handled in the end, a     *)
(* stopped pod is started again while there is a configuration, and Flux    *)
(* and the cluster provider finish.                                         *)
(* A pass may be disturbed by other requests for ever, hence the strong     *)
(* fairness of GetCluster.  Nothing is assumed of how long the deletion of  *)
(* an AccessRequest takes, nor of users, failures and crashes.              *)
(***************************************************************************)
Fairness ==
    /\ WF_vars(Step)
    /\ WF_vars(DeliverConfigEvent)
    /\ WF_vars(config # NoConfig /\ Start)
    /\ \A c \in Clusters :
          /\ SF_vars(GetCluster(c))
          /\ WF_vars(ReleaseGone(c))
          /\ WF_vars(SourceGone(c))
          /\ WF_vars(ProvideAccess(c))

FairSpec == Spec /\ Fairness

=============================================================================
