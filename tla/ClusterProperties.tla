------------------------- MODULE ClusterProperties -------------------------
(***************************************************************************)
(* What the DNSCluster controller promises: safety, action and liveness      *)
(* properties of ClusterReconciler.                                         *)
(***************************************************************************)
EXTENDS ClusterReconciler

-----------------------------------------------------------------------------
(* Safety. *)

\* Something of Cluster c is left on the platform cluster that only this
\* controller takes away.
HasResources(c) ==
    \/ release[c].status # "absent"
    \/ \E k \in SourceKinds : source[c][k] = "live"
    \/ access[c] # "absent"
    \/ copies["platform"][c] # {}

HasFinalizer(c) == Exists(c) /\ cluster[c].finalizer

\* The finalizer is there before the first resource of a Cluster and until
\* after the last one: no failure, restart or edit in between leaves resources
\* behind that no later pass would clean up (handleCreateOrUpdate puts the
\* finalizer first, handleDelete removes it last and waits for release and
\* access).
FinalizerGuard == \A c \in Clusters : HasResources(c) => HasFinalizer(c)

\* Copied credentials never stay behind on a target cluster that lives on:
\* handleDelete removes them while it still has access, and the finalizer
\* holds until then.
NoTargetOrphans == \A c \in Clusters : copies["target"][c] # {} => HasFinalizer(c)

\* An uninstallation needs access to the target cluster, so a HelmRelease has
\* a granted AccessRequest as long as it exists, deletion included.
ReleaseHasAccess ==
    \A c \in Clusters : release[c].status # "absent" => access[c] = "granted"

\* What handleCreateOrUpdate and handleDelete rely on at each call, although
\* the calls before it are long gone and the world goes on: the finalizer is as
\* they believe, and what was removed, waited for or registered stays so.
PassGuard ==
    LET c == worker.c
        at(steps) == worker.pc \in steps
    IN  /\ worker.pc # "idle" => up /\ (worker.seen.finalizer <=> HasFinalizer(c))
        /\ at((DeploySteps \ {"finalizer"}) \cup (CleanupSteps \ {"forget"}))
              => worker.seen.finalizer
        /\ at({"forget"}) => ~worker.seen.finalizer
        /\ at(PC \ {"copyPlatform", "prunePlatform", "copyTarget", "pruneTarget"})
              => worker.copied = {}
        /\ at(DeploySteps \ {"finalizer", "known"}) => c \in known
        /\ at(CleanupSteps \ {"undeploy", "forget"}) => release[c].status = "absent"
        /\ at({"removePlatform", "deleteAccess", "removeFinalizer"})
              => \A k \in SourceKinds : source[c][k] # "live"
        /\ at({"deleteAccess", "removeFinalizer"}) => copies["platform"][c] = {}
        /\ at({"removeFinalizer"}) => access[c] = "absent"
        /\ at({"operation"}) /\ Exists(c) /\ Ignored(worker.seen) /\ ~Ignored(cluster[c])
              => c \in queue

\* The same of the access to the target cluster.
AccessGuard ==
    LET c == worker.c
        at(steps) == worker.pc \in steps
    IN  /\ at(DeploySteps \ {"finalizer", "known", "access"}) => access[c] = "granted"
        /\ at({"checkAccess", "removeTarget"}) => access[c] = "granted"
        /\ at({"removeSources", "removePlatform", "deleteAccess", "removeFinalizer"})
              => copies["target"][c] = {}

\* The same of the copies: from the loops of copySecrets and removeSecrets on,
\* the copies are exactly those that the configuration read by the pass asks
\* for, although that configuration may be gone by then; and no source of
\* another kind and no namespace comes or goes behind the pass's back.
CopyGuard ==
    LET c == worker.c
        at(steps) == worker.pc \in steps
        wanted(site) == SecretsToCopy[site][worker.cfg]
        loop == [platform |-> {"copyPlatform", "prunePlatform"},
                 target |-> {"copyTarget", "pruneTarget"}]
    IN  /\ \A site \in Sites :
              at(loop[site]) => worker.copied \subseteq copies[site][c] \cap wanted(site)
        /\ at({"prunePlatform"}) => worker.copied = wanted("platform")
        /\ at({"pruneTarget"}) => worker.copied = wanted("target")
        /\ at({"source", "pruneSources", "namespace", "copyTarget", "pruneTarget", "release"})
              => copies["platform"][c] = wanted("platform")
        /\ at({"release"}) => copies["target"][c] = wanted("target")
        /\ at({"namespace", "copyTarget", "pruneTarget", "release"})
              => \A k \in SourceKinds \ {SourceKind[worker.cfg]} : source[c][k] # "live"
        /\ at({"copyTarget", "pruneTarget", "release"}) => c \in namespace

\* KnownClusters lives in memory only.  Still every Cluster with resources is
\* in it, or is about to be reconciled, or is ignored: a configuration change
\* has somewhere to go.
KnownCovers ==
    \A c \in Clusters :
        up /\ HasFinalizer(c) /\ ~Ignored(cluster[c])
            => c \in known \/ c \in queue \/ worker.c = c

\* Nothing is pending for Cluster c.
Quiescent(c) == up /\ ~configEvent /\ c \notin queue /\ worker.c # c

\* Configuration g asks for a deployment for Cluster c.
WantedBy(g, c) == ~cluster[c].deleting /\ Selected(g, cluster[c])

Wanted(c) == Exists(c) /\ WantedBy(config, c)

\* What a successful pass with configuration g leaves.  (Whether the release
\* and the source are live is DeploymentStays.)
DeployedFor(g, c) ==
    /\ HasFinalizer(c)
    /\ access[c] = "granted"
    /\ c \in namespace
    /\ release[c].status = "live"
          => /\ release[c].cfg = g
             /\ release[c].values = ValuesFor[g][cluster[c].purpose]
    /\ \A site \in Sites : copies[site][c] = SecretsToCopy[site][g]

CleanedUp(c) == ~HasResources(c) /\ ~HasFinalizer(c) /\ copies["target"][c] = {}

\* The resources of Cluster c are those that configuration g asks for.
AgreesWith(g, c) == IF WantedBy(g, c) THEN DeployedFor(g, c) ELSE CleanedUp(c)

\* When nothing is pending for a Cluster, its resources are those that one
\* configuration asks for, as a whole, for the Cluster as it is now: failures,
\* restarts and changes of configuration in the middle of a pass leave no
\* mixture behind that nobody comes back to.
WholeConfiguration ==
    \A c \in Clusters :
        up /\ c \notin queue /\ worker.c # c /\ Exists(c) /\ ~Ignored(cluster[c])
            => \E g \in Configs : AgreesWith(g, c)

\* Cluster c exists, a configuration says what it should have, and no work on
\* it is pending.
Settled(c) == Quiescent(c) /\ config # NoConfig /\ Exists(c)

\* When nothing is pending for a Cluster, its resources agree with its
\* purposes and the configuration, whatever edits of the Cluster, failures and
\* restarts led there: no pass ends without a request that would do what it
\* left undone, no watch filters the event that matters.
Converged ==
    \A c \in Clusters :
        Settled(c) /\ ~Ignored(cluster[c]) => AgreesWith(config, c)

\* When configurations change too: a known Cluster that is settled has what
\* the current configuration asks for (the watch of DNSServiceConfig requeues
\* all known Clusters).
KnownCurrent ==
    \A c \in Clusters :
        Settled(c) /\ c \in known /\ ~Ignored(cluster[c])
            => WantedBy(config, c) /\ DeployedFor(config, c)

\* The event of a new configuration requeues the known Clusters, and passes
\* over the one whose pass read the obsolete configuration and has not come to
\* AddKnownCluster, although that pass need not wait for access any more.
MissesPass ==
    /\ DeliverConfigEvent
    /\ worker.pc \in DeploySteps /\ worker.c \notin queue \cup known
    /\ worker.cfg # config /\ access[worker.c] # "absent"

\* A wanted Cluster that is settled has a HelmRelease and the source it refers
\* to: deployHelmRelease succeeded, and nothing takes them away afterwards.
DeploymentStays ==
    \A c \in Clusters :
        Settled(c) /\ Wanted(c) /\ ~Ignored(cluster[c])
            => /\ release[c].status # "absent"
               /\ source[c][SourceKind[config]] # "absent"

\* The generic reconcile annotation is a one-shot request: when the Cluster
\* comes to rest it is gone, unless a DNS-specific annotation hides it.
GenericConsumed ==
    \A c \in Clusters :
        Quiescent(c) /\ Exists(c)
            => ~(cluster[c].op = "reconcile" /\ cluster[c].dnsOp = "none")

\* The same of the annotation that counts, which may be the DNS-specific one.
OperationConsumed ==
    \A c \in Clusters :
        Quiescent(c) /\ Exists(c) /\ ~Ignored(cluster[c])
            => EffectiveOperation(cluster[c]) # "reconcile"

-----------------------------------------------------------------------------
(* Action properties. *)

\* The access to a target cluster is given up only when there is no
\* HelmRelease whose uninstallation would need it.
AccessOutlivesRelease ==
    [][\A c \in Clusters :
          access[c] = "granted" /\ access'[c] # "granted"
              => release[c].status = "absent"]_vars

\* A HelmRelease is written for a configuration only when exactly its secrets
\* are in place on both sites, no source of another kind is live, and the
\* finalizer holds, whatever the Cluster, the configuration and earlier passes
\* that failed went through.
ReleaseAfterSecrets ==
    [][\A c \in Clusters :
          release'[c].cfg # NoConfig
          /\ <<release'[c].cfg, release'[c].values>> # <<release[c].cfg, release[c].values>>
              => LET g == release'[c].cfg
                 IN  /\ \A site \in Sites : copies[site][c] = SecretsToCopy[site][g]
                     /\ \A k \in SourceKinds \ {SourceKind[g]} : source[c][k] # "live"
                     /\ c \in namespace /\ HasFinalizer(c)]_vars

\* While a HelmRelease is live, an obsolete copy goes only after all the copies
\* that replace it are there.
CopyBeforePrune ==
    [][\A c \in Clusters, site \in Sites :
          release[c].status = "live" /\ ~(copies[site][c] \subseteq copies'[site][c])
              => /\ worker.c = c
                 /\ SecretsToCopy[site][worker.cfg] \subseteq copies'[site][c]]_vars

-----------------------------------------------------------------------------
(* The contract.  The passes of the worker, with everything that goes on    *)
(* around them, implement the life of a deployment.                         *)

\* Something is placed on the platform cluster for the deployment of c.
Placed(c) == copies["platform"][c] # {} \/ \E k \in SourceKinds : source[c][k] = "live"

\* Cluster c as the contract sees it.
LifeOf(c) ==
    [held |-> HasFinalizer(c),
     access |-> access[c],
     placed |-> Placed(c),
     credentials |-> copies["target"][c] # {},
     release |-> release[c].status]

Contract == INSTANCE Deployment WITH life <- [c \in Clusters |-> LifeOf(c)]

\* Every step of the controller, its users and its providers is a step in the
\* life of one deployment, or none: handleCreateOrUpdate and handleDelete keep
\* the order of the contract across early returns, failures, restarts and
\* changes of mind, although no single pass sees the whole life.
ImplementsDeployment == Contract!Spec

\* What copying and removing for one site ask for.
CopyDemand(names) == [must |-> names, may |-> names]

\* The steps of a pass by what they mean for the copies at a site: the loops of
\* handleCreateOrUpdate and handleDelete, and what comes after them.
CopyPhase(site, pc) ==
    LET steps == [platform |-> [copying |-> {"copyPlatform"},
                                pruning |-> {"prunePlatform", "removePlatform"},
                                done |-> {"source", "pruneSources", "namespace", "copyTarget",
                                          "pruneTarget", "release", "deleteAccess",
                                          "removeFinalizer", "forget"}],
                  target |-> [copying |-> {"copyTarget"},
                              pruning |-> {"pruneTarget", "removeTarget"},
                              done |-> {"release", "removeSources", "removePlatform",
                                        "deleteAccess", "removeFinalizer", "forget"}]]
    IN  CASE pc \in steps[site].copying -> "copying"
          [] pc \in steps[site].pruning -> "pruning"
          [] pc \in steps[site].done -> "done"
          [] OTHER -> "none"

\* The running pass as the contract of copying sees it.
CopyPass(site) ==
    LET phase == CopyPhase(site, worker.pc)
    IN  [of |-> IF phase = "none" THEN NoCluster ELSE worker.c,
         demand |-> IF phase # "none" /\ worker.pc \in DeploySteps
                    THEN CopyDemand(SecretsToCopy[site][worker.cfg]) ELSE CopyDemand({}),
         phase |-> phase]

CopyDemands(site) ==
    [c \in Clusters |-> {CopyDemand(SecretsToCopy[site][g]) : g \in Configs} \cup {CopyDemand({})}]

PlatformCopies == INSTANCE CopyContract WITH
    Names <- Secrets, Demands <- CopyDemands("platform"),
    copies <- copies["platform"], pass <- CopyPass("platform")

TargetCopies == INSTANCE CopyContract WITH
    Names <- Secrets, Demands <- CopyDemands("target"),
    copies <- copies["target"], pass <- CopyPass("target")

\* At either site a pass copies before it removes, removes nothing that is asked
\* for, and from the end of its loops to its own end the copies stay what was
\* asked for, whatever else goes on, restarts and Clusters that vanish included.
ImplementsCopying == PlatformCopies!Spec /\ TargetCopies!Spec

-----------------------------------------------------------------------------
(* Liveness, of FairSpec. *)

\* A pass of the clean-up creates the AccessRequest (line 328): anew, when an
\* earlier pass has had it deleted but did not see it go (lines 369-378).
RenewsAccess(c) ==
    worker.c = c /\ RefreshAccess /\ access[c] = "absent" /\ access'[c] # "absent"

\* The finalizer of this controller keeps a Cluster that is to go.
AwaitsRelease(c) ==
    HasFinalizer(c) /\ cluster[c].deleting /\ config # NoConfig /\ ~Ignored(cluster[c])

\* A Cluster in deletion is released: it does not keep the finalizer for ever
\* while there is a configuration and it is not ignored.  Nothing in a pass, a
\* restart or a lost request prevents that, only the one loop the code has:
\* clean-up passes that create again and again the access they have deleted.
DeletionCompletes ==
    \A c \in Clusters : []<><<RenewsAccess(c)>>_vars \/ []<>~AwaitsRelease(c)

\* A configuration change reaches every Cluster that is known when it happens:
\* some later pass works with the configuration that is current then, even if
\* it changed again meanwhile.
ConfigReaches ==
    \A c \in Clusters :
        (configEvent /\ c \in known)
            ~> (worker.c = c /\ worker.cfg = config) \/ config = NoConfig \/ c \notin known

\* However long the provider takes to delete the access, reconciling often enough
\* removes the finalizer of a Cluster in deletion.
CleanupEnds == \A c \in Clusters : []<>~AwaitsRelease(c)

\* Retries come to an end: when nobody changes anything the controller does not
\* work on a Cluster for ever, except in that one loop of the clean-up.
PassesSettle ==
    \A c \in Clusters :
        []<><<RenewsAccess(c)>>_vars \/ []<>(Quiescent(c) \/ config = NoConfig)

=============================================================================
