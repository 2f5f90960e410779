------------------------------ MODULE Rollout ------------------------------
(***************************************************************************)
(* A rolling update: two processes of platform-service-dns, a and b, each   *)
(* with its own manager, queue and KnownClusters, on one platform cluster.  *)
(* Users and providers act on both at once.                                 *)
(***************************************************************************)
CONSTANTS
    Clusters, Purposes, Configs, Secrets, SourceKinds, Values, ValuesFor,
    SourceKind, SecretsToCopy, NoCluster, NoConfig, NoValues, UserAnnotations,
    TerminatingReady, MaxChanges, MaxErrors, MaxCrashes,
    Nobody, LeaderElection

ASSUME LeaderElectionAssumption == LeaderElection \in BOOLEAN /\ Nobody \notin {"a", "b"}

VARIABLES
    cluster, config, release, source, access, copies, namespace, left,  \* shared
    crds, lease,
    readyA, upA, knownA, queueA, eventA, workerA,   \* process a
    readyB, upB, knownB, queueB, eventB, workerB    \* process b

A == INSTANCE RunCommand WITH
        Self <- "a", ready <- readyA, up <- upA, known <- knownA, queue <- queueA,
        configEvent <- eventA, worker <- workerA

B == INSTANCE RunCommand WITH
        Self <- "b", ready <- readyB, up <- upB, known <- knownB, queue <- queueB,
        configEvent <- eventB, worker <- workerB

\* The constants are those of the controller.
ASSUME ControllerAssumption ==
    A!ConstantsAssumption /\ A!BoundsAssumption /\ A!SentinelsAssumption

shared == <<cluster, config, release, source, access, copies, namespace, left, crds, lease>>
processA == <<readyA, upA, knownA, queueA, eventA, workerA>>
processB == <<readyB, upB, knownB, queueB, eventB, workerB>>

vars == <<shared, processA, processB>>

\* A DNSServiceConfig exists only with its CRD.
Init ==
    /\ A!Init /\ B!Init
    /\ crds \in BOOLEAN
    /\ config # NoConfig => crds
    /\ lease = Nobody
    /\ readyA = FALSE /\ readyB = FALSE

Manager ==
    \/ (A!Run \/ A!Lead \/ A!Exit \/ A!LeaseExpires) /\ UNCHANGED processB
    \/ (B!Run \/ B!Lead \/ B!Exit \/ B!LeaseExpires) /\ UNCHANGED processA

InitCommand == A!InitCommand /\ UNCHANGED processB

\* What one controller writes the watch of the other may see.
Work ==
    \/ A!Work /\ B!Observe /\ UNCHANGED <<readyB, upB, knownB, eventB, workerB>>
    \/ B!Work /\ A!Observe /\ UNCHANGED <<readyA, upA, knownA, eventA, workerA>>

Environment ==
    /\ \/ A!Users /\ B!Users
       \/ \E c \in Clusters : \/ A!Providers(c) /\ B!Providers(c)
                              \/ A!ClusterGone(c) /\ B!ClusterGone(c)
    /\ config' # config => crds
    /\ UNCHANGED <<crds, lease, readyA, readyB>>

Next == Manager \/ InitCommand \/ Work \/ Environment

Spec == Init /\ [][Next]_vars

FairSpec == Spec /\ A!RunFairness /\ B!RunFairness /\ A!ProviderFairness

-----------------------------------------------------------------------------
(* The process that works.  Two processes that take turns look like one      *)
(* that ends in one place and is started in another.                        *)

oneUp == upA \/ upB
oneKnown == IF upA THEN knownA ELSE knownB
oneQueue == IF upA THEN queueA ELSE queueB
oneEvent == IF upA THEN eventA ELSE eventB
oneWorker == IF upA THEN workerA ELSE workerB

One == INSTANCE ClusterProperties WITH
          up <- oneUp, known <- oneKnown, queue <- oneQueue, configEvent <- oneEvent,
          worker <- oneWorker

\* A rolling update is nothing but a restart: every step of either process, of
\* the lease and of the manager is a step of the one controller, or none.  There
\* is no moment at which a process that is not the leader has something in
\* memory, in its queue or under way.
TakesTurns == One!Spec

-----------------------------------------------------------------------------
(* Safety. *)

\* The passes of two processes do not interfere: what a pass relies on (the
\* finalizer, the access, the copies) is not undone by the other process,
\* although each only knows of its own.
NoInterference ==
    /\ A!PassGuard /\ A!AccessGuard /\ A!CopyGuard
    /\ B!PassGuard /\ B!AccessGuard /\ B!CopyGuard

\* A process that takes over starts with an empty KnownClusters; still it
\* forgets no Cluster with resources, wherever the other process stopped.
TakeoverCovers == A!KnownCovers /\ B!KnownCovers

\* A change of processes leaves nothing half-done: when the active one is at
\* rest, the resources agree with the Cluster and the configuration.
TakeoverConverged == A!Converged /\ B!Converged

\* Two processes that take turns implement the contract of one.
ImplementsDeployment == A!ImplementsDeployment

-----------------------------------------------------------------------------
(* Liveness, of FairSpec. *)

\* Nobody waits for ever for a lease whose holder is gone, and nobody refuses
\* to start for ever: while there is a configuration some process works.
SomebodyLeads == []<>(config = NoConfig \/ upA \/ upB)

\* A Cluster in deletion is released, whichever process began to clean up, or
\* clean-up passes of one or the other create its access again and again.
DeletionCompletes ==
    \A c \in Clusters :
        \/ []<><<A!RenewsAccess(c) \/ B!RenewsAccess(c)>>_vars
        \/ []<>~A!AwaitsRelease(c)

=============================================================================
