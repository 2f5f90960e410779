----------------------------- MODULE RunCommand -----------------------------
(***************************************************************************)
(* One process of platform-service-dns: the init command, which installs    *)
(* the CRDs, and the run command, which starts a manager with the           *)
(* DNSCluster controller in it.  With leader election the manager starts    *)
(* the controller only when it holds the lease.  The controller itself is   *)
(* that of ClusterReconciler; up means that it works.                       *)
(***************************************************************************)
EXTENDS ClusterProperties

CONSTANTS
    Self,             \* this process
    Nobody,           \* holder of a lease that is free
    LeaderElection    \* the flag leader-elect

VARIABLES
    crds,             \* are the CRDs of the service installed?
    ready,            \* the manager of this process runs
    lease             \* holder of the leader election lease

runVars == <<vars, crds, ready, lease>>

APIUnchanged == UNCHANGED <<cluster, config, release, source, access, copies, namespace>>

\* InitOptions.Run: CreateOrUpdateCRDs.
InitCommand ==
    /\ ~crds
    /\ crds' = TRUE
    /\ UNCHANGED <<vars, ready, lease>>

\* RunOptions.Run up to mgr.Start: without its configuration the process exits,
\* and Kubernetes starts it again.  There is no configuration without CRDs.
Run ==
    /\ ~ready /\ config # NoConfig
    /\ ready' = TRUE
    /\ UNCHANGED <<vars, crds, lease>>

\* Mutant: a controller that takes over waits for events.
LeadWithoutListing ==
    /\ ready /\ ~up
    /\ LeaderElection => lease = Nobody
    /\ lease' = IF LeaderElection THEN Self ELSE lease
    /\ up' = TRUE
    /\ UNCHANGED <<queue, configEvent, known, worker, left, crds, ready>>
    /\ APIUnchanged

\* mgr.Start: the controller starts its watches, at once or when the manager
\* has become the leader.
Lead ==
    /\ ready
    /\ LeaderElection => lease = Nobody
    /\ lease' = IF LeaderElection THEN Self ELSE lease
    /\ Start
    /\ UNCHANGED <<crds, ready>>

\* The process ends, by a failure or in a rolling update.  The lease stays, as
\* LeaderElectionReleaseOnCancel is not set.
Exit ==
    /\ Crash
    /\ ready' = FALSE
    /\ UNCHANGED <<crds, lease>>

\* Mutant: the lease of a process that has ended is never given away.
NeverExpires == FALSE /\ UNCHANGED runVars

\* Mutant: a lease may be lost to the other process in the middle of a pass.
ExpiresWhileWorking ==
    /\ lease = Self
    /\ lease' = Nobody
    /\ UNCHANGED <<vars, crds, ready>>

\* The lease of a process that has ended runs out.  A manager that cannot renew
\* its lease ends before that: the renew deadline is shorter than the lease.
LeaseExpires ==
    /\ lease = Self /\ ~up
    /\ lease' = Nobody
    /\ UNCHANGED <<vars, crds, ready>>

\* A step of the controller or of its environment changes nothing here.
Within(Action) == Action /\ UNCHANGED <<crds, ready, lease>>

Work == Within((\E c \in Clusters : GetCluster(c)) \/ Step \/ Fail \/ DeliverConfigEvent)

\* Another process of the service changes a Cluster: this controller's watch.
Observe ==
    queue' = IF up THEN queue \cup {c \in Clusters : /\ cluster'[c] # cluster[c]
                                                     /\ UpdatePasses(cluster[c], cluster'[c])}
                   ELSE queue

\* Each process goes on, and Kubernetes starts it again.
RunFairness ==
    /\ WF_runVars(Run)
    /\ WF_runVars(Lead)
    /\ WF_runVars(LeaseExpires)
    /\ WF_runVars(Within(Step))
    /\ WF_runVars(Within(DeliverConfigEvent))
    /\ \A c \in Clusters : SF_runVars(Within(GetCluster(c)))

ProviderFairness ==
    \A c \in Clusters : /\ WF_runVars(Within(ReleaseGone(c)))
                        /\ WF_runVars(Within(SourceGone(c)))
                        /\ WF_runVars(Within(ProvideAccess(c)))

=============================================================================
