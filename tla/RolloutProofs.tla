--------------------------- MODULE RolloutProofs ---------------------------
(***************************************************************************)
(* Two processes that take turns implement the one controller: with leader  *)
(* election everything that is proved about ClusterReconciler carries over  *)
(* to a rolling update, process by process.                                 *)
(***************************************************************************)
EXTENDS Rollout, TLAPS

\* The theorems about the controller, for the process that works.
Core == INSTANCE ConvergenceProofs WITH
           up <- oneUp, known <- oneKnown, queue <- oneQueue, configEvent <- oneEvent,
           worker <- oneWorker

-----------------------------------------------------------------------------
(* The processes take turns. *)

\* A process that does not work remembers nothing.
EmptyA == knownA = {} /\ queueA = {} /\ eventA = FALSE /\ workerA = A!Idle
EmptyB == knownB = {} /\ queueB = {} /\ eventB = FALSE /\ workerB = B!Idle

\* Whoever works holds the lease, so at most one does; the other remembers
\* nothing.
Turns ==
    /\ upA \in BOOLEAN /\ upB \in BOOLEAN
    /\ upA => lease = "a"
    /\ upB => lease = "b"
    /\ ~upA => EmptyA
    /\ ~upB => EmptyB

\* A step of a pass, of the queue or of the watch needs a process that works, and
\* leaves it working.
LEMMA WorkingA == Turns /\ A!Work => upA /\ upA' = upA /\ UNCHANGED <<crds, readyA, lease>>
  <1> SUFFICES ASSUME Turns, A!Work
               PROVE  upA /\ upA' = upA /\ UNCHANGED <<crds, readyA, lease>>
      OBVIOUS
  <1>1. UNCHANGED <<crds, readyA, lease>>
      BY DEF A!Work, A!Within
  <1>2. CASE \E c \in Clusters : A!GetCluster(c)
      BY <1>1, <1>2 DEF A!GetCluster
  <1>3. CASE A!DeliverConfigEvent
      BY <1>1, <1>3 DEF A!DeliverConfigEvent
  <1>4. ASSUME workerA.pc # "idle" PROVE upA
      BY <1>4 DEF Turns, EmptyA, A!Idle
  <1>5. CASE A!Fail
      BY <1>1, <1>4, <1>5 DEF A!Fail
  <1>6. CASE A!HandleOperation \/ A!ReadConfig
      BY <1>1, <1>4, <1>6 DEF A!HandleOperation, A!ReadConfig, A!ProcessUnchanged
  <1>7. CASE A!HandleCreateOrUpdate
      BY <1>1, <1>4, <1>7
      DEF A!HandleCreateOrUpdate, A!AddFinalizer, A!AddKnownCluster, A!EnsureAccess, A!GetAccess,
          A!CopySecrets, A!RemoveSecrets, A!DeploySource, A!PruneSources, A!DeleteSources,
          A!EnsureTargetClusterNamespace, A!DeployHelmRelease, A!ProcessUnchanged
  <1>8. CASE A!HandleDelete
      BY <1>1, <1>4, <1>8
      DEF A!HandleDelete, A!UndeployHelmRelease, A!RefreshAccess, A!CheckAccess,
          A!RemoveSecrets, A!UndeployHelmChartSource, A!DeleteSources, A!DeleteAccess,
          A!RemoveFinalizer, A!RemoveKnownCluster, A!ProcessUnchanged
  <1> QED
      BY <1>2, <1>3, <1>5, <1>6, <1>7, <1>8 DEF A!Work, A!Within, A!Step

\* Users and providers start no process and end none, and a process that does
\* not work does not hear of them.
LEMMA OutsideA ==
    ASSUME Turns,
           \/ A!Users
           \/ \E c \in Clusters : A!Providers(c) \/ A!ClusterGone(c)
    PROVE  upA' = upA /\ (~upA => EmptyA')
  <1>1. CASE \E c \in Clusters : A!Providers(c)
      BY <1>1 DEF Turns, EmptyA, A!Idle, A!Providers, A!ReleaseGone, A!SourceGone, A!ProvideAccess
  <1>2. CASE \E c \in Clusters : A!ClusterGone(c)
      BY <1>2 DEF Turns, EmptyA, A!Idle, A!ClusterGone, A!Enqueue
  <1>3. CASE A!ChangeConfig
      BY <1>3 DEF Turns, EmptyA, A!Idle, A!ChangeConfig
  <1>4. CASE \E c \in Clusters : \/ A!CreateCluster(c) \/ A!ChangePurposes(c)
                                 \/ A!Annotate(c) \/ A!DeleteCluster(c)
      BY <1>4
      DEF Turns, EmptyA, A!Idle, A!CreateCluster, A!ChangePurposes, A!Annotate, A!DeleteCluster,
          A!EditCluster, A!UpdateCluster, A!Enqueue
  <1> QED
      BY <1>1, <1>2, <1>3, <1>4 DEF A!Users
\* A step of a pass, of the queue or of the watch needs a process that works, and
\* leaves it working.
LEMMA WorkingB == Turns /\ B!Work => upB /\ upB' = upB /\ UNCHANGED <<crds, readyB, lease>>
  <1> SUFFICES ASSUME Turns, B!Work
               PROVE  upB /\ upB' = upB /\ UNCHANGED <<crds, readyB, lease>>
      OBVIOUS
  <1>1. UNCHANGED <<crds, readyB, lease>>
      BY DEF B!Work, B!Within
  <1>2. CASE \E c \in Clusters : B!GetCluster(c)
      BY <1>1, <1>2 DEF B!GetCluster
  <1>3. CASE B!DeliverConfigEvent
      BY <1>1, <1>3 DEF B!DeliverConfigEvent
  <1>4. ASSUME workerB.pc # "idle" PROVE upB
      BY <1>4 DEF Turns, EmptyB, B!Idle
  <1>5. CASE B!Fail
      BY <1>1, <1>4, <1>5 DEF B!Fail
  <1>6. CASE B!HandleOperation \/ B!ReadConfig
      BY <1>1, <1>4, <1>6 DEF B!HandleOperation, B!ReadConfig, B!ProcessUnchanged
  <1>7. CASE B!HandleCreateOrUpdate
      BY <1>1, <1>4, <1>7
      DEF B!HandleCreateOrUpdate, B!AddFinalizer, B!AddKnownCluster, B!EnsureAccess, B!GetAccess,
          B!CopySecrets, B!RemoveSecrets, B!DeploySource, B!PruneSources, B!DeleteSources,
          B!EnsureTargetClusterNamespace, B!DeployHelmRelease, B!ProcessUnchanged
  <1>8. CASE B!HandleDelete
      BY <1>1, <1>4, <1>8
      DEF B!HandleDelete, B!UndeployHelmRelease, B!RefreshAccess, B!CheckAccess,
          B!RemoveSecrets, B!UndeployHelmChartSource, B!DeleteSources, B!DeleteAccess,
          B!RemoveFinalizer, B!RemoveKnownCluster, B!ProcessUnchanged
  <1> QED
      BY <1>2, <1>3, <1>5, <1>6, <1>7, <1>8 DEF B!Work, B!Within, B!Step

\* Users and providers start no process and end none, and a process that does
\* not work does not hear of them.
LEMMA OutsideB ==
    ASSUME Turns,
           \/ B!Users
           \/ \E c \in Clusters : B!Providers(c) \/ B!ClusterGone(c)
    PROVE  upB' = upB /\ (~upB => EmptyB')
  <1>1. CASE \E c \in Clusters : B!Providers(c)
      BY <1>1 DEF Turns, EmptyB, B!Idle, B!Providers, B!ReleaseGone, B!SourceGone, B!ProvideAccess
  <1>2. CASE \E c \in Clusters : B!ClusterGone(c)
      BY <1>2 DEF Turns, EmptyB, B!Idle, B!ClusterGone, B!Enqueue
  <1>3. CASE B!ChangeConfig
      BY <1>3 DEF Turns, EmptyB, B!Idle, B!ChangeConfig
  <1>4. CASE \E c \in Clusters : \/ B!CreateCluster(c) \/ B!ChangePurposes(c)
                                 \/ B!Annotate(c) \/ B!DeleteCluster(c)
      BY <1>4
      DEF Turns, EmptyB, B!Idle, B!CreateCluster, B!ChangePurposes, B!Annotate, B!DeleteCluster,
          B!EditCluster, B!UpdateCluster, B!Enqueue
  <1> QED
      BY <1>1, <1>2, <1>3, <1>4 DEF B!Users
\* Initially nobody works.
LEMMA TurnsInit == Init => Turns
  BY DEF Init, A!Init, B!Init, Turns, EmptyA, EmptyB

\* Only a process that finds the lease free begins to work, and the lease of a
\* process that works does not run out.
LEMMA TurnsStep == LeaderElection /\ Turns /\ [Next]_vars => Turns'
  <1> SUFFICES ASSUME LeaderElection, Turns, [Next]_vars PROVE Turns'
      OBVIOUS
  <1> USE DEF Turns, EmptyA, EmptyB
  <1>0. Nobody \notin {"a", "b"}
      BY LeaderElectionAssumption
  <1>1. CASE UNCHANGED vars
      BY <1>1 DEF vars, processA, processB, shared, A!Idle, B!Idle
  <1>2. CASE Manager
    <2>1. CASE (A!Run \/ A!LeaseExpires) /\ UNCHANGED processB
        BY <2>1 DEF A!Run, A!LeaseExpires, A!vars, processB, A!Idle, B!Idle
    <2>2. CASE A!Lead /\ UNCHANGED processB
        BY <1>0, <2>2 DEF A!Lead, A!Start, processB, B!Idle
    <2>3. CASE A!Exit /\ UNCHANGED processB
        BY <2>3 DEF A!Exit, A!Crash, processB, A!Idle, B!Idle
    <2>4. CASE (B!Run \/ B!LeaseExpires) /\ UNCHANGED processA
        BY <2>4 DEF B!Run, B!LeaseExpires, B!vars, processA, A!Idle, B!Idle
    <2>5. CASE B!Lead /\ UNCHANGED processA
        BY <1>0, <2>5 DEF B!Lead, B!Start, processA, A!Idle
    <2>6. CASE B!Exit /\ UNCHANGED processA
        BY <2>6 DEF B!Exit, B!Crash, processA, A!Idle, B!Idle
    <2> QED
        BY <1>2, <2>1, <2>2, <2>3, <2>4, <2>5, <2>6 DEF Manager
  <1>3. CASE InitCommand
      BY <1>3 DEF InitCommand, A!InitCommand, A!vars, processB, A!Idle, B!Idle
  <1>4. CASE Work
    <2>1. CASE A!Work /\ B!Observe /\ UNCHANGED <<readyB, upB, knownB, eventB, workerB>>
        BY <2>1, WorkingA DEF B!Observe, B!Idle
    <2>2. CASE B!Work /\ A!Observe /\ UNCHANGED <<readyA, upA, knownA, eventA, workerA>>
        BY <2>2, WorkingB DEF A!Observe, A!Idle
    <2> QED
        BY <1>4, <2>1, <2>2 DEF Work
  <1>5. CASE Environment
    <2>1. upA' = upA /\ (~upA => EmptyA')
        BY <1>5, OutsideA DEF Environment
    <2>2. upB' = upB /\ (~upB => EmptyB')
        BY <1>5, OutsideB DEF Environment
    <2> QED
        BY <1>5, <2>1, <2>2 DEF Environment
  <1> QED
      BY <1>1, <1>2, <1>3, <1>4, <1>5 DEF Next

-----------------------------------------------------------------------------
(* The steps of the process that works are those of the one controller. *)

SameAsA ==
    /\ oneUp = upA /\ oneKnown = knownA /\ oneQueue = queueA
    /\ oneEvent = eventA /\ oneWorker = workerA

SameAsB ==
    /\ oneUp = upB /\ oneKnown = knownB /\ oneQueue = queueB
    /\ oneEvent = eventB /\ oneWorker = workerB

\* When A works, what it does is what the one controller does: the two differ
\* in the names of the variables only.
LEMMA LikeA == SameAsA /\ SameAsA' /\ A!Next => One!Next
  <1> SUFFICES ASSUME SameAsA, SameAsA', A!Next PROVE One!Next
      OBVIOUS
  <1>0. /\ oneUp = upA /\ oneKnown = knownA /\ oneQueue = queueA
        /\ oneEvent = eventA /\ oneWorker = workerA
        /\ oneUp' = upA' /\ oneKnown' = knownA' /\ oneQueue' = queueA'
        /\ oneEvent' = eventA' /\ oneWorker' = workerA'
      BY DEF SameAsA
  <1>1. A!HandleOperation => One!HandleOperation
      BY <1>0
      DEF A!HandleOperation, One!HandleOperation, A!EffectiveOperation, One!EffectiveOperation,
          A!Done, One!Done, A!Idle, One!Idle, A!RemoveOperationAnnotation,
          One!RemoveOperationAnnotation, A!Goto, One!Goto, A!Exists, One!Exists, A!UpdateCluster,
          One!UpdateCluster, A!Enqueue, One!Enqueue, A!UpdatePasses, One!UpdatePasses,
          A!AnnotationTrigger, One!AnnotationTrigger, A!AnnotationKeys, One!AnnotationKeys,
          A!Ignored, One!Ignored, A!Requeue, One!Requeue, A!ProcessUnchanged, One!ProcessUnchanged
  <1>2. A!ReadConfig => One!ReadConfig
      BY <1>0
      DEF A!ReadConfig, One!ReadConfig, A!Requeue, One!Requeue, A!Idle, One!Idle, A!Selected,
          One!Selected, A!Done, One!Done
  <1>3. A!HandleCreateOrUpdate => One!HandleCreateOrUpdate
      BY <1>0
      DEF A!HandleCreateOrUpdate, One!HandleCreateOrUpdate, A!AddFinalizer, One!AddFinalizer,
          A!Goto, One!Goto, A!AcceptsFinalizer, One!AcceptsFinalizer, A!Exists, One!Exists,
          A!Requeue, One!Requeue, A!Idle, One!Idle, A!ProcessUnchanged, One!ProcessUnchanged,
          A!AddKnownCluster, One!AddKnownCluster, A!EnsureAccess, One!EnsureAccess,
          A!ReconcileAccess, One!ReconcileAccess, A!AccessOutcomes, One!AccessOutcomes,
          A!GetAccess, One!GetAccess, A!CopySecrets, One!CopySecrets, A!ToCopy, One!ToCopy,
          A!RemoveSecrets, One!RemoveSecrets, A!ToRemove, One!ToRemove, A!DeploySource,
          One!DeploySource, A!PruneSources, One!PruneSources, A!DeleteSources, One!DeleteSources,
          A!EnsureTargetClusterNamespace, One!EnsureTargetClusterNamespace, A!DeployHelmRelease,
          One!DeployHelmRelease, A!Done, One!Done
  <1>4. A!HandleDelete => One!HandleDelete
      BY <1>0
      DEF A!HandleDelete, One!HandleDelete, A!UndeployHelmRelease, One!UndeployHelmRelease,
          A!Goto, One!Goto, A!Requeue, One!Requeue, A!Idle, One!Idle, A!ProcessUnchanged,
          One!ProcessUnchanged, A!RefreshAccess, One!RefreshAccess, A!ReconcileAccess,
          One!ReconcileAccess, A!AccessOutcomes, One!AccessOutcomes, A!CheckAccess,
          One!CheckAccess, A!AccessUsable, One!AccessUsable, A!RemoveSecrets, One!RemoveSecrets,
          A!ToRemove, One!ToRemove, A!UndeployHelmChartSource, One!UndeployHelmChartSource,
          A!DeleteSources, One!DeleteSources, A!DeleteAccess, One!DeleteAccess, A!DeleteOutcomes,
          One!DeleteOutcomes, A!RemoveFinalizer, One!RemoveFinalizer, A!Exists, One!Exists,
          A!RemoveKnownCluster, One!RemoveKnownCluster, A!Done, One!Done
  <1>5. A!Fail => One!Fail
      BY <1>0
      DEF A!Fail, One!Fail, A!Requeue, One!Requeue, A!Idle, One!Idle
  <1>6. A!DeliverConfigEvent => One!DeliverConfigEvent
      BY <1>0
      DEF A!DeliverConfigEvent, One!DeliverConfigEvent, A!ListKnownClusters, One!ListKnownClusters
  <1>7. A!Start => One!Start
      BY <1>0
      DEF A!Start, One!Start, A!Listed, One!Listed, A!Exists, One!Exists, A!Ignored, One!Ignored
  <1>8. A!Crash => One!Crash
      BY <1>0
      DEF A!Crash, One!Crash, A!Idle, One!Idle
  <1>9. ASSUME NEW c \in Clusters, A!GetCluster(c) PROVE One!GetCluster(c)
      BY <1>0, <1>9
      DEF A!GetCluster, One!GetCluster, A!Exists, One!Exists, A!Idle, One!Idle
  <1>10. ASSUME NEW c \in Clusters, A!Providers(c) PROVE One!Providers(c)
      BY <1>0, <1>10
      DEF A!Providers, One!Providers, A!ReleaseGone, One!ReleaseGone, A!NoRelease, One!NoRelease,
          A!SourceGone, One!SourceGone, A!ProvideAccess, One!ProvideAccess
  <1>11. ASSUME NEW c \in Clusters, A!ClusterGone(c) PROVE One!ClusterGone(c)
      BY <1>0, <1>11
      DEF A!ClusterGone, One!ClusterGone, A!Exists, One!Exists, A!Enqueue, One!Enqueue, A!Ignored,
          One!Ignored
  <1>12. ASSUME NEW c \in Clusters, A!CreateCluster(c) PROVE One!CreateCluster(c)
      BY <1>0, <1>12
      DEF A!CreateCluster, One!CreateCluster, A!UserChange, One!UserChange, A!Exists, One!Exists,
          A!NewCluster, One!NewCluster, A!Enqueue, One!Enqueue, A!PlatformUnchanged,
          One!PlatformUnchanged
  <1>13. ASSUME NEW c \in Clusters, A!ChangePurposes(c) PROVE One!ChangePurposes(c)
      BY <1>0, <1>13
      DEF A!ChangePurposes, One!ChangePurposes, A!Exists, One!Exists, A!EditCluster,
          One!EditCluster, A!UserChange, One!UserChange, A!UpdateCluster, One!UpdateCluster,
          A!Enqueue, One!Enqueue, A!UpdatePasses, One!UpdatePasses, A!AnnotationTrigger,
          One!AnnotationTrigger, A!AnnotationKeys, One!AnnotationKeys, A!Ignored, One!Ignored,
          A!PlatformUnchanged, One!PlatformUnchanged
  <1>14. ASSUME NEW c \in Clusters, A!Annotate(c) PROVE One!Annotate(c)
      BY <1>0, <1>14
      DEF A!Annotate, One!Annotate, A!Exists, One!Exists, A!EditCluster, One!EditCluster,
          A!UserChange, One!UserChange, A!UpdateCluster, One!UpdateCluster, A!Enqueue,
          One!Enqueue, A!UpdatePasses, One!UpdatePasses, A!AnnotationTrigger,
          One!AnnotationTrigger, A!AnnotationKeys, One!AnnotationKeys, A!Ignored, One!Ignored,
          A!PlatformUnchanged, One!PlatformUnchanged
  <1>15. ASSUME NEW c \in Clusters, A!DeleteCluster(c) PROVE One!DeleteCluster(c)
      BY <1>0, <1>15
      DEF A!DeleteCluster, One!DeleteCluster, A!Exists, One!Exists, A!EditCluster,
          One!EditCluster, A!UserChange, One!UserChange, A!UpdateCluster, One!UpdateCluster,
          A!Enqueue, One!Enqueue, A!UpdatePasses, One!UpdatePasses, A!AnnotationTrigger,
          One!AnnotationTrigger, A!AnnotationKeys, One!AnnotationKeys, A!Ignored, One!Ignored,
          A!PlatformUnchanged, One!PlatformUnchanged
  <1>16. A!ChangeConfig => One!ChangeConfig
      BY <1>0
      DEF A!ChangeConfig, One!ChangeConfig, A!UserChange, One!UserChange, A!PlatformUnchanged,
          One!PlatformUnchanged
  <1> QED
      BY <1>1, <1>2, <1>3, <1>4, <1>5, <1>6, <1>7, <1>8, <1>9,
         <1>10, <1>11, <1>12, <1>13, <1>14, <1>15, <1>16
      DEF A!Next, One!Next, A!Step, One!Step, A!Users, One!Users

\* When B works, what it does is what the one controller does: the two differ
\* in the names of the variables only.
LEMMA LikeB == SameAsB /\ SameAsB' /\ B!Next => One!Next
  <1> SUFFICES ASSUME SameAsB, SameAsB', B!Next PROVE One!Next
      OBVIOUS
  <1>0. /\ oneUp = upB /\ oneKnown = knownB /\ oneQueue = queueB
        /\ oneEvent = eventB /\ oneWorker = workerB
        /\ oneUp' = upB' /\ oneKnown' = knownB' /\ oneQueue' = queueB'
        /\ oneEvent' = eventB' /\ oneWorker' = workerB'
      BY DEF SameAsB
  <1>1. B!HandleOperation => One!HandleOperation
      BY <1>0
      DEF B!HandleOperation, One!HandleOperation, B!EffectiveOperation, One!EffectiveOperation,
          B!Done, One!Done, B!Idle, One!Idle, B!RemoveOperationAnnotation,
          One!RemoveOperationAnnotation, B!Goto, One!Goto, B!Exists, One!Exists, B!UpdateCluster,
          One!UpdateCluster, B!Enqueue, One!Enqueue, B!UpdatePasses, One!UpdatePasses,
          B!AnnotationTrigger, One!AnnotationTrigger, B!AnnotationKeys, One!AnnotationKeys,
          B!Ignored, One!Ignored, B!Requeue, One!Requeue, B!ProcessUnchanged, One!ProcessUnchanged
  <1>2. B!ReadConfig => One!ReadConfig
      BY <1>0
      DEF B!ReadConfig, One!ReadConfig, B!Requeue, One!Requeue, B!Idle, One!Idle, B!Selected,
          One!Selected, B!Done, One!Done
  <1>3. B!HandleCreateOrUpdate => One!HandleCreateOrUpdate
      BY <1>0
      DEF B!HandleCreateOrUpdate, One!HandleCreateOrUpdate, B!AddFinalizer, One!AddFinalizer,
          B!Goto, One!Goto, B!AcceptsFinalizer, One!AcceptsFinalizer, B!Exists, One!Exists,
          B!Requeue, One!Requeue, B!Idle, One!Idle, B!ProcessUnchanged, One!ProcessUnchanged,
          B!AddKnownCluster, One!AddKnownCluster, B!EnsureAccess, One!EnsureAccess,
          B!ReconcileAccess, One!ReconcileAccess, B!AccessOutcomes, One!AccessOutcomes,
          B!GetAccess, One!GetAccess, B!CopySecrets, One!CopySecrets, B!ToCopy, One!ToCopy,
          B!RemoveSecrets, One!RemoveSecrets, B!ToRemove, One!ToRemove, B!DeploySource,
          One!DeploySource, B!PruneSources, One!PruneSources, B!DeleteSources, One!DeleteSources,
          B!EnsureTargetClusterNamespace, One!EnsureTargetClusterNamespace, B!DeployHelmRelease,
          One!DeployHelmRelease, B!Done, One!Done
  <1>4. B!HandleDelete => One!HandleDelete
      BY <1>0
      DEF B!HandleDelete, One!HandleDelete, B!UndeployHelmRelease, One!UndeployHelmRelease,
          B!Goto, One!Goto, B!Requeue, One!Requeue, B!Idle, One!Idle, B!ProcessUnchanged,
          One!ProcessUnchanged, B!RefreshAccess, One!RefreshAccess, B!ReconcileAccess,
          One!ReconcileAccess, B!AccessOutcomes, One!AccessOutcomes, B!CheckAccess,
          One!CheckAccess, B!AccessUsable, One!AccessUsable, B!RemoveSecrets, One!RemoveSecrets,
          B!ToRemove, One!ToRemove, B!UndeployHelmChartSource, One!UndeployHelmChartSource,
          B!DeleteSources, One!DeleteSources, B!DeleteAccess, One!DeleteAccess, B!DeleteOutcomes,
          One!DeleteOutcomes, B!RemoveFinalizer, One!RemoveFinalizer, B!Exists, One!Exists,
          B!RemoveKnownCluster, One!RemoveKnownCluster, B!Done, One!Done
  <1>5. B!Fail => One!Fail
      BY <1>0
      DEF B!Fail, One!Fail, B!Requeue, One!Requeue, B!Idle, One!Idle
  <1>6. B!DeliverConfigEvent => One!DeliverConfigEvent
      BY <1>0
      DEF B!DeliverConfigEvent, One!DeliverConfigEvent, B!ListKnownClusters, One!ListKnownClusters
  <1>7. B!Start => One!Start
      BY <1>0
      DEF B!Start, One!Start, B!Listed, One!Listed, B!Exists, One!Exists, B!Ignored, One!Ignored
  <1>8. B!Crash => One!Crash
      BY <1>0
      DEF B!Crash, One!Crash, B!Idle, One!Idle
  <1>9. ASSUME NEW c \in Clusters, B!GetCluster(c) PROVE One!GetCluster(c)
      BY <1>0, <1>9
      DEF B!GetCluster, One!GetCluster, B!Exists, One!Exists, B!Idle, One!Idle
  <1>10. ASSUME NEW c \in Clusters, B!Providers(c) PROVE One!Providers(c)
      BY <1>0, <1>10
      DEF B!Providers, One!Providers, B!ReleaseGone, One!ReleaseGone, B!NoRelease, One!NoRelease,
          B!SourceGone, One!SourceGone, B!ProvideAccess, One!ProvideAccess
  <1>11. ASSUME NEW c \in Clusters, B!ClusterGone(c) PROVE One!ClusterGone(c)
      BY <1>0, <1>11
      DEF B!ClusterGone, One!ClusterGone, B!Exists, One!Exists, B!Enqueue, One!Enqueue, B!Ignored,
          One!Ignored
  <1>12. ASSUME NEW c \in Clusters, B!CreateCluster(c) PROVE One!CreateCluster(c)
      BY <1>0, <1>12
      DEF B!CreateCluster, One!CreateCluster, B!UserChange, One!UserChange, B!Exists, One!Exists,
          B!NewCluster, One!NewCluster, B!Enqueue, One!Enqueue, B!PlatformUnchanged,
          One!PlatformUnchanged
  <1>13. ASSUME NEW c \in Clusters, B!ChangePurposes(c) PROVE One!ChangePurposes(c)
      BY <1>0, <1>13
      DEF B!ChangePurposes, One!ChangePurposes, B!Exists, One!Exists, B!EditCluster,
          One!EditCluster, B!UserChange, One!UserChange, B!UpdateCluster, One!UpdateCluster,
          B!Enqueue, One!Enqueue, B!UpdatePasses, One!UpdatePasses, B!AnnotationTrigger,
          One!AnnotationTrigger, B!AnnotationKeys, One!AnnotationKeys, B!Ignored, One!Ignored,
          B!PlatformUnchanged, One!PlatformUnchanged
  <1>14. ASSUME NEW c \in Clusters, B!Annotate(c) PROVE One!Annotate(c)
      BY <1>0, <1>14
      DEF B!Annotate, One!Annotate, B!Exists, One!Exists, B!EditCluster, One!EditCluster,
          B!UserChange, One!UserChange, B!UpdateCluster, One!UpdateCluster, B!Enqueue,
          One!Enqueue, B!UpdatePasses, One!UpdatePasses, B!AnnotationTrigger,
          One!AnnotationTrigger, B!AnnotationKeys, One!AnnotationKeys, B!Ignored, One!Ignored,
          B!PlatformUnchanged, One!PlatformUnchanged
  <1>15. ASSUME NEW c \in Clusters, B!DeleteCluster(c) PROVE One!DeleteCluster(c)
      BY <1>0, <1>15
      DEF B!DeleteCluster, One!DeleteCluster, B!Exists, One!Exists, B!EditCluster,
          One!EditCluster, B!UserChange, One!UserChange, B!UpdateCluster, One!UpdateCluster,
          B!Enqueue, One!Enqueue, B!UpdatePasses, One!UpdatePasses, B!AnnotationTrigger,
          One!AnnotationTrigger, B!AnnotationKeys, One!AnnotationKeys, B!Ignored, One!Ignored,
          B!PlatformUnchanged, One!PlatformUnchanged
  <1>16. B!ChangeConfig => One!ChangeConfig
      BY <1>0
      DEF B!ChangeConfig, One!ChangeConfig, B!UserChange, One!UserChange, B!PlatformUnchanged,
          One!PlatformUnchanged
  <1> QED
      BY <1>1, <1>2, <1>3, <1>4, <1>5, <1>6, <1>7, <1>8, <1>9,
         <1>10, <1>11, <1>12, <1>13, <1>14, <1>15, <1>16
      DEF B!Next, One!Next, B!Step, One!Step, B!Users, One!Users

\* Whoever does not work leaves the place to the other; when nobody works, the
\* memory of the one controller is that of both.
LEMMA SameAs ==
    ASSUME Turns
    PROVE  /\ upA => ~upB /\ SameAsA
           /\ ~upA => SameAsB
           /\ ~upA /\ ~upB => SameAsA
  BY DEF Turns, EmptyA, EmptyB, SameAsA, SameAsB, oneUp, oneKnown, oneQueue, oneEvent, oneWorker,
         A!Idle, B!Idle

\* What is not done by the process that works is not seen by the one controller.
LEMMA OneStep ==
    LeaderElection /\ Turns /\ Turns' /\ [Next]_vars => [One!Next]_One!vars
  <1> SUFFICES ASSUME LeaderElection, Turns, Turns', [Next]_vars PROVE [One!Next]_One!vars
      OBVIOUS
  <1>0. Nobody \notin {"a", "b"}
      BY LeaderElectionAssumption
  <1>1. /\ upA => ~upB /\ SameAsA
        /\ ~upA => SameAsB
        /\ ~upA /\ ~upB => SameAsA
      BY SameAs
  <1>2. /\ upA' => SameAsA'
        /\ ~upA' => SameAsB'
        /\ ~upA' /\ ~upB' => SameAsA'
      BY DEF Turns, EmptyA, EmptyB, SameAsA, SameAsB, oneUp, oneKnown, oneQueue, oneEvent,
             oneWorker, A!Idle, B!Idle
  <1>3. UNCHANGED <<upA, knownA, queueA, eventA, workerA, upB, knownB, queueB, eventB, workerB>>
        => UNCHANGED <<oneUp, oneKnown, oneQueue, oneEvent, oneWorker>>
      BY DEF oneUp, oneKnown, oneQueue, oneEvent, oneWorker
  <1>4. ASSUME UNCHANGED <<cluster, config, release, source, access, copies, namespace, left>>,
               UNCHANGED <<upA, knownA, queueA, eventA, workerA>>,
               UNCHANGED <<upB, knownB, queueB, eventB, workerB>>
        PROVE  UNCHANGED One!vars
      BY <1>3, <1>4 DEF One!vars
  <1>5. CASE UNCHANGED vars
      BY <1>4, <1>5 DEF vars, shared, processA, processB
  <1>6. CASE Manager
    <2>1. CASE (A!Run \/ A!LeaseExpires) /\ UNCHANGED processB
        BY <1>4, <2>1 DEF A!Run, A!LeaseExpires, A!vars, processB
    <2>2. CASE A!Lead /\ UNCHANGED processB
      <3>1. ~upA /\ ~upB /\ upA' /\ A!Start
          BY <1>0, <2>2 DEF Turns, A!Lead, A!Start
      <3> QED
          BY <1>1, <1>2, <3>1, LikeA DEF A!Next
    <2>3. CASE A!Exit /\ UNCHANGED processB
      <3>1. upA /\ ~upB /\ ~upA' /\ ~upB' /\ A!Crash
          BY <1>1, <2>3 DEF A!Exit, A!Crash, processB
      <3> QED
          BY <1>1, <1>2, <3>1, LikeA DEF A!Next
    <2>4. CASE (B!Run \/ B!LeaseExpires) /\ UNCHANGED processA
        BY <1>4, <2>4 DEF B!Run, B!LeaseExpires, B!vars, processA
    <2>5. CASE B!Lead /\ UNCHANGED processA
      <3>1. ~upA /\ ~upA' /\ B!Start
          BY <1>0, <2>5 DEF Turns, B!Lead, B!Start, processA
      <3> QED
          BY <1>1, <1>2, <3>1, LikeB DEF B!Next
    <2>6. CASE B!Exit /\ UNCHANGED processA
      <3>1. ~upA /\ ~upA' /\ B!Crash
          BY <1>1, <2>6 DEF B!Exit, B!Crash, processA
      <3> QED
          BY <1>1, <1>2, <3>1, LikeB DEF B!Next
    <2> QED
        BY <1>6, <2>1, <2>2, <2>3, <2>4, <2>5, <2>6 DEF Manager
  <1>7. CASE InitCommand
      BY <1>4, <1>7 DEF InitCommand, A!InitCommand, A!vars, processB
  <1>8. CASE Work
    <2>1. CASE A!Work
      <3>1. upA /\ upA' /\ A!Next
          BY <2>1, WorkingA DEF A!Work, A!Within, A!Next
      <3> QED
          BY <1>1, <1>2, <3>1, LikeA
    <2>2. CASE B!Work /\ UNCHANGED upA
      <3>1. ~upA /\ ~upA' /\ B!Next
          BY <1>1, <2>2, WorkingB DEF B!Work, B!Within, B!Next
      <3> QED
          BY <1>1, <1>2, <3>1, LikeB
    <2> QED
        BY <1>8, <2>1, <2>2 DEF Work
  <1>9. CASE Environment
    <2>1. upA' = upA
        BY <1>9, OutsideA DEF Environment
    <2>2. A!Next /\ B!Next
        BY <1>9 DEF Environment, A!Next, B!Next
    <2> QED
        BY <1>1, <1>2, <2>1, <2>2, LikeA, LikeB
  <1> QED
      BY <1>5, <1>6, <1>7, <1>8, <1>9 DEF Next

\* Initially nobody works, and neither does the one controller.
LEMMA OneInit == Init => One!Init
  BY DEF Init, A!Init, B!Init, One!Init, oneUp, oneKnown, oneQueue, oneEvent, oneWorker,
         A!Idle, B!Idle, One!Idle, A!NewCluster, One!NewCluster, A!NoRelease, One!NoRelease,
         A!Sites, One!Sites

\* Turns is an invariant.
THEOREM TurnsInvariant == LeaderElection => (Spec => []Turns)
  <1> SUFFICES ASSUME LeaderElection PROVE Spec => []Turns
      OBVIOUS
  <1>1. Turns /\ [Next]_vars => Turns'
      BY TurnsStep
  <1> QED
      BY <1>1, TurnsInit, PTL DEF Spec

\* With leader election, two processes in a rolling update implement the one
\* controller, whatever ends when and however long a lease survives its holder.
THEOREM TakesTurnsTheorem == LeaderElection => (Spec => TakesTurns)
  <1> SUFFICES ASSUME LeaderElection PROVE Spec => TakesTurns
      OBVIOUS
  <1>1. Turns /\ Turns' /\ [Next]_vars => [One!Next]_One!vars
      BY OneStep
  <1> QED
      BY <1>1, OneInit, TurnsInvariant, PTL DEF Spec, TakesTurns, One!Spec

-----------------------------------------------------------------------------
(* What is proved about the controller holds in a rolling update. *)

\* The constants are those of the controller.
LEMMA CoreAssumptions ==
    Core!ConstantsAssumption /\ Core!BoundsAssumption /\ Core!SentinelsAssumption
  BY ControllerAssumption
  DEF A!ConstantsAssumption, A!BoundsAssumption, A!SentinelsAssumption,
      A!Sites, A!AnnotationKeys, A!Operations, A!ClusterObject,
      Core!ConstantsAssumption, Core!BoundsAssumption, Core!SentinelsAssumption,
      Core!Sites, Core!AnnotationKeys, Core!Operations, Core!ClusterObject

\* The controller of the theorems is the one that the two processes implement.
LEMMA CoreSpec == One!Spec => Core!Spec
  <1>1. One!Init => Core!Init
      BY
      DEF One!Init, Core!Init, One!NewCluster, Core!NewCluster, One!NoRelease, Core!NoRelease,
          One!Sites, Core!Sites, One!Idle, Core!Idle
  <1>2. One!Next => Core!Next
      BY
      DEF One!Next, Core!Next, One!GetCluster, Core!GetCluster, One!Exists, Core!Exists, One!Idle,
          Core!Idle, One!Step, Core!Step, One!HandleOperation, Core!HandleOperation,
          One!EffectiveOperation, Core!EffectiveOperation, One!Done, Core!Done,
          One!RemoveOperationAnnotation, Core!RemoveOperationAnnotation, One!Goto, Core!Goto,
          One!UpdateCluster, Core!UpdateCluster, One!Enqueue, Core!Enqueue, One!UpdatePasses,
          Core!UpdatePasses, One!AnnotationTrigger, Core!AnnotationTrigger, One!AnnotationKeys,
          Core!AnnotationKeys, One!Ignored, Core!Ignored, One!Requeue, Core!Requeue,
          One!ProcessUnchanged, Core!ProcessUnchanged, One!ReadConfig, Core!ReadConfig,
          One!Selected, Core!Selected, One!HandleCreateOrUpdate, Core!HandleCreateOrUpdate,
          One!AddFinalizer, Core!AddFinalizer, One!AcceptsFinalizer, Core!AcceptsFinalizer,
          One!AddKnownCluster, Core!AddKnownCluster, One!EnsureAccess, Core!EnsureAccess,
          One!ReconcileAccess, Core!ReconcileAccess, One!AccessOutcomes, Core!AccessOutcomes,
          One!GetAccess, Core!GetAccess, One!CopySecrets, Core!CopySecrets, One!ToCopy,
          Core!ToCopy, One!RemoveSecrets, Core!RemoveSecrets, One!ToRemove, Core!ToRemove,
          One!DeploySource, Core!DeploySource, One!PruneSources, Core!PruneSources,
          One!DeleteSources, Core!DeleteSources, One!EnsureTargetClusterNamespace,
          Core!EnsureTargetClusterNamespace, One!DeployHelmRelease, Core!DeployHelmRelease,
          One!HandleDelete, Core!HandleDelete, One!UndeployHelmRelease, Core!UndeployHelmRelease,
          One!RefreshAccess, Core!RefreshAccess, One!CheckAccess, Core!CheckAccess,
          One!AccessUsable, Core!AccessUsable, One!UndeployHelmChartSource,
          Core!UndeployHelmChartSource, One!DeleteAccess, Core!DeleteAccess, One!DeleteOutcomes,
          Core!DeleteOutcomes, One!RemoveFinalizer, Core!RemoveFinalizer, One!RemoveKnownCluster,
          Core!RemoveKnownCluster, One!Fail, Core!Fail, One!DeliverConfigEvent,
          Core!DeliverConfigEvent, One!ListKnownClusters, Core!ListKnownClusters, One!Start,
          Core!Start, One!Listed, Core!Listed, One!Crash, Core!Crash, One!Users, Core!Users,
          One!CreateCluster, Core!CreateCluster, One!UserChange, Core!UserChange, One!NewCluster,
          Core!NewCluster, One!PlatformUnchanged, Core!PlatformUnchanged, One!ChangePurposes,
          Core!ChangePurposes, One!EditCluster, Core!EditCluster, One!Annotate, Core!Annotate,
          One!DeleteCluster, Core!DeleteCluster, One!ChangeConfig, Core!ChangeConfig,
          One!Providers, Core!Providers, One!ReleaseGone, Core!ReleaseGone, One!NoRelease,
          Core!NoRelease, One!SourceGone, Core!SourceGone, One!ProvideAccess, Core!ProvideAccess,
          One!ClusterGone, Core!ClusterGone
  <1>3. One!vars = Core!vars
      BY DEF One!vars, Core!vars
  <1>4. [One!Next]_One!vars => [Core!Next]_Core!vars
      BY <1>2, <1>3 DEF One!vars, Core!vars
  <1> QED
      BY <1>1, <1>4, PTL DEF One!Spec, Core!Spec

\* So is every behaviour of the two processes.
LEMMA RolloutRefines == LeaderElection => (Spec => Core!Spec /\ []Turns)
  <1> SUFFICES ASSUME LeaderElection PROVE Spec => Core!Spec /\ []Turns
      OBVIOUS
  <1>1. (Spec => One!Spec) /\ (Spec => []Turns)
      BY TakesTurnsTheorem, TurnsInvariant, PTL DEF TakesTurns
  <1> QED
      BY <1>1, CoreSpec, PTL

\* The guards of the one controller are those of the process that works, and a
\* process that does not work relies on nothing.
LEMMA GuardsA ==
    ASSUME Core!PassGuard, Core!AccessGuard, Core!CopyGuard, SameAsA \/ workerA = A!Idle
    PROVE  A!PassGuard /\ A!AccessGuard /\ A!CopyGuard
  <1>1. CASE workerA = A!Idle
      BY <1>1 DEF A!PassGuard, A!AccessGuard, A!CopyGuard, A!Idle, A!DeploySteps, A!CleanupSteps,
                  A!PC, A!Sites
  <1>2. CASE SameAsA
    <2> USE <1>2 DEF SameAsA
    <2>1. A!PassGuard
        BY DEF A!PassGuard, A!DeploySteps, A!CleanupSteps, A!PC, A!HasFinalizer, A!Exists,
               A!Ignored, Core!PassGuard, Core!DeploySteps, Core!CleanupSteps, Core!PC,
               Core!HasFinalizer, Core!Exists, Core!Ignored
    <2>2. A!AccessGuard
        BY DEF A!AccessGuard, A!DeploySteps, Core!AccessGuard, Core!DeploySteps
    <2>3. A!CopyGuard
        BY DEF A!CopyGuard, A!Sites, Core!CopyGuard, Core!Sites
    <2> QED
        BY <2>1, <2>2, <2>3
  <1> QED
      BY <1>1, <1>2
\* The guards of the one controller are those of the process that works, and a
\* process that does not work relies on nothing.
LEMMA GuardsB ==
    ASSUME Core!PassGuard, Core!AccessGuard, Core!CopyGuard, SameAsB \/ workerB = B!Idle
    PROVE  B!PassGuard /\ B!AccessGuard /\ B!CopyGuard
  <1>1. CASE workerB = B!Idle
      BY <1>1 DEF B!PassGuard, B!AccessGuard, B!CopyGuard, B!Idle, B!DeploySteps, B!CleanupSteps,
                  B!PC, B!Sites
  <1>2. CASE SameAsB
    <2> USE <1>2 DEF SameAsB
    <2>1. B!PassGuard
        BY DEF B!PassGuard, B!DeploySteps, B!CleanupSteps, B!PC, B!HasFinalizer, B!Exists,
               B!Ignored, Core!PassGuard, Core!DeploySteps, Core!CleanupSteps, Core!PC,
               Core!HasFinalizer, Core!Exists, Core!Ignored
    <2>2. B!AccessGuard
        BY DEF B!AccessGuard, B!DeploySteps, Core!AccessGuard, Core!DeploySteps
    <2>3. B!CopyGuard
        BY DEF B!CopyGuard, B!Sites, Core!CopyGuard, Core!Sites
    <2> QED
        BY <2>1, <2>2, <2>3
  <1> QED
      BY <1>1, <1>2
\* Leader election suffices for the passes of two processes not to interfere.
THEOREM NoInterferenceInvariant ==
    LeaderElection /\ ~TerminatingReady => (Spec => []NoInterference)
  <1> SUFFICES ASSUME LeaderElection, ~TerminatingReady PROVE Spec => []NoInterference
      OBVIOUS
  <1>1. Turns /\ Core!PassGuard /\ Core!AccessGuard /\ Core!CopyGuard => NoInterference
    <2> SUFFICES ASSUME Turns, Core!PassGuard, Core!AccessGuard, Core!CopyGuard
                 PROVE  NoInterference
        OBVIOUS
    <2>1. (SameAsA \/ workerA = A!Idle) /\ (SameAsB \/ workerB = B!Idle)
        BY SameAs DEF Turns, EmptyA, EmptyB
    <2> QED
        BY <2>1, GuardsA, GuardsB DEF NoInterference
  <1>2. Core!Spec => []Core!PassGuard
      BY CoreAssumptions, Core!PassGuardInvariant, PTL
  <1>3. Core!Spec => []Core!AccessGuard
      BY CoreAssumptions, Core!AccessGuardInvariant, PTL
  <1>4. Core!Spec => []Core!CopyGuard
      BY CoreAssumptions, Core!CopyInvariant, PTL
  <1>5. Spec => Core!Spec /\ []Turns
      BY RolloutRefines
  <1> QED
      BY <1>1, <1>2, <1>3, <1>4, <1>5, PTL

\* A process that takes over forgets no Cluster with resources.
THEOREM TakeoverCoversInvariant == LeaderElection => (Spec => []TakeoverCovers)
  <1> SUFFICES ASSUME LeaderElection PROVE Spec => []TakeoverCovers
      OBVIOUS
  <1>1. Turns /\ Core!KnownCovers => TakeoverCovers
    <2> SUFFICES ASSUME Turns, Core!KnownCovers PROVE TakeoverCovers
        OBVIOUS
    <2>1. A!KnownCovers
        BY SameAs DEF SameAsA, A!KnownCovers, A!HasFinalizer, A!Exists, A!Ignored,
                      Core!KnownCovers, Core!HasFinalizer, Core!Exists, Core!Ignored
    <2>2. B!KnownCovers
        BY SameAs DEF SameAsB, B!KnownCovers, B!HasFinalizer, B!Exists, B!Ignored,
                      Core!KnownCovers, Core!HasFinalizer, Core!Exists, Core!Ignored
    <2> QED
        BY <2>1, <2>2 DEF TakeoverCovers
  <1>2. Core!Spec => []Core!KnownCovers
      BY CoreAssumptions, Core!KnownCoversInvariant, PTL
  <1>3. Spec => Core!Spec /\ []Turns
      BY RolloutRefines
  <1> QED
      BY <1>1, <1>2, <1>3, PTL

\* Nothing is left half-done by a change of processes, as long as the
\* configuration comes and goes but stays the same.
THEOREM TakeoverConvergedInvariant ==
    LeaderElection /\ ~TerminatingReady
        => \A g \in Configs : Spec /\ [](config \in {g, NoConfig}) => []TakeoverConverged
  <1> SUFFICES ASSUME LeaderElection, ~TerminatingReady, NEW g \in Configs
               PROVE  Spec /\ [](config \in {g, NoConfig}) => []TakeoverConverged
      OBVIOUS
  <1>1. Turns /\ Core!Converged => TakeoverConverged
    <2> SUFFICES ASSUME Turns, Core!Converged PROVE TakeoverConverged
        OBVIOUS
    <2>1. A!Converged
      <3>1. CASE ~upA
          BY <3>1 DEF A!Converged, A!Settled, A!Quiescent
      <3>2. CASE SameAsA
          BY <3>2
          DEF SameAsA, A!Converged, A!Settled, A!Quiescent, A!AgreesWith, A!WantedBy, A!Selected,
              A!DeployedFor, A!CleanedUp, A!HasResources, A!HasFinalizer, A!Exists, A!Ignored,
              A!Sites, Core!Converged, Core!Settled, Core!Quiescent, Core!AgreesWith,
              Core!WantedBy, Core!Selected, Core!DeployedFor, Core!CleanedUp,
              Core!HasResources, Core!HasFinalizer, Core!Exists, Core!Ignored, Core!Sites
      <3> QED
          BY <3>1, <3>2, SameAs
    <2>2. B!Converged
      <3>1. CASE ~upB
          BY <3>1 DEF B!Converged, B!Settled, B!Quiescent
      <3>2. CASE SameAsB
          BY <3>2
          DEF SameAsB, B!Converged, B!Settled, B!Quiescent, B!AgreesWith, B!WantedBy, B!Selected,
              B!DeployedFor, B!CleanedUp, B!HasResources, B!HasFinalizer, B!Exists, B!Ignored,
              B!Sites, Core!Converged, Core!Settled, Core!Quiescent, Core!AgreesWith,
              Core!WantedBy, Core!Selected, Core!DeployedFor, Core!CleanedUp,
              Core!HasResources, Core!HasFinalizer, Core!Exists, Core!Ignored, Core!Sites
      <3> QED
          BY <3>1, <3>2, SameAs
    <2> QED
        BY <2>1, <2>2 DEF TakeoverConverged
  <1>2. Core!Spec /\ [](config \in {g, NoConfig}) => []Core!Converged
      BY CoreAssumptions, Core!ConvergedInvariant
  <1>3. Spec => Core!Spec /\ []Turns
      BY RolloutRefines
  <1> QED
      BY <1>1, <1>2, <1>3, PTL

\* Two processes that take turns keep the contract of one.
THEOREM RolloutImplementsDeployment ==
    LeaderElection /\ ~TerminatingReady => (Spec => ImplementsDeployment)
  <1> SUFFICES ASSUME LeaderElection, ~TerminatingReady PROVE Spec => ImplementsDeployment
      OBVIOUS
  <1>1. Core!Spec => Core!ImplementsDeployment
      BY CoreAssumptions, Core!ImplementsDeploymentTheorem, PTL
  <1>2. Spec => Core!Spec
      BY RolloutRefines, PTL
  <1>3. Core!Contract!Init => A!Contract!Init
      BY
      DEF Core!Contract!Init, A!Contract!Init, Core!Contract!Nothing, A!Contract!Nothing,
          Core!LifeOf, A!LifeOf, Core!HasFinalizer, A!HasFinalizer, Core!Exists, A!Exists,
          Core!Placed, A!Placed
  <1>4. [Core!Contract!Next]_[c \in Clusters |-> Core!LifeOf(c)]
            => [A!Contract!Next]_[c \in Clusters |-> A!LifeOf(c)]
      BY
      DEF Core!Contract!Next, A!Contract!Next, Core!Contract!Hold, A!Contract!Hold,
          Core!Contract!Request, A!Contract!Request, Core!Contract!Grant, A!Contract!Grant,
          Core!Contract!Place, A!Contract!Place, Core!Contract!Withdraw, A!Contract!Withdraw,
          Core!Contract!Furnish, A!Contract!Furnish, Core!Contract!Deploy, A!Contract!Deploy,
          Core!Contract!Undeploy, A!Contract!Undeploy, Core!Contract!Uninstalled,
          A!Contract!Uninstalled, Core!Contract!Revoke, A!Contract!Revoke, Core!Contract!Revoked,
          A!Contract!Revoked, Core!Contract!LetGo, A!Contract!LetGo, Core!Contract!Cleared,
          A!Contract!Cleared, Core!LifeOf, A!LifeOf, Core!HasFinalizer, A!HasFinalizer,
          Core!Exists, A!Exists, Core!Placed, A!Placed
  <1>5. Core!ImplementsDeployment => ImplementsDeployment
      BY <1>3, <1>4, PTL
      DEF ImplementsDeployment, Core!ImplementsDeployment, A!ImplementsDeployment,
          Core!Contract!Spec, A!Contract!Spec
  <1> QED
      BY <1>1, <1>2, <1>5, PTL

=============================================================================
