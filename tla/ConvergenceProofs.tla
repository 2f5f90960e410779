------------------------- MODULE ConvergenceProofs -------------------------
(***************************************************************************)
(* Proofs about what a deployment goes through and where it comes to rest: *)
(* the controller implements the contract of Deployment and, at either site,*)
(* that of copying. When nothing is pending for a Cluster, its resources   *)
(* agree with one configuration, with the current one when it did not      *)
(* change, and with the current one although it changed when the Cluster is*)
(* known.                                                                  *)
(***************************************************************************)
EXTENDS ClusterReconcilerProofs

(***************************************************************************)
(* The contract: the initial states map to initial states of Deployment, and*)
(* every step of a pass, of the process, of a user or of a provider maps to *)
(* one step in the life of one deployment, or to none.                      *)
(***************************************************************************)

\* What Contract substitutes for the variable of Deployment.
Lives == [c \in Clusters |-> LifeOf(c)]

LEMMA LivesOf == \A c \in Clusters : Lives[c] = LifeOf(c) /\ Lives'[c] = LifeOf(c)'
  BY DEF Lives

\* A life is a record of what the contract sees, before a step and after it.
LEMMA LifeFields ==
    ASSUME NEW c \in Clusters
    PROVE  /\ LifeOf(c).held = HasFinalizer(c) /\ LifeOf(c)'.held = HasFinalizer(c)'
           /\ LifeOf(c).access = access[c] /\ LifeOf(c)'.access = access'[c]
           /\ LifeOf(c).placed = Placed(c) /\ LifeOf(c)'.placed = Placed(c)'
           /\ LifeOf(c).credentials = (copies["target"][c] # {})
           /\ LifeOf(c)'.credentials = (copies'["target"][c] # {})
           /\ LifeOf(c).release = release[c].status /\ LifeOf(c)'.release = release'[c].status
  BY DEF LifeOf

LEMMA LifeRecord ==
    ASSUME NEW c \in Clusters
    PROVE  /\ LifeOf(c) = [held |-> LifeOf(c).held, access |-> LifeOf(c).access,
                           placed |-> LifeOf(c).placed, credentials |-> LifeOf(c).credentials,
                           release |-> LifeOf(c).release]
           /\ LifeOf(c)' = [held |-> LifeOf(c)'.held, access |-> LifeOf(c)'.access,
                            placed |-> LifeOf(c)'.placed, credentials |-> LifeOf(c)'.credentials,
                            release |-> LifeOf(c)'.release]
  BY DEF LifeOf

\* A life of which only one field changes.
LEMMA FieldChange ==
    ASSUME NEW c \in Clusters
    PROVE  LET old == LifeOf(c)
               new == LifeOf(c)'
           IN
               /\ /\ new.access = old.access /\ new.placed = old.placed
                  /\ new.credentials = old.credentials /\ new.release = old.release
                  => new = [old EXCEPT !.held = new.held]
               /\ /\ new.held = old.held /\ new.placed = old.placed
                  /\ new.credentials = old.credentials /\ new.release = old.release
                  => new = [old EXCEPT !.access = new.access]
               /\ /\ new.held = old.held /\ new.access = old.access
                  /\ new.credentials = old.credentials /\ new.release = old.release
                  => new = [old EXCEPT !.placed = new.placed]
               /\ /\ new.held = old.held /\ new.access = old.access
                  /\ new.placed = old.placed /\ new.release = old.release
                  => new = [old EXCEPT !.credentials = new.credentials]
               /\ /\ new.held = old.held /\ new.access = old.access
                  /\ new.placed = old.placed /\ new.credentials = old.credentials
                  => new = [old EXCEPT !.release = new.release]
  BY LifeRecord

\* The life of c is unchanged when nothing that the contract sees changes.
LEMMA LifeSame ==
    ASSUME NEW c \in Clusters,
           HasFinalizer(c)' = HasFinalizer(c),
           access'[c] = access[c],
           release'[c].status = release[c].status,
           \A site \in Sites : copies'[site][c] = copies[site][c],
           \A k \in SourceKinds : source'[c][k] = "live" <=> source[c][k] = "live"
    PROVE  LifeOf(c)' = LifeOf(c)
  BY DEF LifeOf, Placed, Sites

\* When no life changes, the contract stutters.
LEMMA NoChange ==
    ASSUME \A c \in Clusters : LifeOf(c)' = LifeOf(c)
    PROVE  Lives' = Lives
  BY DEF Lives

\* The change of one life is the change of one component of Lives.
LEMMA OneChange ==
    ASSUME NEW c \in Clusters, NEW new,
           LifeOf(c)' = new,
           \A d \in Clusters \ {c} : LifeOf(d)' = LifeOf(d)
    PROVE  Lives' = [Lives EXCEPT ![c] = new]
  BY DEF Lives

\* What the pass places on the platform cluster it places with the access only.
LEMMA PlacedChange ==
    ASSUME NEW c \in Clusters,
           LifeOf(c)'.held = LifeOf(c).held,
           LifeOf(c)'.access = LifeOf(c).access,
           LifeOf(c)'.credentials = LifeOf(c).credentials,
           LifeOf(c)'.release = LifeOf(c).release,
           LifeOf(c).held,
           LifeOf(c).access = "granted" \/ (LifeOf(c)'.placed => LifeOf(c).placed),
           \A d \in Clusters \ {c} : LifeOf(d)' = LifeOf(d)
    PROVE  [Contract!Next]_Lives
  <1>1. LifeOf(c)' = [LifeOf(c) EXCEPT !.placed = LifeOf(c)'.placed]
      BY FieldChange
  <1>2. LifeOf(c).placed \in BOOLEAN /\ LifeOf(c)'.placed \in BOOLEAN
      BY LifeFields DEF Placed
  <1>3. CASE LifeOf(c)'.placed = LifeOf(c).placed
    <2>1. LifeOf(c)' = LifeOf(c)
        BY <1>3, LifeRecord
    <2> QED
        BY <2>1, NoChange
  <1>4. CASE LifeOf(c)'.placed = TRUE /\ LifeOf(c).placed = FALSE
    <2>1. Lives' = [Lives EXCEPT ![c] = [LifeOf(c) EXCEPT !.placed = TRUE]]
        BY <1>1, <1>4, OneChange
    <2>2. Contract!Place(c)
        BY <1>4, <2>1, LivesOf DEF Contract!Place, Lives
    <2> QED
        BY <2>2 DEF Contract!Next
  <1>5. CASE LifeOf(c)'.placed = FALSE /\ LifeOf(c).placed = TRUE
    <2>1. Lives' = [Lives EXCEPT ![c] = [LifeOf(c) EXCEPT !.placed = FALSE]]
        BY <1>1, <1>5, OneChange
    <2>2. Contract!Withdraw(c)
        BY <1>5, <2>1, LivesOf DEF Contract!Withdraw, Lives
    <2> QED
        BY <2>2 DEF Contract!Next
  <1> QED
      BY <1>2, <1>3, <1>4, <1>5

\* The target cluster is touched with the access only.
LEMMA CredentialsChange ==
    ASSUME NEW c \in Clusters,
           LifeOf(c)'.held = LifeOf(c).held,
           LifeOf(c)'.access = LifeOf(c).access,
           LifeOf(c)'.placed = LifeOf(c).placed,
           LifeOf(c)'.release = LifeOf(c).release,
           LifeOf(c).held,
           LifeOf(c).access = "granted",
           \A d \in Clusters \ {c} : LifeOf(d)' = LifeOf(d)
    PROVE  [Contract!Next]_Lives
  <1>1. LifeOf(c)' = [LifeOf(c) EXCEPT !.credentials = LifeOf(c)'.credentials]
      BY FieldChange
  <1>2. LifeOf(c).credentials \in BOOLEAN /\ LifeOf(c)'.credentials \in BOOLEAN
      BY LifeFields
  <1>3. CASE LifeOf(c)'.credentials = LifeOf(c).credentials
    <2>1. LifeOf(c)' = LifeOf(c)
        BY <1>3, LifeRecord
    <2> QED
        BY <2>1, NoChange
  <1>4. CASE LifeOf(c)'.credentials = ~LifeOf(c).credentials
    <2>1. Lives' = [Lives EXCEPT ![c] = [LifeOf(c) EXCEPT !.credentials = ~LifeOf(c).credentials]]
        BY <1>1, <1>4, OneChange
    <2>2. Contract!Furnish(c)
        BY <2>1, LivesOf DEF Contract!Furnish, Lives
    <2> QED
        BY <2>2 DEF Contract!Next
  <1> QED
      BY <1>2, <1>3, <1>4

\* The calls of a pass that copy and remove secrets.
LEMMA SecretsChange ==
    ASSUME TypeOK, GuardInv, AccessInv,
           NEW site \in Sites, NEW pc, NEW next,
           \/ CopySecrets(site, pc, next) /\ pc \in {"copyPlatform", "copyTarget"}
           \/ RemoveSecrets(site, pc, next) /\ pc \in {"prunePlatform", "pruneTarget", "removeTarget"}
           \/ RemoveSecrets(site, pc, next) /\ pc = "removePlatform" /\ site = "platform"
    PROVE  [Contract!Next]_Lives
  <1>0. copies \in [Sites -> [Clusters -> SUBSET Secrets]] /\ worker.pc = pc
      BY DEF TypeOK, CopySecrets, RemoveSecrets
  <1>1. PICK c \in Clusters : c = worker.c
      BY <1>0 DEF TypeOK
  <1>2. HasFinalizer(c) /\ (pc # "removePlatform" => access[c] = "granted")
      BY <1>0, <1>1 DEF GuardInv, PassGuard, AccessInv, AccessGuard, DeploySteps, CleanupSteps
  <1>3. UNCHANGED <<cluster, release, source, access>>
      BY DEF CopySecrets, RemoveSecrets
  <1>4. \A d \in Clusters : HasFinalizer(d)' = HasFinalizer(d)
      BY <1>3 DEF HasFinalizer, Exists
  <1>5. \A d \in Clusters, s \in Sites : d # c \/ s # site => copies'[s][d] = copies[s][d]
      BY <1>0, <1>1 DEF CopySecrets, RemoveSecrets
  <1>6. \A d \in Clusters \ {c} : LifeOf(d)' = LifeOf(d)
      BY <1>3, <1>4, <1>5, LifeSame
  <1>7. /\ LifeOf(c)'.held = LifeOf(c).held /\ LifeOf(c).held
        /\ LifeOf(c)'.access = LifeOf(c).access
        /\ LifeOf(c)'.release = LifeOf(c).release
        /\ pc # "removePlatform" => LifeOf(c).access = "granted"
      BY <1>2, <1>3, <1>4, LifeFields
  <1>8. CASE site = "platform"
    <2>1. LifeOf(c)'.credentials = LifeOf(c).credentials
        BY <1>5, <1>8, LifeFields DEF Sites
    <2>2. ASSUME pc = "removePlatform" PROVE LifeOf(c)'.placed => LifeOf(c).placed
      <3>1. copies'[site][c] \subseteq copies[site][c]
          BY <1>0, <1>1, <2>2 DEF RemoveSecrets
      <3> QED
          BY <1>3, <1>8, <3>1, LifeFields DEF Placed
    <2> QED
        BY <1>6, <1>7, <2>1, <2>2, PlacedChange
  <1>9. CASE site = "target"
    <2>1. LifeOf(c)'.placed = LifeOf(c).placed /\ access[c] = "granted"
        BY <1>2, <1>3, <1>5, <1>9, LifeFields DEF Sites, Placed
    <2> QED
        BY <1>6, <1>7, <1>9, <2>1, CredentialsChange
  <1> QED
      BY <1>8, <1>9 DEF Sites

\* The calls of a pass that deploy and delete sources.
LEMMA SourcesChange ==
    ASSUME TypeOK, GuardInv, AccessInv,
           \/ DeploySource
           \/ \E obsolete : DeleteSources("pruneSources", obsolete, "namespace")
           \/ \E obsolete : DeleteSources("removeSources", obsolete, "removePlatform")
    PROVE  [Contract!Next]_Lives
  <1>0. /\ source \in [Clusters -> [SourceKinds -> Status]]
        /\ worker.pc \in {"source", "pruneSources", "removeSources"}
      BY DEF TypeOK, DeploySource, DeleteSources
  <1>1. PICK c \in Clusters : c = worker.c
      BY <1>0 DEF TypeOK
  <1>2. HasFinalizer(c) /\ (worker.pc = "source" => access[c] = "granted")
      BY <1>0, <1>1 DEF GuardInv, PassGuard, AccessInv, AccessGuard, DeploySteps, CleanupSteps
  <1>3. UNCHANGED <<cluster, release, copies, access>>
      BY DEF DeploySource, DeleteSources
  <1>4. \A d \in Clusters : HasFinalizer(d)' = HasFinalizer(d)
      BY <1>3 DEF HasFinalizer, Exists
  <1>5. \A d \in Clusters \ {c} : source'[d] = source[d]
      BY <1>0, <1>1 DEF DeploySource, DeleteSources
  <1>6. \A d \in Clusters \ {c} : LifeOf(d)' = LifeOf(d)
      BY <1>3, <1>4, <1>5, LifeSame
  <1>7. /\ LifeOf(c)'.held = LifeOf(c).held /\ LifeOf(c).held
        /\ LifeOf(c)'.access = LifeOf(c).access
        /\ LifeOf(c)'.credentials = LifeOf(c).credentials
        /\ LifeOf(c)'.release = LifeOf(c).release
        /\ worker.pc = "source" => LifeOf(c).access = "granted"
      BY <1>2, <1>3, <1>4, LifeFields
  <1>8. ASSUME worker.pc # "source" PROVE LifeOf(c)'.placed => LifeOf(c).placed
    <2>1. \A k \in SourceKinds : source'[c][k] = "live" => source[c][k] = "live"
      <3>1. ASSUME NEW o, source' = [source EXCEPT ![c][o] = "terminating"]
            PROVE  \A k \in SourceKinds : source'[c][k] = "live" => source[c][k] = "live"
          BY <1>0, <3>1
      <3>2. CASE source' = source
          BY <3>2
      <3> QED
          BY <1>1, <1>8, <3>1, <3>2 DEF DeploySource, DeleteSources
    <2> QED
        BY <1>3, <2>1, LifeFields DEF Placed
  <1> QED
      BY <1>6, <1>7, <1>8, PlacedChange

\* The calls of a pass and the deeds of the provider that change the access.
LEMMA AccessChange ==
    ASSUME ~TerminatingReady, TypeOK, GuardInv, AccessInv,
           EnsureAccess \/ RefreshAccess \/ DeleteAccess \/ \E c \in Clusters : ProvideAccess(c)
    PROVE  [Contract!Next]_Lives
  <1>0. access \in [Clusters -> AccessStatus]
      BY DEF TypeOK
  <1>1. UNCHANGED <<cluster, release, source, copies>>
      BY DEF EnsureAccess, RefreshAccess, DeleteAccess, ProvideAccess
  <1>2. \A d \in Clusters : HasFinalizer(d)' = HasFinalizer(d)
      BY <1>1 DEF HasFinalizer, Exists
  <1>3. PICK c \in Clusters :
            /\ \A d \in Clusters \ {c} : access'[d] = access[d]
            /\ \/ c = worker.c /\ (EnsureAccess \/ RefreshAccess \/ DeleteAccess)
               \/ ProvideAccess(c)
    <2>1. CASE EnsureAccess \/ RefreshAccess \/ DeleteAccess
      <3>1. worker.c \in Clusters
          BY <2>1 DEF EnsureAccess, RefreshAccess, DeleteAccess, TypeOK
      <3>2. \A d \in Clusters \ {worker.c} : access'[d] = access[d]
          BY <1>0, <2>1 DEF EnsureAccess, RefreshAccess, DeleteAccess, ReconcileAccess
      <3> QED
          BY <2>1, <3>1, <3>2
    <2>2. ASSUME NEW c \in Clusters, ProvideAccess(c)
          PROVE  \A d \in Clusters \ {c} : access'[d] = access[d]
        BY <1>0, <2>2 DEF ProvideAccess
    <2> QED
        BY <2>1, <2>2
  <1>4. \A d \in Clusters \ {c} : LifeOf(d)' = LifeOf(d)
      BY <1>1, <1>2, <1>3, LifeSame
  <1>5. LifeOf(c)' = [LifeOf(c) EXCEPT !.access = access'[c]]
    <2>1. /\ LifeOf(c)'.held = LifeOf(c).held
          /\ LifeOf(c)'.placed = LifeOf(c).placed
          /\ LifeOf(c)'.credentials = LifeOf(c).credentials
          /\ LifeOf(c)'.release = LifeOf(c).release
        BY <1>1, <1>2, LifeFields DEF Placed
    <2>2. LifeOf(c)'.access = access'[c]
        BY LifeFields
    <2> QED
        BY <2>1, <2>2, FieldChange
  <1>6. Lives' = [Lives EXCEPT ![c] = [LifeOf(c) EXCEPT !.access = access'[c]]]
      BY <1>4, <1>5, OneChange
  <1>7. LifeOf(c).access = access[c] /\ LifeOf(c).held = HasFinalizer(c)
      BY LifeFields
  <1>8. CASE access'[c] = access[c]
    <2>1. LifeOf(c)' = LifeOf(c)
        BY <1>5, <1>7, <1>8, LifeRecord
    <2> QED
        BY <1>4, <2>1, NoChange
  <1>9. CASE c = worker.c /\ (EnsureAccess \/ RefreshAccess)
    <2>1. HasFinalizer(c)
        BY <1>9 DEF EnsureAccess, RefreshAccess, GuardInv, PassGuard, DeploySteps, CleanupSteps
    <2>2. access'[c] = IF access[c] = "absent" THEN "pending" ELSE access[c]
        BY <1>0, <1>9 DEF EnsureAccess, RefreshAccess, ReconcileAccess, AccessOutcomes
    <2>3. CASE access[c] = "absent"
      <3>1. Contract!Request(c)
          BY <1>6, <1>7, <2>1, <2>2, <2>3, LivesOf DEF Contract!Request, Lives
      <3> QED
          BY <3>1 DEF Contract!Next
    <2> QED
        BY <1>8, <2>2, <2>3
  <1>10. CASE c = worker.c /\ DeleteAccess
    <2>1. /\ HasFinalizer(c) /\ release[c].status = "absent" /\ ~Placed(c)
          /\ copies["target"][c] = {}
        BY <1>10 DEF DeleteAccess, GuardInv, PassGuard, AccessInv, AccessGuard, DeploySteps,
                     CleanupSteps, Placed
    <2>2. access'[c] \in DeleteOutcomes(access[c])
        BY <1>0, <1>10 DEF DeleteAccess
    <2>3. CASE access[c] \in {"pending", "granted"}
      <3>1. /\ LifeOf(c).held /\ ~LifeOf(c).placed /\ ~LifeOf(c).credentials
            /\ LifeOf(c).release = "absent"
          BY <2>1, LifeFields
      <3>2. Contract!Cleared(c)
          BY <3>1, LivesOf DEF Contract!Cleared, Lives
      <3>3. access'[c] \in {"absent", "terminating"}
          BY <2>2, <2>3 DEF DeleteOutcomes
      <3>4. Contract!Revoke(c)
          BY <1>6, <1>7, <2>3, <3>1, <3>2, <3>3, LivesOf DEF Contract!Revoke, Lives
      <3> QED
          BY <3>4 DEF Contract!Next
    <2>4. CASE access[c] \in {"absent", "terminating"}
        BY <1>8, <2>2, <2>4 DEF DeleteOutcomes
    <2> QED
        BY <1>0, <2>3, <2>4 DEF AccessStatus
  <1>11. CASE ProvideAccess(c)
    <2>1. CASE access[c] = "pending" /\ access'[c] = "granted"
      <3>1. Contract!Grant(c)
          BY <1>6, <1>7, <2>1, LivesOf DEF Contract!Grant, Lives
      <3> QED
          BY <3>1 DEF Contract!Next
    <2>2. CASE access[c] = "terminating" /\ access'[c] = "absent"
      <3>1. Contract!Revoked(c)
          BY <1>6, <1>7, <2>2, LivesOf DEF Contract!Revoked, Lives
      <3> QED
          BY <3>1 DEF Contract!Next
    <2> QED
        BY <1>0, <1>11, <2>1, <2>2 DEF ProvideAccess
  <1> QED
      BY <1>3, <1>9, <1>10, <1>11

\* The calls of a pass and the deeds of Flux that change the HelmRelease.
LEMMA ReleaseChange ==
    ASSUME TypeOK, GuardInv, AccessInv,
           \/ DeployHelmRelease \/ UndeployHelmRelease
           \/ \E c \in Clusters : ReleaseGone(c)
    PROVE  [Contract!Next]_Lives
  <1>0. release \in [Clusters -> Release]
      BY DEF TypeOK
  <1>1. UNCHANGED <<cluster, access, source, copies>>
      BY DEF DeployHelmRelease, UndeployHelmRelease, ReleaseGone
  <1>2. \A d \in Clusters : HasFinalizer(d)' = HasFinalizer(d)
      BY <1>1 DEF HasFinalizer, Exists
  <1>3. PICK c \in Clusters :
            /\ \A d \in Clusters \ {c} : release'[d] = release[d]
            /\ \/ c = worker.c /\ (DeployHelmRelease \/ UndeployHelmRelease)
               \/ ReleaseGone(c)
    <2>1. CASE DeployHelmRelease \/ UndeployHelmRelease
      <3>1. worker.c \in Clusters
          BY <2>1 DEF DeployHelmRelease, UndeployHelmRelease, TypeOK
      <3>2. \A d \in Clusters \ {worker.c} : release'[d] = release[d]
          BY <1>0, <2>1 DEF DeployHelmRelease, UndeployHelmRelease
      <3> QED
          BY <2>1, <3>1, <3>2
    <2>2. ASSUME NEW c \in Clusters, ReleaseGone(c)
          PROVE  \A d \in Clusters \ {c} : release'[d] = release[d]
        BY <1>0, <2>2 DEF ReleaseGone
    <2> QED
        BY <2>1, <2>2
  <1>4. \A d \in Clusters \ {c} : LifeOf(d)' = LifeOf(d)
      BY <1>1, <1>2, <1>3, LifeSame
  <1>5. LifeOf(c)' = [LifeOf(c) EXCEPT !.release = release'[c].status]
    <2>1. /\ LifeOf(c)'.held = LifeOf(c).held
          /\ LifeOf(c)'.access = LifeOf(c).access
          /\ LifeOf(c)'.placed = LifeOf(c).placed
          /\ LifeOf(c)'.credentials = LifeOf(c).credentials
        BY <1>1, <1>2, LifeFields DEF Placed
    <2>2. LifeOf(c)'.release = release'[c].status
        BY LifeFields
    <2> QED
        BY <2>1, <2>2, FieldChange
  <1>6. Lives' = [Lives EXCEPT ![c] = [LifeOf(c) EXCEPT !.release = release'[c].status]]
      BY <1>4, <1>5, OneChange
  <1>7. /\ LifeOf(c).access = access[c] /\ LifeOf(c).held = HasFinalizer(c)
        /\ LifeOf(c).release = release[c].status
      BY LifeFields
  <1>8. CASE release'[c].status = release[c].status
    <2>1. LifeOf(c)' = LifeOf(c)
        BY <1>5, <1>7, <1>8, LifeRecord
    <2> QED
        BY <1>4, <2>1, NoChange
  <1>9. CASE c = worker.c /\ DeployHelmRelease
    <2>1. HasFinalizer(c) /\ access[c] = "granted"
        BY <1>9 DEF DeployHelmRelease, GuardInv, PassGuard, AccessInv, AccessGuard,
                    DeploySteps, CleanupSteps
    <2>2. release'[c].status = IF release[c].status = "absent" THEN "live" ELSE release[c].status
        BY <1>0, <1>9 DEF DeployHelmRelease
    <2>3. CASE release[c].status = "absent"
      <3>1. Contract!Deploy(c)
          BY <1>6, <1>7, <2>1, <2>2, <2>3, LivesOf DEF Contract!Deploy, Lives
      <3> QED
          BY <3>1 DEF Contract!Next
    <2> QED
        BY <1>8, <2>2, <2>3
  <1>10. CASE c = worker.c /\ UndeployHelmRelease
    <2>1. HasFinalizer(c)
        BY <1>10 DEF UndeployHelmRelease, GuardInv, PassGuard, DeploySteps, CleanupSteps
    <2>2. \/ release' = release
          \/ release[c].status # "absent" /\ release'[c].status = "terminating"
        BY <1>0, <1>10 DEF UndeployHelmRelease, Release
    <2>3. CASE release[c].status = "live" /\ release'[c].status = "terminating"
      <3>1. Contract!Undeploy(c)
          BY <1>6, <1>7, <2>1, <2>3, LivesOf DEF Contract!Undeploy, Lives
      <3> QED
          BY <3>1 DEF Contract!Next
    <2>4. release[c].status \in Status
        BY <1>0 DEF Release
    <2> QED
        BY <1>8, <2>2, <2>3, <2>4 DEF Status
  <1>11. CASE ReleaseGone(c)
    <2>1. release[c].status = "terminating" /\ release'[c].status = "absent"
        BY <1>0, <1>11 DEF ReleaseGone, NoRelease
    <2>2. access[c] = "granted"
        BY <2>1 DEF AccessInv, ReleaseHasAccess
    <2>3. Contract!Uninstalled(c)
        BY <1>6, <1>7, <2>1, <2>2, LivesOf DEF Contract!Uninstalled, Lives
    <2> QED
        BY <2>3 DEF Contract!Next
  <1> QED
      BY <1>3, <1>9, <1>10, <1>11

\* The calls of a pass that add and remove the finalizer.
LEMMA FinalizerChange ==
    ASSUME TypeOK, GuardInv, AccessInv, AddFinalizer \/ RemoveFinalizer
    PROVE  [Contract!Next]_Lives
  <1>0. UNCHANGED <<release, access, source, copies>>
      BY DEF AddFinalizer, RemoveFinalizer
  <1>1. ASSUME \A d \in Clusters : HasFinalizer(d)' = HasFinalizer(d)
        PROVE  [Contract!Next]_Lives
      BY <1>0, <1>1, LifeSame, NoChange
  <1>2. CASE UNCHANGED cluster
      BY <1>1, <1>2 DEF HasFinalizer, Exists
  <1>3. PICK c \in Clusters : c = worker.c
      BY DEF AddFinalizer, RemoveFinalizer, TypeOK
  <1>4. LifeOf(c)' = [LifeOf(c) EXCEPT !.held = HasFinalizer(c)']
    <2>1. /\ LifeOf(c)'.access = LifeOf(c).access
          /\ LifeOf(c)'.placed = LifeOf(c).placed
          /\ LifeOf(c)'.credentials = LifeOf(c).credentials
          /\ LifeOf(c)'.release = LifeOf(c).release
        BY <1>0, LifeFields DEF Placed
    <2>2. LifeOf(c)'.held = HasFinalizer(c)'
        BY LifeFields
    <2> QED
        BY <2>1, <2>2, FieldChange
  <1>5. CASE AddFinalizer /\ ~worker.seen.finalizer /\ AcceptsFinalizer(worker.c)
    <2>1. \A d \in Clusters : HasFinalizer(d)' = IF d = c THEN TRUE ELSE HasFinalizer(d)
        BY <1>3, <1>5, FinalizerAdded
    <2>2. HasFinalizer(c)' = TRUE /\ HasFinalizer(c) = FALSE
        BY <1>3, <1>5, <2>1 DEF AddFinalizer, GuardInv, PassGuard, HasFinalizer, Exists
    <2>3. \A d \in Clusters \ {c} : LifeOf(d)' = LifeOf(d)
        BY <1>0, <2>1, LifeSame
    <2>4. Lives' = [Lives EXCEPT ![c] = [LifeOf(c) EXCEPT !.held = TRUE]]
        BY <1>4, <2>2, <2>3, OneChange
    <2>5. Contract!Hold(c)
        BY <2>2, <2>4, LifeFields, LivesOf DEF Contract!Hold, Lives
    <2> QED
        BY <2>5 DEF Contract!Next
  <1>6. CASE RemoveFinalizer /\ Exists(worker.c)
    <2>1. /\ HasFinalizer(c) = TRUE /\ release[c].status = "absent" /\ Placed(c) = FALSE
          /\ (copies["target"][c] # {}) = FALSE /\ access[c] = "absent"
        BY <1>3, <1>6 DEF RemoveFinalizer, GuardInv, PassGuard, AccessInv, AccessGuard,
                          DeploySteps, CleanupSteps, Placed, HasFinalizer, Exists
    <2>2. cluster[c] \in ClusterObject
        BY <1>3, <1>6 DEF Exists, TypeOK
    <2>3. cluster'[c].finalizer = FALSE /\ \A d \in Clusters \ {c} : cluster'[d] = cluster[d]
        BY <1>3, <1>6, <2>2 DEF RemoveFinalizer, TypeOK, ClusterObject
    <2>4. /\ HasFinalizer(c)' = FALSE
          /\ \A d \in Clusters \ {c} : HasFinalizer(d)' = HasFinalizer(d)
        BY <2>3 DEF HasFinalizer, Exists
    <2>5. \A d \in Clusters \ {c} : LifeOf(d)' = LifeOf(d)
        BY <1>0, <2>4, LifeSame
    <2>6. Lives' = [Lives EXCEPT ![c] = [LifeOf(c) EXCEPT !.held = FALSE]]
        BY <1>4, <2>4, <2>5, OneChange
    <2>7. /\ LifeOf(c).held /\ ~LifeOf(c).placed /\ ~LifeOf(c).credentials
          /\ LifeOf(c).release = "absent" /\ LifeOf(c).access = "absent"
        BY <2>1, LifeFields
    <2>8. Contract!LetGo(c)
        BY <2>6, <2>7, LivesOf DEF Contract!LetGo, Contract!Cleared, Lives
    <2> QED
        BY <2>8 DEF Contract!Next
  <1> QED
      BY <1>2, <1>5, <1>6, <1>1 DEF AddFinalizer, RemoveFinalizer, HasFinalizer, Exists

\* Every step is a step of the contract, or none.
LEMMA ContractStep ==
    ASSUME ~TerminatingReady
    PROVE  TypeOK /\ GuardInv /\ AccessInv /\ [Next]_vars => [Contract!Next]_Lives
  <1> SUFFICES ASSUME TypeOK, GuardInv, AccessInv, [Next]_vars
               PROVE  [Contract!Next]_Lives
      OBVIOUS
  <1> USE DEF ProcessUnchanged, PlatformUnchanged
  <1>1. CASE AddFinalizer \/ RemoveFinalizer
      BY <1>1, FinalizerChange
  <1>2. ASSUME ~AddFinalizer, ~RemoveFinalizer,
               UNCHANGED <<access, release>>,
               \A c \in Clusters, site \in Sites : copies'[site][c] = copies[site][c],
               \A c \in Clusters, k \in SourceKinds :
                   source'[c][k] = "live" <=> source[c][k] = "live"
        PROVE  [Contract!Next]_Lives
    <2>1. \A c \in Clusters : HasFinalizer(c)' = HasFinalizer(c)
        BY <1>2, FinalizerSame
    <2> QED
        BY <1>2, <2>1, LifeSame, NoChange
  <1>3. CASE UNCHANGED <<access, release, copies, source>>
      BY <1>1, <1>2, <1>3
  <1>4. ASSUME NEW c \in Clusters, SourceGone(c) PROVE [Contract!Next]_Lives
    <2>1. \A d \in Clusters, k \in SourceKinds : source'[d][k] = "live" <=> source[d][k] = "live"
        BY <1>4 DEF SourceGone, TypeOK
    <2> QED
        BY <1>1, <1>2, <1>4, <2>1 DEF SourceGone
  <1>5. ASSUME NEW c \in Clusters, ClusterGone(c) PROVE [Contract!Next]_Lives
    <2>1. copies["target"][c] = {}
        BY <1>5 DEF ClusterGone, AccessInv, NoTargetOrphans, HasFinalizer
    <2>2. \A d \in Clusters, site \in Sites : copies'[site][d] = copies[site][d]
        BY <1>5, <2>1 DEF ClusterGone, TypeOK, Sites
    <2> QED
        BY <1>1, <1>2, <1>5, <2>2 DEF ClusterGone
  <1>6. CASE HandleCreateOrUpdate
    <2>1. CASE PruneSources
        BY <2>1, SourcesChange DEF PruneSources
    <2>2. CASE DeploySource
        BY <2>2, SourcesChange
    <2>3. CASE EnsureAccess
        BY <2>3, AccessChange
    <2>4. CASE DeployHelmRelease
        BY <2>4, ReleaseChange
    <2>5. CASE \/ CopySecrets("platform", "copyPlatform", "prunePlatform")
               \/ RemoveSecrets("platform", "prunePlatform", "source")
               \/ CopySecrets("target", "copyTarget", "pruneTarget")
               \/ RemoveSecrets("target", "pruneTarget", "release")
        BY <2>5, SecretsChange DEF Sites
    <2> QED
        BY <1>1, <1>3, <1>6, <2>1, <2>2, <2>3, <2>4, <2>5
        DEF HandleCreateOrUpdate, AddKnownCluster, GetAccess, EnsureTargetClusterNamespace
  <1>7. CASE HandleDelete
    <2>1. CASE UndeployHelmChartSource
        BY <2>1, SourcesChange DEF UndeployHelmChartSource
    <2>2. CASE RefreshAccess \/ DeleteAccess
        BY <2>2, AccessChange
    <2>3. CASE UndeployHelmRelease
        BY <2>3, ReleaseChange
    <2>4. CASE \/ RemoveSecrets("target", "removeTarget", "removeSources")
               \/ RemoveSecrets("platform", "removePlatform", "deleteAccess")
        BY <2>4, SecretsChange DEF Sites
    <2> QED
        BY <1>1, <1>3, <1>7, <2>1, <2>2, <2>3, <2>4
        DEF HandleDelete, CheckAccess, RemoveKnownCluster
  <1>8. ASSUME NEW c \in Clusters, Providers(c) PROVE [Contract!Next]_Lives
      BY <1>4, <1>8, AccessChange, ReleaseChange DEF Providers
  <1> QED
      BY <1>3, <1>5, <1>6, <1>7, <1>8
      DEF Next, Step, Users, vars, GetCluster, HandleOperation, ReadConfig, Fail,
          DeliverConfigEvent, Start, Crash, CreateCluster, ChangePurposes, Annotate,
          DeleteCluster, EditCluster, ChangeConfig

\* Initially no deployment has begun.
LEMMA ContractInit == Init => Contract!Init
  <1> SUFFICES ASSUME Init, NEW c \in Clusters PROVE LifeOf(c) = Contract!Nothing
      BY DEF Contract!Init
  <1>1. /\ HasFinalizer(c) = FALSE /\ Placed(c) = FALSE /\ (copies["target"][c] # {}) = FALSE
        /\ access[c] = "absent" /\ release[c].status = "absent"
      BY DEF Init, HasFinalizer, Exists, Placed, NewCluster, NoRelease, Sites
  <1> QED
      BY <1>1, LifeFields, LifeRecord DEF Contract!Nothing

\* The controller implements the contract when the access library does not take
\* a terminating AccessRequest for a ready one: for any number of Clusters,
\* configurations, edits, failures and restarts, no deployment leaves its course.
THEOREM ImplementsDeploymentTheorem == ~TerminatingReady => (Spec => ImplementsDeployment)
  <1> SUFFICES ASSUME ~TerminatingReady PROVE Spec => ImplementsDeployment
      OBVIOUS
  <1>1. TypeOK /\ GuardInv /\ AccessInv /\ [Next]_vars => [Contract!Next]_Lives
      BY ContractStep
  <1> QED
      BY <1>1, ContractInit, TypeInvariant, GuardInvariant, AccessInvariant, PTL
      DEF Spec, ImplementsDeployment, Contract!Spec, Lives

-----------------------------------------------------------------------------
(* The contract of copying, at either site.                                  *)

\* PlatformCopies and TargetCopies in one.
Copying(site) == INSTANCE CopyContract WITH
    Names <- Secrets, Demands <- CopyDemands(site),
    copies <- copies[site], pass <- CopyPass(site)

\* A step of the contract at a site, or none.
InContract(site) == [Copying(site)!Next]_<<copies[site], CopyPass(site)>>

\* The steps of a pass that have nothing to do with the copies at a site.
Apart(site) ==
    {"idle", "operation", "config", "finalizer", "known", "access", "accessRequest",
     "undeploy", "refreshAccess", "checkAccess"}
        \cup IF site = "platform" THEN {"removeTarget", "removeSources"}
             ELSE {"copyPlatform", "prunePlatform", "source", "pruneSources", "namespace"}

\* The steps of a pass that come after its dealings with them.
After(site) ==
    {"release", "deleteAccess", "removeFinalizer", "forget"}
        \cup IF site = "platform"
             THEN {"source", "pruneSources", "namespace", "copyTarget", "pruneTarget"}
             ELSE {"removeSources", "removePlatform"}

\* The phase of a pass, call by call.
LEMMA Phases ==
    ASSUME NEW site \in Sites
    PROVE  /\ \A pc \in Apart(site) : CopyPhase(site, pc) = "none"
           /\ \A pc \in After(site) : CopyPhase(site, pc) = "done"
           /\ site = "platform" =>
                  /\ CopyPhase(site, "copyPlatform") = "copying"
                  /\ CopyPhase(site, "prunePlatform") = "pruning"
                  /\ CopyPhase(site, "removePlatform") = "pruning"
           /\ site = "target" =>
                  /\ CopyPhase(site, "copyTarget") = "copying"
                  /\ CopyPhase(site, "pruneTarget") = "pruning"
                  /\ CopyPhase(site, "removeTarget") = "pruning"
  <1>1. CASE site = "platform"
    <2>1. \A pc \in Apart(site) : CopyPhase(site, pc) = "none"
        BY <1>1 DEF CopyPhase, Apart
    <2>2. \A pc \in After(site) : CopyPhase(site, pc) = "done"
        BY <1>1 DEF CopyPhase, After
    <2> QED
        BY <1>1, <2>1, <2>2 DEF CopyPhase
  <1>2. CASE site = "target"
    <2>1. \A pc \in Apart(site) : CopyPhase(site, pc) = "none"
        BY <1>2 DEF CopyPhase, Apart
    <2>2. \A pc \in After(site) : CopyPhase(site, pc) = "done"
        BY <1>2 DEF CopyPhase, After
    <2> QED
        BY <1>2, <2>1, <2>2 DEF CopyPhase
  <1> QED
      BY <1>1, <1>2 DEF Sites

\* The running pass, once its phase is known.
LEMMA PassAt ==
    ASSUME NEW site \in Sites, NEW phase
    PROVE  /\ CopyPhase(site, worker.pc) = phase /\ phase # "none" =>
                  CopyPass(site) =
                      [of |-> worker.c,
                       demand |-> IF worker.pc \in DeploySteps
                                  THEN CopyDemand(SecretsToCopy[site][worker.cfg])
                                  ELSE CopyDemand({}),
                       phase |-> phase]
           /\ CopyPhase(site, worker'.pc) = phase /\ phase # "none" =>
                  CopyPass(site)' =
                      [of |-> worker'.c,
                       demand |-> IF worker'.pc \in DeploySteps
                                  THEN CopyDemand(SecretsToCopy[site][worker'.cfg])
                                  ELSE CopyDemand({}),
                       phase |-> phase]
  BY DEF CopyPass

\* The running pass when it has nothing to do with the copies.
LEMMA PassNowhere ==
    ASSUME NEW site \in Sites
    PROVE  /\ CopyPhase(site, worker.pc) = "none" => CopyPass(site) = Copying(site)!NoPass
           /\ CopyPhase(site, worker'.pc) = "none" => CopyPass(site)' = Copying(site)!NoPass
  BY DEF CopyPass, Copying!NoPass, Copying!Nothing, CopyDemand

\* The pass ends, or never came to this site.
LEMMA CopyingLeft ==
    ASSUME NEW site \in Sites, worker'.pc \in Apart(site), copies'[site] = copies[site]
    PROVE  InContract(site)
  <1>1. CopyPass(site)' = Copying(site)!NoPass
      BY Phases, PassNowhere
  <1> QED
      BY <1>1 DEF InContract, Copying!Next, Copying!Leave

\* The pass goes on after its dealings with the copies.
LEMMA CopyingOver ==
    ASSUME NEW site \in Sites, worker.pc \in After(site), worker'.pc \in After(site),
           worker.pc \in DeploySteps <=> worker'.pc \in DeploySteps,
           worker'.c = worker.c, worker'.cfg = worker.cfg, copies'[site] = copies[site]
    PROVE  InContract(site)
  <1>1. CopyPass(site)' = CopyPass(site)
      BY Phases, PassAt
  <1> QED
      BY <1>1 DEF InContract

\* Nothing happens to the pass and the copies.
LEMMA CopyingUntouched ==
    ASSUME NEW site \in Sites, worker' = worker, copies'[site] = copies[site]
    PROVE  InContract(site)
  BY DEF InContract, CopyPass

\* The pass comes to the copies, to copy or to remove.
LEMMA CopyingBegun ==
    ASSUME TypeOK, NEW site \in Sites, NEW phase \in {"copying", "pruning"},
           worker.pc \in Apart(site), CopyPhase(site, worker'.pc) = phase,
           worker'.c \in Clusters, worker'.cfg \in Configs,
           phase = "pruning" => worker'.pc \notin DeploySteps,
           copies'[site] = copies[site]
    PROVE  InContract(site)
  <1>1. PICK c \in Clusters, g \in Configs : c = worker'.c /\ g = worker'.cfg
      OBVIOUS
  <1>2. PICK demand : demand = IF worker'.pc \in DeploySteps
                               THEN CopyDemand(SecretsToCopy[site][g]) ELSE CopyDemand({})
      OBVIOUS
  <1>3. CopyPass(site) = Copying(site)!NoPass
      BY Phases, PassNowhere
  <1>4. CopyPass(site)' = [of |-> c, demand |-> demand, phase |-> phase]
      BY <1>1, <1>2, PassAt
  <1>5. demand \in CopyDemands(site)[c]
      BY <1>2 DEF CopyDemands
  <1>6. Copying(site)!Reached(phase, demand, copies[site][c])
      BY <1>2 DEF Copying!Reached, CopyDemand
  <1>7. Copying(site)!Begin(c)
      BY <1>3, <1>4, <1>5, <1>6 DEF Copying!Begin
  <1> QED
      BY <1>7 DEF InContract, Copying!Next

\* Where copySecrets runs for a site, and what comes next.
CopiesAt(site, pc, next) ==
    \/ site = "platform" /\ pc = "copyPlatform" /\ next = "prunePlatform"
    \/ site = "target" /\ pc = "copyTarget" /\ next = "pruneTarget"

\* Where removeSecrets runs, after copySecrets or alone.
PrunesAt(site, pc, next) ==
    \/ site = "platform" /\ pc = "prunePlatform" /\ next = "source"
    \/ site = "target" /\ pc = "pruneTarget" /\ next = "release"

RemovesAt(site, pc, next) ==
    \/ site = "platform" /\ pc = "removePlatform" /\ next = "deleteAccess"
    \/ site = "target" /\ pc = "removeTarget" /\ next = "removeSources"

\* A step of copySecrets copies a secret, ends the loop or the pass.
LEMMA CopyingCopies ==
    ASSUME TypeOK, CopyGuard, NEW site \in Sites, NEW pc, NEW next,
           CopiesAt(site, pc, next), CopySecrets(site, pc, next)
    PROVE  InContract(site)
  <1>0. /\ worker.pc = pc /\ worker \in Worker /\ worker.c \in Clusters /\ worker.cfg \in Configs
        /\ copies \in [Sites -> [Clusters -> SUBSET Secrets]]
      BY DEF TypeOK, CopySecrets, CopiesAt, DeploySteps
  <1>1. PICK c, names, demand :
            /\ c = worker.c /\ c \in Clusters
            /\ names = SecretsToCopy[site][worker.cfg] /\ names \in SUBSET Secrets
            /\ demand = CopyDemand(names)
      BY <1>0, ConstantsAssumption
  <1>2. pc \in DeploySteps /\ next \in DeploySteps
      BY DEF CopiesAt, DeploySteps
  <1>3. CopyPass(site) = [of |-> c, demand |-> demand, phase |-> "copying"]
      BY <1>0, <1>1, <1>2, Phases, PassAt DEF CopiesAt
  <1>4. ASSUME NEW s \in ToCopy(site),
               copies' = [copies EXCEPT ![site][worker.c] = @ \cup {s}],
               worker' = [worker EXCEPT !.copied = @ \cup {s}]
        PROVE  InContract(site)
    <2>1. worker'.pc = pc /\ worker'.c = worker.c /\ worker'.cfg = worker.cfg
        BY <1>0, <1>4 DEF Worker
    <2>2. CopyPass(site)' = [of |-> c, demand |-> demand, phase |-> "copying"]
        BY <1>1, <1>2, <2>1, Phases, PassAt DEF CopiesAt
    <2>3. copies'[site] = [copies[site] EXCEPT ![c] = @ \cup {s}]
        BY <1>0, <1>1, <1>4
    <2>4. s \in demand.may
        BY <1>1, <1>4 DEF ToCopy, CopyDemand
    <2>5. CopyPass(site).phase = "copying" /\ CopyPass(site).of = c /\ CopyPass(site).demand = demand
        BY <1>3
    <2>6. CopyPass(site)' = CopyPass(site)
        BY <1>3, <2>2
    <2>7. copies'[site] = [copies[site] EXCEPT ![CopyPass(site).of] = @ \cup {s}]
        BY <2>3, <2>5
    <2>8. s \in CopyPass(site).demand.may
        BY <2>4, <2>5
    <2>9. Copying(site)!Copy
        BY <2>5, <2>6, <2>7, <2>8, Zenon DEF Copying!Copy
    <2> QED
        BY <2>9 DEF InContract, Copying!Next
  <1>5. CASE ToCopy(site) = {} /\ Goto(next) /\ UNCHANGED copies
    <2>1. worker'.pc = next /\ worker'.c = worker.c /\ worker'.cfg = worker.cfg
        BY <1>0, <1>5 DEF Goto, Worker
    <2>2. CopyPass(site)' = [of |-> c, demand |-> demand, phase |-> "pruning"]
        BY <1>1, <1>2, <2>1, Phases, PassAt DEF CopiesAt
    <2>3. worker.copied \subseteq copies[site][c]
        BY <1>0, <1>1 DEF CopyGuard, CopiesAt
    <2>4. Copying(site)!Reached("pruning", demand, copies[site][c])
        BY <1>1, <1>5, <2>3 DEF ToCopy, CopyDemand, Copying!Reached
    <2>5. Copying(site)!Turn
        BY <1>3, <1>5, <2>2, <2>4 DEF Copying!Turn
    <2> QED
        BY <2>5 DEF InContract, Copying!Next
  <1>6. CASE Requeue /\ UNCHANGED copies
    <2>1. worker'.pc \in Apart(site)
        BY <1>6 DEF Requeue, Idle, Apart
    <2> QED
        BY <1>6, <2>1, CopyingLeft
  <1> QED
      BY <1>4, <1>5, <1>6 DEF CopySecrets

\* A step of removeSecrets deletes a secret or ends the loop.
LEMMA CopyingPrunes ==
    ASSUME TypeOK, GuardInv, CopyGuard, NEW site \in Sites, NEW pc, NEW next,
           PrunesAt(site, pc, next) \/ RemovesAt(site, pc, next),
           RemoveSecrets(site, pc, next)
    PROVE  InContract(site)
  <1>0. /\ worker.pc = pc /\ worker \in Worker /\ worker.c \in Clusters /\ worker.cfg \in Configs
        /\ copies \in [Sites -> [Clusters -> SUBSET Secrets]]
      BY DEF TypeOK, RemoveSecrets, PrunesAt, RemovesAt, DeploySteps, CleanupSteps
  <1>1. PICK c, names, demand :
            /\ c = worker.c /\ c \in Clusters /\ names \in SUBSET Secrets
            /\ names = IF PrunesAt(site, pc, next) THEN SecretsToCopy[site][worker.cfg] ELSE {}
            /\ demand = CopyDemand(names)
    <2>1. (IF PrunesAt(site, pc, next) THEN SecretsToCopy[site][worker.cfg] ELSE {})
            \in SUBSET Secrets
        BY <1>0, ConstantsAssumption
    <2> QED
        BY <1>0, <2>1
  <1>2. /\ PrunesAt(site, pc, next) => pc \in DeploySteps /\ next \in DeploySteps
        /\ ~PrunesAt(site, pc, next) => pc \notin DeploySteps /\ next \notin DeploySteps
        /\ CopyPhase(site, pc) = "pruning" /\ CopyPhase(site, next) = "done"
      BY Phases DEF PrunesAt, RemovesAt, DeploySteps, After
  <1>3. CopyPass(site) = [of |-> c, demand |-> demand, phase |-> "pruning"]
      BY <1>0, <1>1, <1>2, PassAt
  <1>4. worker.copied = names /\ names \subseteq copies[site][c]
    <2>1. CASE PrunesAt(site, pc, next)
        BY <1>0, <1>1, <2>1 DEF CopyGuard, PrunesAt, Sites
    <2>2. CASE ~PrunesAt(site, pc, next)
      <3>1. worker.copied = {}
          BY <1>0, <2>2 DEF GuardInv, PassGuard, RemovesAt, PC, CleanupSteps
      <3> QED
          BY <1>1, <2>2, <3>1
    <2> QED
        BY <2>1, <2>2
  <1>5. ASSUME NEW s \in ToRemove(site), worker' = worker,
               copies' = [copies EXCEPT ![site][worker.c] = @ \ {s}]
        PROVE  InContract(site)
    <2>1. CopyPass(site)' = CopyPass(site)
        BY <1>5 DEF CopyPass
    <2>2. copies'[site] = [copies[site] EXCEPT ![c] = @ \ {s}]
        BY <1>0, <1>1, <1>5
    <2>3. s \in Secrets \ demand.may
        BY <1>0, <1>1, <1>4, <1>5 DEF ToRemove, CopyDemand
    <2>4. CopyPass(site).phase = "pruning" /\ CopyPass(site).of = c /\ CopyPass(site).demand = demand
        BY <1>3
    <2>5. copies'[site] = [copies[site] EXCEPT ![CopyPass(site).of] = @ \ {s}]
        BY <2>2, <2>4
    <2>6. s \in Secrets \ CopyPass(site).demand.may
        BY <2>3, <2>4
    <2>7. Copying(site)!Prune
        BY <2>1, <2>4, <2>5, <2>6, Zenon DEF Copying!Prune
    <2> QED
        BY <2>7 DEF InContract, Copying!Next
  <1>6. CASE /\ ToRemove(site) = {} /\ copies' = copies
             /\ worker' = [worker EXCEPT !.pc = next, !.copied = {}]
    <2>1. worker'.pc = next /\ worker'.c = worker.c /\ worker'.cfg = worker.cfg
        BY <1>0, <1>6 DEF Worker
    <2>2. CopyPass(site)' = [of |-> c, demand |-> demand, phase |-> "done"]
        BY <1>1, <1>2, <2>1, PassAt
    <2>3. copies[site][c] \subseteq names
        BY <1>1, <1>4, <1>6 DEF ToRemove
    <2>4. Copying(site)!Reached("done", demand, copies'[site][c])
        BY <1>1, <1>4, <1>6, <2>3 DEF CopyDemand, Copying!Reached
    <2>5. Copying(site)!Prune
        BY <1>3, <1>6, <2>2, <2>4 DEF Copying!Prune
    <2> QED
        BY <2>5 DEF InContract, Copying!Next
  <1> QED
      BY <1>5, <1>6 DEF RemoveSecrets

\* Every step keeps the contract of copying at either site.
LEMMA CopyingStep ==
    ASSUME TypeOK, GuardInv, AccessInv, CopyGuard, [Next]_vars, NEW site \in Sites
    PROVE  InContract(site)
  <1> USE DEF ProcessUnchanged, PlatformUnchanged
  <1>0. /\ worker \in Worker /\ (worker.pc # "idle" => worker.c \in Clusters)
        /\ worker.pc \in DeploySteps \cup CleanupSteps => worker.cfg \in Configs
        /\ copies \in [Sites -> [Clusters -> SUBSET Secrets]]
      BY DEF TypeOK
  <1>1. CASE UNCHANGED <<copies, worker>>
      BY <1>1, CopyingUntouched
  <1>2. ASSUME Done \/ Requeue, UNCHANGED copies
        PROVE  InContract(site)
    <2>1. worker'.pc \in Apart(site)
        BY <1>2 DEF Done, Requeue, Idle, Apart
    <2> QED
        BY <1>2, <2>1, CopyingLeft
  <1>3. ASSUME NEW pc \in Apart("platform") \cap Apart("target"), worker'.pc = pc,
               UNCHANGED copies
        PROVE  InContract(site)
    <2>1. pc \in Apart(site)
        BY DEF Sites
    <2> QED
        BY <1>3, <2>1, CopyingLeft
  <1>4. ASSUME NEW pc, Goto(pc)
        PROVE  /\ worker'.pc = pc /\ worker'.c = worker.c /\ worker'.cfg = worker.cfg
      BY <1>0, <1>4 DEF Goto, Worker
  <1> USE DEF Apart
  <1>5. CASE \/ \E c \in Clusters : GetCluster(c)
             \/ Fail \/ Crash \/ RemoveKnownCluster \/ DeployHelmRelease
    <2>1. ASSUME NEW c \in Clusters, GetCluster(c) PROVE InContract(site)
      <3>1. UNCHANGED copies /\ (worker' = worker \/ worker'.pc = "operation")
          BY <2>1 DEF GetCluster, Idle
      <3> QED
          BY <3>1, <1>1, <1>3
    <2>2. CASE Crash
        BY <2>2, <1>2 DEF Crash, Done
    <2> QED
        BY <1>2, <1>5, <2>1, <2>2 DEF Fail, RemoveKnownCluster, DeployHelmRelease
  <1>6. CASE HandleOperation
    <2>1. /\ UNCHANGED copies
          /\ \/ Done \/ Requeue \/ Goto("config")
             \/ \E new : worker' = [worker EXCEPT !.pc = "config", !.seen = new]
        BY <1>6 DEF HandleOperation, RemoveOperationAnnotation
    <2>2. Done \/ Requeue \/ worker'.pc = "config"
        BY <1>0, <1>4, <2>1 DEF Worker
    <2> QED
        BY <1>2, <1>3, <2>1, <2>2
  <1>7. CASE ReadConfig
    <2>1. /\ UNCHANGED copies
          /\ \/ Done \/ Requeue
             \/ \E pc \in {"finalizer", "undeploy"} :
                    worker' = [worker EXCEPT !.pc = pc, !.cfg = config,
                                  !.values = ValuesFor[config][worker.seen.purpose]]
        BY <1>7 DEF ReadConfig
    <2>2. Done \/ Requeue \/ worker'.pc \in {"finalizer", "undeploy"}
        BY <1>0, <2>1 DEF Worker
    <2> QED
        BY <1>2, <1>3, <2>1, <2>2
  <1>8. CASE AddFinalizer \/ AddKnownCluster \/ EnsureAccess
    <2>1. /\ UNCHANGED copies
          /\ \/ Requeue \/ \E pc \in {"known", "access", "accessRequest"} : Goto(pc)
             \/ worker' = [worker EXCEPT !.pc = "known", !.seen = cluster'[worker.c]]
        BY <1>8 DEF AddFinalizer, AddKnownCluster, EnsureAccess, ReconcileAccess
    <2>2. Requeue \/ worker'.pc \in {"known", "access", "accessRequest"}
        BY <1>0, <1>4, <2>1 DEF Worker
    <2> QED
        BY <1>2, <1>3, <2>1, <2>2
  <1>9. CASE GetAccess
    <2>1. /\ worker.pc = "accessRequest" /\ UNCHANGED copies
          /\ \/ Goto("copyPlatform")
             \/ worker' = [worker EXCEPT !.pc = "copyPlatform", !.err = TRUE]
        BY <1>9 DEF GetAccess
    <2>2. worker'.pc = "copyPlatform" /\ worker'.c = worker.c /\ worker'.cfg = worker.cfg
        BY <1>0, <1>4, <2>1 DEF Worker
    <2>3. worker.c \in Clusters /\ worker.cfg \in Configs
        BY <1>0, <2>1 DEF DeploySteps
    <2>4. CASE site = "platform"
        BY <2>1, <2>2, <2>3, <2>4, Phases, CopyingBegun
    <2>5. CASE site = "target"
        BY <2>1, <2>2, <2>5, CopyingLeft
    <2> QED
        BY <2>4, <2>5 DEF Sites
  <1>10. CASE \/ CopySecrets("platform", "copyPlatform", "prunePlatform")
              \/ RemoveSecrets("platform", "prunePlatform", "source")
    <2>1. CASE site = "platform"
        BY <1>10, <2>1, CopyingCopies, CopyingPrunes DEF CopiesAt, PrunesAt
    <2>2. CASE site = "target"
      <3>1. copies'[site] = copies[site]
          BY <1>0, <1>10, <2>2 DEF CopySecrets, RemoveSecrets
      <3>2. worker'.pc \in {"copyPlatform", "prunePlatform", "source", "idle"}
        <4>1. \/ worker' = Idle \/ worker' = worker
              \/ \E s : worker' = [worker EXCEPT !.copied = s]
              \/ \E pc \in {"prunePlatform", "source"} :
                     Goto(pc) \/ worker' = [worker EXCEPT !.pc = pc, !.copied = {}]
            BY <1>10 DEF CopySecrets, RemoveSecrets, Requeue
        <4>2. worker.pc \in {"copyPlatform", "prunePlatform"}
            BY <1>10 DEF CopySecrets, RemoveSecrets
        <4>3. CASE worker' = Idle
            BY <4>3 DEF Idle
        <4>4. ASSUME NEW s, worker' = [worker EXCEPT !.copied = s]
              PROVE  worker'.pc = worker.pc /\ worker'.c = worker.c /\ worker'.cfg = worker.cfg
            BY <1>0, <4>4 DEF Worker
        <4>5. ASSUME NEW pc \in {"prunePlatform", "source"},
                     worker' = [worker EXCEPT !.pc = pc, !.copied = {}]
              PROVE  worker'.pc = pc /\ worker'.c = worker.c /\ worker'.cfg = worker.cfg
            BY <1>0, <4>5 DEF Worker
        <4> QED
            BY <1>4, <4>1, <4>2, <4>3, <4>4, <4>5
      <3> QED
          BY <2>2, <3>1, <3>2, CopyingLeft
    <2> QED
        BY <2>1, <2>2 DEF Sites
  <1>11. CASE DeploySource \/ PruneSources
    <2>1. /\ worker.pc \in {"source", "pruneSources"} /\ UNCHANGED copies
          /\ worker' = worker \/ Goto("pruneSources") \/ Goto("namespace")
        BY <1>11 DEF DeploySource, PruneSources, DeleteSources
    <2>2. /\ worker'.pc \in {"source", "pruneSources", "namespace"}
          /\ worker'.c = worker.c /\ worker'.cfg = worker.cfg
        BY <1>4, <2>1
    <2>3. CASE site = "platform"
        BY <2>1, <2>2, <2>3, CopyingOver DEF After, DeploySteps
    <2>4. CASE site = "target"
        BY <2>1, <2>2, <2>4, CopyingLeft
    <2> QED
        BY <2>3, <2>4 DEF Sites
  <1>12. CASE EnsureTargetClusterNamespace
    <2>1. /\ worker.pc = "namespace" /\ UNCHANGED copies /\ worker'.pc = "copyTarget"
          /\ worker'.c = worker.c /\ worker'.cfg = worker.cfg
        BY <1>4, <1>12 DEF EnsureTargetClusterNamespace
    <2>2. CASE site = "platform"
        BY <2>1, <2>2, CopyingOver DEF After, DeploySteps
    <2>3. CASE site = "target"
      <3>1. worker.c \in Clusters /\ worker.cfg \in Configs
          BY <1>0, <2>1 DEF DeploySteps
      <3> QED
          BY <2>1, <2>3, <3>1, Phases, CopyingBegun
    <2> QED
        BY <2>2, <2>3 DEF Sites
  <1>13. CASE \/ CopySecrets("target", "copyTarget", "pruneTarget")
              \/ RemoveSecrets("target", "pruneTarget", "release")
    <2>1. CASE site = "target"
        BY <1>13, <2>1, CopyingCopies, CopyingPrunes DEF CopiesAt, PrunesAt
    <2>2. CASE site = "platform"
      <3>1. copies'[site] = copies[site] /\ worker.pc \in {"copyTarget", "pruneTarget"}
          BY <1>0, <1>13, <2>2 DEF CopySecrets, RemoveSecrets
      <3>2. \/ worker'.pc = "idle"
            \/ /\ worker'.pc \in {"copyTarget", "pruneTarget", "release"}
               /\ worker'.c = worker.c /\ worker'.cfg = worker.cfg
        <4>1. \/ worker' = Idle \/ worker' = worker
              \/ \E s : worker' = [worker EXCEPT !.copied = s]
              \/ \E pc \in {"pruneTarget", "release"} :
                     Goto(pc) \/ worker' = [worker EXCEPT !.pc = pc, !.copied = {}]
            BY <1>13 DEF CopySecrets, RemoveSecrets, Requeue
        <4>2. worker.pc \in {"copyTarget", "pruneTarget"}
            BY <1>13 DEF CopySecrets, RemoveSecrets
        <4>3. CASE worker' = Idle
            BY <4>3 DEF Idle
        <4>4. ASSUME NEW s, worker' = [worker EXCEPT !.copied = s]
              PROVE  worker'.pc = worker.pc /\ worker'.c = worker.c /\ worker'.cfg = worker.cfg
            BY <1>0, <4>4 DEF Worker
        <4>5. ASSUME NEW pc \in {"pruneTarget", "release"},
                     worker' = [worker EXCEPT !.pc = pc, !.copied = {}]
              PROVE  worker'.pc = pc /\ worker'.c = worker.c /\ worker'.cfg = worker.cfg
            BY <1>0, <4>5 DEF Worker
        <4> QED
            BY <1>4, <4>1, <4>2, <4>3, <4>4, <4>5
      <3> QED
          BY <2>2, <3>1, <3>2, CopyingLeft, CopyingOver DEF After, DeploySteps
    <2> QED
        BY <2>1, <2>2 DEF Sites
  <1>14. CASE HandleCreateOrUpdate
      BY <1>5, <1>8, <1>9, <1>10, <1>11, <1>12, <1>13, <1>14 DEF HandleCreateOrUpdate
  <1>15. CASE UndeployHelmRelease \/ RefreshAccess
    <2>1. /\ UNCHANGED copies
          /\ Requeue \/ Goto("refreshAccess") \/ Goto("checkAccess")
        BY <1>15 DEF UndeployHelmRelease, RefreshAccess, ReconcileAccess
    <2> QED
        BY <1>2, <1>3, <1>4, <2>1
  <1>16. CASE CheckAccess
    <2>1. /\ worker.pc = "checkAccess" /\ UNCHANGED copies /\ worker'.pc = "removeTarget"
          /\ worker'.c = worker.c /\ worker'.cfg = worker.cfg
        BY <1>4, <1>16 DEF CheckAccess, AccessUsable, AccessInv, AccessGuard
    <2>2. CASE site = "platform"
        BY <2>1, <2>2, CopyingLeft
    <2>3. CASE site = "target"
      <3>1. worker.c \in Clusters /\ worker.cfg \in Configs
          BY <1>0, <2>1 DEF CleanupSteps
      <3> QED
          BY <2>1, <2>3, <3>1, Phases, CopyingBegun DEF DeploySteps
    <2> QED
        BY <2>2, <2>3 DEF Sites
  <1>17. CASE RemoveSecrets("target", "removeTarget", "removeSources")
    <2>1. CASE site = "target"
        BY <1>17, <2>1, CopyingPrunes DEF RemovesAt
    <2>2. CASE site = "platform"
      <3>1. copies'[site] = copies[site] /\ worker'.pc \in {"removeTarget", "removeSources"}
          BY <1>0, <1>17, <2>2 DEF RemoveSecrets, Worker
      <3> QED
          BY <2>2, <3>1, CopyingLeft
    <2> QED
        BY <2>1, <2>2 DEF Sites
  <1>18. CASE UndeployHelmChartSource
    <2>1. /\ worker.pc = "removeSources" /\ UNCHANGED copies
          /\ worker' = worker \/ Goto("removePlatform")
        BY <1>18 DEF UndeployHelmChartSource, DeleteSources
    <2>2. CASE worker' # worker
      <3>1. /\ worker'.pc = "removePlatform" /\ worker'.c = worker.c
            /\ worker'.cfg = worker.cfg
          BY <1>4, <2>1, <2>2
      <3>2. worker.c \in Clusters /\ worker.cfg \in Configs
          BY <1>0, <2>1 DEF CleanupSteps
      <3>3. CASE site = "platform"
          BY <2>1, <3>1, <3>2, <3>3, Phases, CopyingBegun DEF DeploySteps
      <3>4. CASE site = "target"
          BY <2>1, <3>1, <3>4, CopyingOver DEF After, DeploySteps
      <3> QED
          BY <3>3, <3>4 DEF Sites
    <2> QED
        BY <1>1, <2>1, <2>2
  <1>19. CASE RemoveSecrets("platform", "removePlatform", "deleteAccess")
    <2>1. CASE site = "platform"
        BY <1>19, <2>1, CopyingPrunes DEF RemovesAt
    <2>2. CASE site = "target"
      <3>1. /\ copies'[site] = copies[site] /\ worker.pc = "removePlatform"
            /\ worker'.pc \in {"removePlatform", "deleteAccess"}
            /\ worker'.c = worker.c /\ worker'.cfg = worker.cfg
          BY <1>0, <1>19, <2>2 DEF RemoveSecrets, Worker
      <3> QED
          BY <2>2, <3>1, CopyingOver DEF After, DeploySteps
    <2> QED
        BY <2>1, <2>2 DEF Sites
  <1>20. CASE DeleteAccess \/ RemoveFinalizer
    <2>1. /\ UNCHANGED copies /\ worker.pc \in {"deleteAccess", "removeFinalizer"}
          /\ \/ Requeue \/ Goto("removeFinalizer")
             \/ worker' = [worker EXCEPT !.pc = "forget", !.seen = cluster'[worker.c]]
        BY <1>20 DEF DeleteAccess, RemoveFinalizer
    <2>2. \/ Requeue
          \/ /\ worker'.pc \in {"removeFinalizer", "forget"}
             /\ worker'.c = worker.c /\ worker'.cfg = worker.cfg
        BY <1>0, <1>4, <2>1 DEF Worker
    <2> QED
        BY <1>2, <2>1, <2>2, CopyingOver DEF After, DeploySteps
  <1>21. CASE HandleDelete
      BY <1>5, <1>15, <1>16, <1>17, <1>18, <1>19, <1>20, <1>21 DEF HandleDelete
  <1>22. ASSUME NEW c \in Clusters, ClusterGone(c) PROVE InContract(site)
    <2>1. copies["target"][c] = {}
        BY <1>22 DEF ClusterGone, AccessInv, NoTargetOrphans, HasFinalizer
    <2>2. copies' = copies
        BY <1>0, <1>22, <2>1 DEF ClusterGone, Sites
    <2> QED
        BY <1>1, <1>22, <2>2 DEF ClusterGone
  <1>23. ASSUME NEW c \in Clusters, Providers(c) PROVE InContract(site)
      BY <1>1, <1>23 DEF Providers, ReleaseGone, SourceGone, ProvideAccess
  <1> QED
      BY <1>1, <1>5, <1>6, <1>7, <1>14, <1>21, <1>22, <1>23
      DEF Next, Step, Users, vars, DeliverConfigEvent, Start, CreateCluster, ChangePurposes,
          Annotate, DeleteCluster, EditCluster, ChangeConfig

\* Initially there are no copies and no pass.
LEMMA CopyingInit == Init => \A site \in Sites : Copying(site)!Init
  <1> SUFFICES ASSUME Init, NEW site \in Sites PROVE Copying(site)!Init
      OBVIOUS
  <1>1. worker.pc \in Apart(site) /\ copies[site] = [c \in Clusters |-> {}]
      BY DEF Init, Idle, Apart
  <1> QED
      BY <1>1, Phases, PassNowhere DEF Copying!Init

\* The contract at a site is the one at that site.
LEMMA CopyingOnce ==
    /\ Copying("platform")!Init => PlatformCopies!Init
    /\ Copying("target")!Init => TargetCopies!Init
    /\ InContract("platform") => [PlatformCopies!Next]_<<copies["platform"], CopyPass("platform")>>
    /\ InContract("target") => [TargetCopies!Next]_<<copies["target"], CopyPass("target")>>
  <1>1. Copying("platform")!Init => PlatformCopies!Init
      BY DEF Copying!Init, PlatformCopies!Init, Copying!NoPass, PlatformCopies!NoPass,
             Copying!Nothing, PlatformCopies!Nothing
  <1>2. Copying("target")!Init => TargetCopies!Init
      BY DEF Copying!Init, TargetCopies!Init, Copying!NoPass, TargetCopies!NoPass,
             Copying!Nothing, TargetCopies!Nothing
  <1>3. InContract("platform") => [PlatformCopies!Next]_<<copies["platform"], CopyPass("platform")>>
      BY DEF InContract, Copying!Next, PlatformCopies!Next, Copying!Begin, PlatformCopies!Begin,
             Copying!Vanish, PlatformCopies!Vanish, Copying!Copy, PlatformCopies!Copy,
             Copying!Turn, PlatformCopies!Turn, Copying!Prune, PlatformCopies!Prune,
             Copying!Leave, PlatformCopies!Leave, Copying!NoPass, PlatformCopies!NoPass,
             Copying!Nothing, PlatformCopies!Nothing, Copying!Reached, PlatformCopies!Reached
  <1>4. InContract("target") => [TargetCopies!Next]_<<copies["target"], CopyPass("target")>>
      BY DEF InContract, Copying!Next, TargetCopies!Next, Copying!Begin, TargetCopies!Begin,
             Copying!Vanish, TargetCopies!Vanish, Copying!Copy, TargetCopies!Copy,
             Copying!Turn, TargetCopies!Turn, Copying!Prune, TargetCopies!Prune,
             Copying!Leave, TargetCopies!Leave, Copying!NoPass, TargetCopies!NoPass,
             Copying!Nothing, TargetCopies!Nothing, Copying!Reached, TargetCopies!Reached
  <1> QED
      BY <1>1, <1>2, <1>3, <1>4

\* The controller keeps the contract of copying at both sites when the access
\* library does not take a terminating AccessRequest for a ready one: for any
\* configurations, failures, restarts and interleavings with users and
\* providers, no copy goes before what replaces it is there, and what a pass has
\* brought in order stays so until it ends.
THEOREM CopyingKept == ~TerminatingReady => (Spec => ImplementsCopying)
  <1> SUFFICES ASSUME ~TerminatingReady PROVE Spec => ImplementsCopying
      OBVIOUS
  <1>1. Init => PlatformCopies!Init /\ TargetCopies!Init
      BY CopyingInit, CopyingOnce DEF Sites
  <1>2. TypeOK /\ GuardInv /\ AccessInv /\ CopyGuard /\ [Next]_vars
            => /\ [PlatformCopies!Next]_<<copies["platform"], CopyPass("platform")>>
               /\ [TargetCopies!Next]_<<copies["target"], CopyPass("target")>>
    <2> SUFFICES ASSUME TypeOK, GuardInv, AccessInv, CopyGuard, [Next]_vars
                 PROVE  /\ [PlatformCopies!Next]_<<copies["platform"], CopyPass("platform")>>
                        /\ [TargetCopies!Next]_<<copies["target"], CopyPass("target")>>
        OBVIOUS
    <2>1. InContract("platform") /\ InContract("target")
        BY CopyingStep DEF Sites
    <2> QED
        BY <2>1, CopyingOnce
  <1> QED
      BY <1>1, <1>2, TypeInvariant, GuardInvariant, AccessInvariant, CopyInvariant, PTL
      DEF Spec, ImplementsCopying, PlatformCopies!Spec, TargetCopies!Spec

(***************************************************************************)
(* Clusters at rest.                                                        *)
(***************************************************************************)

-----------------------------------------------------------------------------
(* What nobody is going to look at again. *)

\* Cluster c is subject to reconciliation and no request for it waits.
Fresh(c) == Exists(c) /\ ~Ignored(cluster[c]) /\ c \notin queue

\* The part of a Cluster that decides what it should have.
SameDemand(c) ==
    cluster'[c].purpose = cluster[c].purpose /\ cluster'[c].deleting = cluster[c].deleting

\* While no request for its Cluster waits, a pass works for the Cluster as it is.
PassFresh ==
    LET c == worker.c
        at(steps) == worker.pc \in steps
    IN  worker.pc # "idle" /\ Fresh(c) =>
          /\ at({"operation", "config"})
                => /\ worker.seen.purpose = cluster[c].purpose
                   /\ worker.seen.deleting = cluster[c].deleting
          /\ at(DeploySteps)
                => /\ ~cluster[c].deleting
                   /\ worker.values = ValuesFor[worker.cfg][cluster[c].purpose]
          /\ at(CleanupSteps) => ~WantedBy(worker.cfg, c)

\* An update that the watch lets through leads to a request, and one that it
\* filters changes nothing that matters.
LEMMA UpdateFresh ==
    ASSUME TypeOK, up, NEW c \in Clusters, Exists(c), NEW new \in ClusterObject,
           UpdateCluster(c, new), NEW d \in Clusters, Fresh(d)'
    PROVE  Fresh(d) /\ SameDemand(d)
  <1>1. /\ cluster \in [Clusters -> ClusterObject \cup {NoCluster}]
        /\ cluster' = [cluster EXCEPT ![c] = new]
        /\ queue \subseteq queue'
        /\ UpdatePasses(cluster[c], new) => c \in queue'
      BY DEF TypeOK, UpdateCluster, Enqueue
  <1>2. CASE d # c
      BY <1>1, <1>2 DEF Fresh, SameDemand, Exists
  <1>3. CASE d = c
    <2>1. cluster'[c] = new /\ ~Ignored(new) /\ c \notin queue'
        BY <1>1, <1>3 DEF Fresh
    <2>2. ~UpdatePasses(cluster[c], new)
        BY <1>1, <2>1
    <2>3. /\ cluster[c].purpose = new.purpose /\ cluster[c].deleting = new.deleting
          /\ ~AnnotationTrigger(cluster[c], new)
        BY <2>1, <2>2 DEF UpdatePasses
    <2>4. \A key \in AnnotationKeys : cluster[c][key] = "ignore" => new[key] = "ignore"
        BY <2>3 DEF AnnotationTrigger
    <2>5. cluster[c].op = cluster[c]["op"] /\ cluster[c].dnsOp = cluster[c]["dnsOp"]
          /\ new.op = new["op"] /\ new.dnsOp = new["dnsOp"]
        OBVIOUS
    <2>6. ~Ignored(cluster[c])
        BY <2>1, <2>4, <2>5 DEF Ignored, AnnotationKeys
    <2> QED
        BY <1>1, <1>3, <2>1, <2>3, <2>6 DEF Fresh, SameDemand
  <1> QED
      BY <1>2, <1>3

\* A Cluster for which nothing waits was like that before, with the same
\* demands, or a pass for it has just begun.
LEMMA FreshKept ==
    ASSUME TypeOK, [Next]_vars, up, up', NEW d \in Clusters, Fresh(d)'
    PROVE  GetCluster(d) \/ (Fresh(d) /\ SameDemand(d))
  <1> USE DEF ProcessUnchanged, PlatformUnchanged
  <1>0. /\ cluster \in [Clusters -> ClusterObject \cup {NoCluster}]
        /\ worker.pc # "idle" => worker.c \in Clusters
      BY DEF TypeOK
  <1> SUFFICES ASSUME ~GetCluster(d) PROVE Fresh(d) /\ SameDemand(d)
      OBVIOUS
  <1>1. CASE UNCHANGED cluster /\ (d \in queue => d \in queue')
      BY <1>1 DEF Fresh, SameDemand, Exists
  <1>2. ASSUME NEW c \in Clusters, GetCluster(c) PROVE Fresh(d) /\ SameDemand(d)
    <2>1. c # d
        BY <1>2
    <2> QED
        BY <1>1, <1>2, <2>1 DEF GetCluster
  <1>3. CASE HandleOperation
    <2>0. worker.c \in Clusters
        BY <1>0, <1>3 DEF HandleOperation
    <2>1. CASE Exists(worker.c) /\ UpdateCluster(worker.c, [cluster[worker.c] EXCEPT !.op = "none"])
      <3>1. [cluster[worker.c] EXCEPT !.op = "none"] \in ClusterObject
          BY <1>0, <2>0, <2>1 DEF Exists, ClusterObject, Operations
      <3> QED
          BY <2>0, <2>1, <3>1, UpdateFresh
    <2> QED
        BY <1>1, <1>3, <2>0, <2>1
        DEF HandleOperation, RemoveOperationAnnotation, Requeue
  <1>4. ASSUME NEW c \in Clusters, Exists(c), NEW f \in BOOLEAN,
               cluster' = [cluster EXCEPT ![c].finalizer = f],
               d \in queue => d \in queue'
        PROVE  Fresh(d) /\ SameDemand(d)
    <2>1. CASE d # c
        BY <1>0, <1>1, <1>4, <2>1 DEF Fresh, SameDemand, Exists
    <2>2. CASE d = c
      <3>1. cluster[c] \in ClusterObject
          BY <1>0, <1>4 DEF Exists
      <3>2. cluster'[c] = [cluster[c] EXCEPT !.finalizer = f]
          BY <1>0, <1>4
      <3>3. /\ cluster'[c].op = cluster[c].op /\ cluster'[c].dnsOp = cluster[c].dnsOp
            /\ SameDemand(c)
          BY <3>1, <3>2 DEF ClusterObject, SameDemand
      <3> QED
          BY <1>4, <2>2, <3>3 DEF Fresh, Ignored
    <2> QED
        BY <2>1, <2>2
  <1>5. CASE AddFinalizer
    <2>1. worker.c \in Clusters
        BY <1>0, <1>5 DEF AddFinalizer
    <2> QED
        BY <1>1, <1>4, <1>5, <2>1 DEF AddFinalizer, AcceptsFinalizer, Requeue
  <1>6. CASE RemoveFinalizer
    <2>1. worker.c \in Clusters
        BY <1>0, <1>6 DEF RemoveFinalizer
    <2> QED
        BY <1>1, <1>4, <1>6, <2>1 DEF RemoveFinalizer, Requeue
  <1>7. ASSUME NEW c \in Clusters, CreateCluster(c) PROVE Fresh(d) /\ SameDemand(d)
    <2>1. c \in queue' /\ queue \subseteq queue' /\ d # c
        BY <1>7 DEF CreateCluster, Enqueue, Fresh
    <2>2. cluster'[d] = cluster[d]
        BY <1>0, <1>7, <2>1 DEF CreateCluster
    <2> QED
        BY <2>1, <2>2 DEF Fresh, SameDemand, Exists
  <1>8. ASSUME NEW c \in Clusters, ChangePurposes(c) \/ DeleteCluster(c)
        PROVE  Fresh(d) /\ SameDemand(d)
    <2>1. Exists(c) /\ cluster[c] \in ClusterObject
        BY <1>0, <1>8 DEF ChangePurposes, DeleteCluster, Exists
    <2>2. /\ \A p \in Purposes : [cluster[c] EXCEPT !.purpose = p] \in ClusterObject
          /\ [cluster[c] EXCEPT !.deleting = TRUE] \in ClusterObject
        BY <2>1 DEF ClusterObject
    <2>3. \E new \in ClusterObject : UpdateCluster(c, new)
        BY <1>8, <2>2 DEF ChangePurposes, DeleteCluster, EditCluster
    <2> QED
        BY <2>1, <2>3, UpdateFresh
  <1>9. ASSUME NEW c \in Clusters, Annotate(c) PROVE Fresh(d) /\ SameDemand(d)
    <2>1. PICK a \in UserAnnotations :
              UpdateCluster(c, [cluster[c] EXCEPT ![a.key] = a.value])
        BY <1>9 DEF Annotate, EditCluster
    <2>2. /\ Exists(c) /\ cluster[c] \in ClusterObject
          /\ a.key \in AnnotationKeys /\ a.value \in Operations
        BY <1>0, <1>9, ConstantsAssumption DEF Annotate, Exists
    <2>3. [cluster[c] EXCEPT ![a.key] = a.value] \in ClusterObject
        BY <2>2 DEF ClusterObject, AnnotationKeys
    <2> QED
        BY <2>1, <2>2, <2>3, UpdateFresh
  <1>10. ASSUME NEW c \in Clusters, ClusterGone(c) PROVE Fresh(d) /\ SameDemand(d)
    <2>1. queue \subseteq queue' /\ cluster'[c] = NoCluster /\ d # c
        BY <1>0, <1>10 DEF ClusterGone, Enqueue, Fresh, Exists
    <2>2. cluster'[d] = cluster[d]
        BY <1>0, <1>10, <2>1 DEF ClusterGone
    <2> QED
        BY <2>1, <2>2 DEF Fresh, SameDemand, Exists
  <1> QED
      BY <1>1, <1>2, <1>3, <1>5, <1>6, <1>7, <1>8, <1>9, <1>10
      DEF Next, Step, Users, Providers, vars, ReadConfig, HandleCreateOrUpdate,
          AddKnownCluster, EnsureAccess, ReconcileAccess, GetAccess, CopySecrets,
          RemoveSecrets, DeploySource, PruneSources, DeleteSources,
          EnsureTargetClusterNamespace, DeployHelmRelease, HandleDelete,
          UndeployHelmRelease, RefreshAccess, CheckAccess, UndeployHelmChartSource,
          DeleteAccess, RemoveKnownCluster, Requeue, Done, Fail, DeliverConfigEvent, Start,
          Crash, ChangeConfig, ReleaseGone, SourceGone, ProvideAccess

-----------------------------------------------------------------------------
(* What happens to a Cluster that the pass does not work on. *)

\* Only providers touch a Cluster that the pass does not work on: they finish
\* what is terminating, grant a pending access, and nothing else.
LEMMA Untouched ==
    ASSUME TypeOK, [Next]_vars, NEW d \in Clusters, worker.c # d, Exists(d)'
    PROVE  /\ \A site \in Sites : copies'[site][d] = copies[site][d]
           /\ d \in namespace => d \in namespace'
           /\ release'[d] \in {release[d], NoRelease}
           /\ \A k \in SourceKinds : source'[d][k] = "live" => source[d][k] = "live"
           /\ access[d] \in {"granted", "absent"} => access'[d] = access[d]
  <1> DEFINE Kept == /\ \A site \in Sites : copies'[site][d] = copies[site][d]
                     /\ d \in namespace => d \in namespace'
                     /\ release'[d] \in {release[d], NoRelease}
                     /\ \A k \in SourceKinds : source'[d][k] = "live" => source[d][k] = "live"
                     /\ access[d] \in {"granted", "absent"} => access'[d] = access[d]
  <1> SUFFICES Kept
      OBVIOUS
  <1> USE DEF ProcessUnchanged, PlatformUnchanged
  <1>0. /\ cluster \in [Clusters -> ClusterObject \cup {NoCluster}]
        /\ release \in [Clusters -> Release]
        /\ source \in [Clusters -> [SourceKinds -> Status]]
        /\ access \in [Clusters -> AccessStatus]
        /\ copies \in [Sites -> [Clusters -> SUBSET Secrets]]
        /\ worker.pc # "idle" => worker.c \in Clusters
      BY DEF TypeOK
  <1>1. CASE UNCHANGED <<release, source, access, copies, namespace>>
      BY <1>1
  <1>2. ASSUME NEW next, ReconcileAccess(next), UNCHANGED <<release, source, copies, namespace>>
        PROVE  Kept
    <2>1. access'[d] = access[d]
        BY <1>0, <1>2 DEF ReconcileAccess
    <2> QED
        BY <1>2, <2>1
  <1>3. ASSUME NEW site \in Sites, NEW pc, NEW next,
               CopySecrets(site, pc, next) \/ RemoveSecrets(site, pc, next)
        PROVE  Kept
    <2>1. \A other \in Sites : copies'[other][d] = copies[other][d]
        BY <1>0, <1>3 DEF CopySecrets, RemoveSecrets
    <2>2. UNCHANGED <<release, source, access, namespace>>
        BY <1>3 DEF CopySecrets, RemoveSecrets
    <2> QED
        BY <2>1, <2>2
  <1>4. ASSUME NEW pc, NEW obsolete, NEW next, DeleteSources(pc, obsolete, next)
        PROVE  Kept
      BY <1>0, <1>4 DEF DeleteSources
  <1>5. CASE DeploySource
    <2>1. source'[d] = source[d]
        BY <1>0, <1>5 DEF DeploySource
    <2> QED
        BY <1>5, <2>1 DEF DeploySource
  <1>6. CASE EnsureTargetClusterNamespace
      BY <1>6 DEF EnsureTargetClusterNamespace
  <1>7. CASE DeployHelmRelease \/ UndeployHelmRelease
    <2>1. release'[d] = release[d]
        BY <1>0, <1>7 DEF DeployHelmRelease, UndeployHelmRelease
    <2> QED
        BY <1>7, <2>1 DEF DeployHelmRelease, UndeployHelmRelease
  <1>8. CASE DeleteAccess
    <2>1. access'[d] = access[d]
        BY <1>0, <1>8 DEF DeleteAccess
    <2> QED
        BY <1>8, <2>1 DEF DeleteAccess
  <1>9. ASSUME NEW c \in Clusters, ClusterGone(c) PROVE Kept
    <2>1. c # d
        BY <1>0, <1>9 DEF ClusterGone, Exists
    <2>2. \A site \in Sites : copies'[site][d] = copies[site][d]
        BY <1>0, <1>9, <2>1 DEF ClusterGone, Sites
    <2> QED
        BY <1>9, <2>1, <2>2 DEF ClusterGone
  <1>10. ASSUME NEW c \in Clusters, Providers(c) PROVE Kept
    <2>1. CASE ReleaseGone(c)
      <3>1. release'[d] \in {release[d], NoRelease}
          BY <1>0, <2>1 DEF ReleaseGone
      <3> QED
          BY <2>1, <3>1 DEF ReleaseGone
    <2>2. CASE SourceGone(c)
      <3>1. \A k \in SourceKinds : source'[d][k] = "live" => source[d][k] = "live"
          BY <1>0, <2>2 DEF SourceGone
      <3> QED
          BY <2>2, <3>1 DEF SourceGone
    <2>3. CASE ProvideAccess(c)
      <3>1. access[d] \in {"granted", "absent"} => access'[d] = access[d]
          BY <1>0, <2>3 DEF ProvideAccess
      <3> QED
          BY <2>3, <3>1 DEF ProvideAccess
    <2> QED
        BY <1>10, <2>1, <2>2, <2>3 DEF Providers
  <1> QED
      BY <1>1, <1>2, <1>3, <1>4, <1>5, <1>6, <1>7, <1>8, <1>9, <1>10
      DEF Next, Step, Users, vars, GetCluster, HandleOperation, ReadConfig,
          HandleCreateOrUpdate, AddFinalizer, AddKnownCluster, EnsureAccess, GetAccess,
          PruneSources, HandleDelete, RefreshAccess, CheckAccess, UndeployHelmChartSource,
          RemoveFinalizer, RemoveKnownCluster, Sites, Fail, DeliverConfigEvent, Start, Crash,
          CreateCluster, ChangePurposes, Annotate, DeleteCluster, EditCluster, ChangeConfig

\* So its resources keep agreeing with a configuration, as long as its demands
\* are the same.
LEMMA AgreementKept ==
    ASSUME TypeOK, [Next]_vars, NEW d \in Clusters, worker.c # d, Exists(d), Exists(d)',
           SameDemand(d), NEW g \in Configs, AgreesWith(g, d)
    PROVE  AgreesWith(g, d)'
  <1>1. /\ \A site \in Sites : copies'[site][d] = copies[site][d]
        /\ d \in namespace => d \in namespace'
        /\ release'[d] \in {release[d], NoRelease}
        /\ \A k \in SourceKinds : source'[d][k] = "live" => source[d][k] = "live"
        /\ access[d] \in {"granted", "absent"} => access'[d] = access[d]
      BY Untouched
  <1>2. HasFinalizer(d)' = HasFinalizer(d)
    <2>1. CASE AddFinalizer \/ RemoveFinalizer
      <3>1. cluster'[d] = cluster[d]
          BY <2>1 DEF AddFinalizer, RemoveFinalizer, TypeOK
      <3> QED
          BY <3>1 DEF HasFinalizer, Exists
    <2> QED
        BY <2>1, FinalizerSame
  <1>3. WantedBy(g, d)' = WantedBy(g, d)
      BY DEF WantedBy, Selected, SameDemand
  <1>4. ASSUME DeployedFor(g, d) PROVE DeployedFor(g, d)'
      BY <1>1, <1>2, <1>4 DEF DeployedFor, SameDemand, NoRelease
  <1>5. ASSUME CleanedUp(d) PROVE CleanedUp(d)'
      BY <1>1, <1>2, <1>5 DEF CleanedUp, HasResources, NoRelease, Sites
  <1> QED
      BY <1>3, <1>4, <1>5 DEF AgreesWith

-----------------------------------------------------------------------------
(* A pass works for the Cluster as it is. *)

\* A pass deploys or cleans up with one configuration and its values; where it
\* begins to, it has just read them.
LEMMA PassGoesOn ==
    ASSUME TypeOK, [Next]_vars, worker'.pc \in DeploySteps \cup CleanupSteps
    PROVE  \/ /\ worker'.c = worker.c /\ worker'.cfg = worker.cfg
              /\ worker'.values = worker.values
              /\ worker'.pc \in DeploySteps => worker.pc \in DeploySteps
              /\ worker'.pc \in CleanupSteps => worker.pc \in CleanupSteps
           \/ /\ worker.pc = "config" /\ worker'.c = worker.c /\ UNCHANGED cluster
              /\ config \in Configs /\ config' = config /\ worker'.cfg = config
              /\ worker'.values = ValuesFor[config][worker.seen.purpose]
              /\ worker'.pc \in DeploySteps
                    => /\ worker'.pc = "finalizer"
                       /\ ~worker.seen.deleting /\ Selected(config, worker.seen)
              /\ worker'.pc \in CleanupSteps
                    => worker.seen.deleting \/ ~Selected(config, worker.seen)
  <1> DEFINE GoesOn == /\ worker'.c = worker.c /\ worker'.cfg = worker.cfg
                       /\ worker'.values = worker.values
                       /\ worker'.pc \in DeploySteps => worker.pc \in DeploySteps
                       /\ worker'.pc \in CleanupSteps => worker.pc \in CleanupSteps
  <1> USE DEF ProcessUnchanged, PlatformUnchanged
  <1>0. worker \in Worker
      BY DEF TypeOK
  <1>1. CASE worker' = worker
      BY <1>1
  <1>2. worker' # Idle
      BY DEF Idle, DeploySteps, CleanupSteps
  <1>3. ASSUME NEW pc,
               \/ pc \in DeploySteps /\ worker.pc \in DeploySteps
               \/ pc \in CleanupSteps /\ worker.pc \in CleanupSteps,
               \/ worker' = [worker EXCEPT !.pc = pc]
               \/ worker' = [worker EXCEPT !.pc = pc, !.copied = {}]
               \/ worker' = [worker EXCEPT !.pc = pc, !.err = TRUE]
               \/ \E seen : worker' = [worker EXCEPT !.pc = pc, !.seen = seen]
        PROVE  GoesOn
    <2>1. worker'.pc = pc /\ worker'.c = worker.c /\ worker'.cfg = worker.cfg
            /\ worker'.values = worker.values
        BY <1>0, <1>3 DEF Worker
    <2> QED
        BY <1>3, <2>1 DEF DeploySteps, CleanupSteps
  <1>4. ASSUME NEW c \in Clusters, GetCluster(c) PROVE GoesOn
    <2>1. worker' = worker \/ worker'.pc = "operation"
        BY <1>4 DEF GetCluster, Idle
    <2> QED
        BY <1>1, <2>1 DEF DeploySteps, CleanupSteps
  <1>5. CASE HandleOperation
    <2>1. ASSUME NEW seen,
                 \/ worker' = [worker EXCEPT !.pc = "config"]
                 \/ worker' = [worker EXCEPT !.pc = "config", !.seen = seen]
          PROVE  worker'.pc = "config"
        BY <1>0, <2>1 DEF Worker
    <2> QED
        BY <1>2, <1>5, <2>1
        DEF HandleOperation, RemoveOperationAnnotation, Goto, Done, Requeue, DeploySteps,
            CleanupSteps
  <1>6. CASE ReadConfig
    <2>1. ASSUME NEW pc \in {"finalizer", "undeploy"},
                 worker' = [worker EXCEPT !.pc = pc, !.cfg = config,
                               !.values = ValuesFor[config][worker.seen.purpose]]
          PROVE  /\ worker'.pc = pc /\ worker'.c = worker.c /\ worker'.cfg = config
                 /\ worker'.values = ValuesFor[config][worker.seen.purpose]
        BY <1>0, <2>1 DEF Worker
    <2>2. config # NoConfig => config \in Configs
        BY DEF TypeOK
    <2> QED
        BY <1>2, <1>6, <2>1, <2>2 DEF ReadConfig, Done, Requeue, DeploySteps, CleanupSteps
  <1>7. ASSUME NEW site \in Sites, NEW pc, NEW next,
               \/ pc \in DeploySteps /\ next \in DeploySteps
               \/ pc \in CleanupSteps /\ next \in CleanupSteps,
               CopySecrets(site, pc, next) \/ RemoveSecrets(site, pc, next)
        PROVE  GoesOn
    <2>1. ASSUME NEW s, worker' = [worker EXCEPT !.copied = @ \cup {s}] PROVE GoesOn
        BY <1>0, <2>1 DEF Worker
    <2>2. CASE Goto(next)
        BY <1>3, <1>7, <2>2 DEF CopySecrets, RemoveSecrets, Goto
    <2>3. CASE worker' = [worker EXCEPT !.pc = next, !.copied = {}]
        BY <1>3, <1>7, <2>3 DEF CopySecrets, RemoveSecrets
    <2>4. CASE CopySecrets(site, pc, next)
        BY <1>2, <2>1, <2>2, <2>4 DEF CopySecrets, Requeue
    <2>5. CASE RemoveSecrets(site, pc, next)
        BY <1>1, <2>3, <2>5 DEF RemoveSecrets
    <2> QED
        BY <1>7, <2>4, <2>5
  <1>8. ASSUME NEW pc, NEW obsolete, NEW next,
               \/ pc \in DeploySteps /\ next \in DeploySteps
               \/ pc \in CleanupSteps /\ next \in CleanupSteps,
               DeleteSources(pc, obsolete, next)
        PROVE  GoesOn
      BY <1>1, <1>3, <1>8 DEF DeleteSources, Goto
  <1>9. CASE HandleCreateOrUpdate
    <2>1. CASE \/ AddFinalizer \/ AddKnownCluster \/ EnsureAccess \/ GetAccess
               \/ DeploySource \/ EnsureTargetClusterNamespace \/ DeployHelmRelease
        BY <1>2, <1>3, <2>1
        DEF AddFinalizer, AddKnownCluster, EnsureAccess, ReconcileAccess, GetAccess,
            DeploySource, EnsureTargetClusterNamespace, DeployHelmRelease, Goto, Done, Requeue,
            DeploySteps
    <2> QED
        BY <1>7, <1>8, <1>9, <2>1 DEF HandleCreateOrUpdate, PruneSources, Sites, DeploySteps
  <1>10. CASE HandleDelete
    <2>1. CASE \/ UndeployHelmRelease \/ RefreshAccess \/ CheckAccess \/ DeleteAccess
               \/ RemoveFinalizer \/ RemoveKnownCluster
        BY <1>2, <1>3, <2>1
        DEF UndeployHelmRelease, RefreshAccess, ReconcileAccess, CheckAccess, DeleteAccess,
            RemoveFinalizer, RemoveKnownCluster, Goto, Done, Requeue, CleanupSteps
    <2> QED
        BY <1>7, <1>8, <1>10, <2>1
        DEF HandleDelete, UndeployHelmChartSource, Sites, CleanupSteps
  <1> QED
      BY <1>1, <1>2, <1>4, <1>5, <1>6, <1>9, <1>10
      DEF Next, Step, Users, Providers, vars, Fail, Requeue, DeliverConfigEvent, Start, Crash,
          CreateCluster, ChangePurposes, Annotate, DeleteCluster, EditCluster, ChangeConfig,
          ReleaseGone, SourceGone, ProvideAccess, ClusterGone

\* Before that it has the Cluster as it was read, or as its patch returned it.
LEMMA PassBegins ==
    ASSUME TypeOK, [Next]_vars, worker'.pc \in {"operation", "config"}
    PROVE  \/ worker'.c \in Clusters /\ worker'.seen = cluster'[worker'.c]
           \/ /\ worker.pc \in {"operation", "config"}
              /\ worker'.c = worker.c /\ worker'.seen = worker.seen
  <1> USE DEF ProcessUnchanged, PlatformUnchanged
  <1>0. /\ worker \in Worker
        /\ worker.pc # "idle" => worker.c \in Clusters
        /\ cluster \in [Clusters -> ClusterObject \cup {NoCluster}]
      BY DEF TypeOK
  <1>1. CASE worker' = worker
      BY <1>1
  <1>2. CASE worker' = Idle
      BY <1>2 DEF Idle
  <1>3. ASSUME NEW c \in Clusters, GetCluster(c)
        PROVE  worker' = worker \/ (worker'.c = c /\ worker'.seen = cluster'[c])
      BY <1>3 DEF GetCluster, Idle
  <1>4. CASE HandleOperation
    <2>1. CASE Goto("config")
        BY <1>0, <1>4, <2>1 DEF HandleOperation, Goto, Worker
    <2>2. CASE worker' = [worker EXCEPT !.pc = "config",
                                        !.seen = [cluster[worker.c] EXCEPT !.op = "none"]]
               /\ UpdateCluster(worker.c, [cluster[worker.c] EXCEPT !.op = "none"])
      <3>1. worker.c \in Clusters
          BY <1>0, <1>4 DEF HandleOperation
      <3>2. cluster'[worker.c] = [cluster[worker.c] EXCEPT !.op = "none"]
          BY <1>0, <2>2, <3>1 DEF UpdateCluster
      <3>3. worker'.c = worker.c /\ worker'.seen = [cluster[worker.c] EXCEPT !.op = "none"]
          BY <1>0, <2>2 DEF Worker
      <3> QED
          BY <3>1, <3>2, <3>3
    <2> QED
        BY <1>2, <1>4, <2>1, <2>2 DEF HandleOperation, RemoveOperationAnnotation, Done, Requeue
  <1>5. CASE ReadConfig
    <2>1. \/ worker' = Idle
          \/ \E pc \in {"finalizer", "undeploy"} :
                 worker' = [worker EXCEPT !.pc = pc, !.cfg = config,
                               !.values = ValuesFor[config][worker.seen.purpose]]
        BY <1>5 DEF ReadConfig, Done, Requeue
    <2>2. ASSUME NEW pc \in {"finalizer", "undeploy"},
                 worker' = [worker EXCEPT !.pc = pc, !.cfg = config,
                               !.values = ValuesFor[config][worker.seen.purpose]]
          PROVE  worker'.pc = pc
        BY <1>0, <2>2 DEF Worker
    <2> QED
        BY <1>2, <2>1, <2>2
  <1>6. CASE HandleCreateOrUpdate \/ HandleDelete
    <2>1. ASSUME NEW pc, pc \notin {"operation", "config"},
                 \/ worker' = [worker EXCEPT !.pc = pc]
                 \/ worker' = [worker EXCEPT !.pc = pc, !.copied = {}]
                 \/ worker' = [worker EXCEPT !.pc = pc, !.err = TRUE]
                 \/ \E seen : worker' = [worker EXCEPT !.pc = pc, !.seen = seen]
          PROVE  FALSE
      <3>1. worker'.pc = pc
          BY <1>0, <2>1 DEF Worker
      <3> QED
          BY <2>1, <3>1
    <2>2. ASSUME NEW s, worker.pc \notin {"operation", "config"},
                 worker' = [worker EXCEPT !.copied = @ \cup {s}]
          PROVE  FALSE
      <3>1. worker'.pc = worker.pc
          BY <1>0, <2>2 DEF Worker
      <3> QED
          BY <2>2, <3>1
    <2>3. CASE AddFinalizer
      <3>1. CASE worker' = Idle
          BY <1>2, <3>1
      <3>2. CASE worker' = [worker EXCEPT !.pc = "known"]
        <4>1. worker'.pc = "known"
            BY <1>0, <3>2 DEF Worker
        <4> QED
            BY <4>1
      <3>3. CASE worker' = [worker EXCEPT !.pc = "known", !.seen = cluster'[worker.c]]
        <4>1. worker'.pc = "known"
            BY <1>0, <3>3 DEF Worker
        <4> QED
            BY <4>1
      <3>4. \/ worker' = Idle
            \/ worker' = [worker EXCEPT !.pc = "known"]
            \/ worker' = [worker EXCEPT !.pc = "known", !.seen = cluster'[worker.c]]
          BY <2>3 DEF AddFinalizer, Goto, Requeue
      <3> QED
          BY <3>1, <3>2, <3>3, <3>4
    <2>4. CASE AddKnownCluster
      <3>1. worker' = [worker EXCEPT !.pc = "access"]
          BY <2>4 DEF AddKnownCluster, Goto
      <3>2. worker'.pc = "access"
          BY <1>0, <3>1 DEF Worker
      <3> QED
          BY <3>2
    <2>5. CASE EnsureAccess \/ GetAccess
        BY <1>1, <1>2, <2>1, <2>5
        DEF EnsureAccess, ReconcileAccess, GetAccess, Goto, Done, Requeue
    <2>6. CASE \/ CopySecrets("platform", "copyPlatform", "prunePlatform")
               \/ CopySecrets("target", "copyTarget", "pruneTarget")
        BY <1>1, <1>2, <2>1, <2>2, <2>6 DEF CopySecrets, Goto, Done, Requeue
    <2>7. CASE \/ RemoveSecrets("platform", "prunePlatform", "source")
               \/ RemoveSecrets("target", "pruneTarget", "release")
               \/ RemoveSecrets("target", "removeTarget", "removeSources")
               \/ RemoveSecrets("platform", "removePlatform", "deleteAccess")
        BY <1>1, <1>2, <2>1, <2>2, <2>7 DEF RemoveSecrets, Goto, Done, Requeue
    <2>8. CASE DeploySource \/ PruneSources \/ EnsureTargetClusterNamespace \/ DeployHelmRelease
        BY <1>1, <1>2, <2>1, <2>2, <2>8
        DEF DeploySource, PruneSources, DeleteSources, EnsureTargetClusterNamespace,
            DeployHelmRelease, Goto, Done, Requeue
    <2>9. CASE UndeployHelmRelease \/ RefreshAccess \/ CheckAccess \/ UndeployHelmChartSource
        BY <1>1, <1>2, <2>1, <2>2, <2>9
        DEF UndeployHelmRelease, RefreshAccess, CheckAccess, ReconcileAccess,
            UndeployHelmChartSource, DeleteSources, Goto, Done, Requeue
    <2>10. CASE DeleteAccess \/ RemoveKnownCluster
        BY <1>1, <1>2, <2>1, <2>10 DEF DeleteAccess, RemoveKnownCluster, Goto, Done, Requeue
    <2>11. CASE RemoveFinalizer
      <3>1. \/ worker' = Idle
            \/ worker' = [worker EXCEPT !.pc = "forget", !.seen = cluster'[worker.c]]
          BY <2>11 DEF RemoveFinalizer, Requeue
      <3>2. worker' = Idle \/ worker'.pc = "forget"
          BY <1>0, <3>1 DEF Worker
      <3> QED
          BY <1>2, <3>2
    <2> QED
        BY <1>6, <2>3, <2>4, <2>5, <2>6, <2>7, <2>8, <2>9, <2>10, <2>11
        DEF HandleCreateOrUpdate, HandleDelete
  <1> QED
      BY <1>1, <1>2, <1>3, <1>4, <1>5, <1>6
      DEF Next, Step, Users, Providers, vars, Fail, Requeue, DeliverConfigEvent, Start, Crash,
          CreateCluster, ChangePurposes, Annotate, DeleteCluster, EditCluster, ChangeConfig,
          ReleaseGone, SourceGone, ProvideAccess, ClusterGone


\* Initially no pass is running.
LEMMA PassFreshInit == Init => PassFresh
  BY DEF Init, PassFresh, Idle

\* Every step keeps PassFresh.
LEMMA PassFreshStep == TypeOK /\ GuardInv /\ PassFresh /\ [Next]_vars => PassFresh'
  <1> SUFFICES ASSUME TypeOK, GuardInv, PassFresh, [Next]_vars,
                      worker'.pc # "idle", Fresh(worker.c)'
               PROVE  /\ worker'.pc \in {"operation", "config"}
                            => /\ worker'.seen.purpose = cluster'[worker'.c].purpose
                               /\ worker'.seen.deleting = cluster'[worker'.c].deleting
                      /\ worker'.pc \in DeploySteps
                            => /\ ~cluster'[worker'.c].deleting
                               /\ worker'.values
                                     = ValuesFor[worker'.cfg][cluster'[worker'.c].purpose]
                      /\ worker'.pc \in CleanupSteps
                            => ~(/\ ~cluster'[worker'.c].deleting
                                 /\ Selected(worker'.cfg, cluster'[worker'.c]))
      BY DEF PassFresh, Fresh, Exists, WantedBy, Selected
  <1>1. worker'.c \in Clusters /\ up'
      BY TypeStep, GuardStep DEF TypeOK, GuardInv, PassGuard
  <1>2. ASSUME worker.pc # "idle", worker'.c = worker.c
        PROVE  Fresh(worker.c) /\ SameDemand(worker.c)
    <2>1. up /\ ~GetCluster(worker.c)
        BY <1>2 DEF GuardInv, PassGuard, GetCluster
    <2>2. ASSUME NEW d, d = worker.c, Fresh(worker.c)' PROVE Fresh(d)'
        BY <1>2, <2>2 DEF Fresh, Exists
    <2> QED
        BY <1>1, <1>2, <2>1, <2>2, FreshKept
  <1>3. CASE worker'.pc \in {"operation", "config"}
    <2>1. \/ worker'.seen = cluster'[worker'.c]
          \/ /\ worker.pc \in {"operation", "config"}
             /\ worker'.c = worker.c /\ worker'.seen = worker.seen
        BY <1>3, PassBegins
    <2> QED
        BY <1>2, <1>3, <2>1 DEF PassFresh, SameDemand, DeploySteps, CleanupSteps
  <1>4. CASE worker'.pc \in DeploySteps \cup CleanupSteps
    <2>1. CASE /\ worker'.c = worker.c /\ worker'.cfg = worker.cfg
               /\ worker'.values = worker.values
               /\ worker'.pc \in DeploySteps => worker.pc \in DeploySteps
               /\ worker'.pc \in CleanupSteps => worker.pc \in CleanupSteps
      <3>1. worker.pc # "idle"
          BY <1>4, <2>1 DEF DeploySteps, CleanupSteps
      <3> QED
          BY <1>2, <1>4, <2>1, <3>1
          DEF PassFresh, SameDemand, WantedBy, Selected, DeploySteps, CleanupSteps
    <2>2. CASE /\ worker.pc = "config" /\ worker'.c = worker.c /\ UNCHANGED cluster
               /\ worker'.cfg = config
               /\ worker'.values = ValuesFor[config][worker.seen.purpose]
               /\ worker'.pc \in DeploySteps => ~worker.seen.deleting
               /\ worker'.pc \in CleanupSteps
                     => worker.seen.deleting \/ ~Selected(config, worker.seen)
        BY <1>2, <1>4, <2>2 DEF PassFresh, SameDemand, Selected, DeploySteps, CleanupSteps
    <2> QED
        BY <1>4, <2>1, <2>2, PassGoesOn
  <1> QED
      BY <1>1, <1>3, <1>4, TypeStep DEF TypeOK, Worker, PC

-----------------------------------------------------------------------------
(* How a Cluster comes to rest. *)

\* A pass ends for one of these reasons.
LEMMA PassEnds ==
    ASSUME TypeOK, [Next]_vars, worker.pc # "idle", worker'.c # worker.c
    PROVE  \/ Requeue \/ Crash \/ DeployHelmRelease \/ RemoveKnownCluster
           \/ HandleOperation /\ EffectiveOperation(worker.seen) = "ignore" /\ UNCHANGED cluster
           \/ /\ ReadConfig /\ config # NoConfig /\ ~worker.seen.finalizer
              /\ worker.seen.deleting \/ ~Selected(config, worker.seen)
              /\ known' = known \ {worker.c}
  <1> USE DEF ProcessUnchanged, PlatformUnchanged
  <1>0. worker \in Worker
      BY DEF TypeOK
  <1>1. worker' # worker
      OBVIOUS
  <1>2. ASSUME NEW pc, NEW copied, NEW seen, NEW cfg, NEW values,
               \/ worker' = [worker EXCEPT !.pc = pc]
               \/ worker' = [worker EXCEPT !.copied = copied]
               \/ worker' = [worker EXCEPT !.pc = pc, !.copied = copied]
               \/ worker' = [worker EXCEPT !.pc = pc, !.err = TRUE]
               \/ worker' = [worker EXCEPT !.pc = pc, !.seen = seen]
               \/ worker' = [worker EXCEPT !.pc = pc, !.cfg = cfg, !.values = values]
        PROVE  FALSE
    <2>1. worker'.c = worker.c
        BY <1>0, <1>2 DEF Worker
    <2> QED
        BY <2>1
  <1>3. ASSUME NEW site, NEW pc, NEW next, CopySecrets(site, pc, next), ~Requeue PROVE FALSE
      BY <1>2, <1>3 DEF CopySecrets, Goto
  <1>4. ASSUME NEW site, NEW pc, NEW next, RemoveSecrets(site, pc, next) PROVE FALSE
      BY <1>1, <1>2, <1>4 DEF RemoveSecrets
  <1>5. ASSUME NEW pc, NEW obsolete, NEW next, DeleteSources(pc, obsolete, next) PROVE FALSE
      BY <1>1, <1>2, <1>5 DEF DeleteSources, Goto
  <1>6. CASE HandleOperation
    <2>1. UNCHANGED cluster \/ \E new : worker' = [worker EXCEPT !.pc = "config", !.seen = new]
        BY <1>6 DEF HandleOperation, RemoveOperationAnnotation
    <2> QED
        BY <1>2, <1>6, <2>1 DEF HandleOperation, RemoveOperationAnnotation, Goto
  <1>7. CASE ReadConfig
    <2>1. ~\E pc : worker' = [worker EXCEPT !.pc = pc, !.cfg = config,
                                  !.values = ValuesFor[config][worker.seen.purpose]]
        BY <1>2
    <2> QED
        BY <1>7, <2>1 DEF ReadConfig
  <1>8. CASE HandleCreateOrUpdate
      BY <1>2, <1>3, <1>4, <1>5, <1>8
      DEF HandleCreateOrUpdate, AddFinalizer, AddKnownCluster, EnsureAccess, ReconcileAccess,
          GetAccess, DeploySource, PruneSources, EnsureTargetClusterNamespace, Goto
  <1>9. CASE HandleDelete
      BY <1>2, <1>4, <1>5, <1>9
      DEF HandleDelete, UndeployHelmRelease, RefreshAccess, ReconcileAccess, CheckAccess,
          UndeployHelmChartSource, DeleteAccess, RemoveFinalizer, Goto
  <1> QED
      BY <1>1, <1>6, <1>7, <1>8, <1>9
      DEF Next, Step, Users, Providers, vars, GetCluster, Fail, DeliverConfigEvent, Start,
          CreateCluster, ChangePurposes, Annotate, DeleteCluster, EditCluster, ChangeConfig,
          ReleaseGone, SourceGone, ProvideAccess, ClusterGone

\* A Cluster for which nothing waits and that no pass works on was at rest
\* before, or the last step of a pass left it as its configuration asks for.
LEMMA ComesToRest ==
    ASSUME TypeOK, GuardInv, AccessInv, CopyGuard, PassFresh, [Next]_vars, up',
           NEW c \in Clusters, Fresh(c)', worker'.c # c
    PROVE  \/ up /\ Fresh(c) /\ SameDemand(c) /\ worker.c # c
           \/ /\ worker.c = c /\ up /\ Fresh(c)
              /\ UNCHANGED <<cluster, config, configEvent, queue>>
              /\ \E g \in Configs :
                    \/ /\ DeployHelmRelease /\ g = worker.cfg
                       /\ WantedBy(g, c)' /\ DeployedFor(g, c)'
                    \/ /\ RemoveKnownCluster /\ g = worker.cfg
                       /\ ~WantedBy(g, c)' /\ CleanedUp(c)'
                    \/ /\ ReadConfig /\ g = config /\ known' = known \ {c}
                       /\ ~WantedBy(g, c)' /\ CleanedUp(c)'
  <1> DEFINE AtRest(g) == \/ /\ DeployHelmRelease /\ g = worker.cfg
                             /\ WantedBy(g, c)' /\ DeployedFor(g, c)'
                          \/ /\ RemoveKnownCluster /\ g = worker.cfg
                             /\ ~WantedBy(g, c)' /\ CleanedUp(c)'
                          \/ /\ ReadConfig /\ g = config /\ known' = known \ {c}
                             /\ ~WantedBy(g, c)' /\ CleanedUp(c)'
  <1>1. up
    <2>1. ASSUME ~up PROVE FALSE
      <3>1. Start
          BY <2>1
          DEF Next, Step, Users, Providers, vars, GetCluster, HandleOperation, ReadConfig,
              HandleCreateOrUpdate, AddFinalizer, AddKnownCluster, EnsureAccess, GetAccess,
              CopySecrets, RemoveSecrets, DeploySource, PruneSources, DeleteSources,
              EnsureTargetClusterNamespace, DeployHelmRelease, HandleDelete,
              UndeployHelmRelease, RefreshAccess, CheckAccess, UndeployHelmChartSource,
              DeleteAccess, RemoveFinalizer, RemoveKnownCluster, Fail, DeliverConfigEvent,
              Crash, CreateCluster, ChangePurposes, Annotate, DeleteCluster, EditCluster,
              ChangeConfig, ReleaseGone, SourceGone, ProvideAccess, ClusterGone,
              ProcessUnchanged
      <3> QED
          BY <3>1 DEF Start, Listed, Fresh, Exists
    <2> QED
        BY <2>1
  <1>2. CASE worker.c # c
    <2>1. ~GetCluster(c)
        BY DEF GetCluster, Fresh, Exists, Idle
    <2> QED
        BY <1>1, <1>2, <2>1, FreshKept
  <1>3. CASE worker.c = c
    <2>1. worker.pc # "idle" /\ worker.seen \in ClusterObject
        BY <1>3, SentinelsAssumption DEF TypeOK, Idle
    <2>2. Fresh(c)
        BY <1>1, <2>1, FreshKept DEF GetCluster
    <2>3. ~Requeue /\ ~Crash
        BY <1>3 DEF Requeue, Crash, Fresh
    <2>4. ASSUME ~HasFinalizer(c), UNCHANGED <<cluster, release, source, access, copies>>
          PROVE  CleanedUp(c)'
        BY <2>4
        DEF GuardInv, FinalizerGuard, AccessInv, NoTargetOrphans, CleanedUp, HasResources,
            HasFinalizer, Exists
    <2>5. CASE DeployHelmRelease
      <3>1. /\ worker.pc = "release" /\ worker.cfg \in Configs /\ worker.values \in Values
            /\ HasFinalizer(c) /\ access[c] = "granted" /\ c \in namespace
            /\ \A site \in Sites : copies[site][c] = SecretsToCopy[site][worker.cfg]
          BY <1>3, <2>5
          DEF DeployHelmRelease, TypeOK, DeploySteps, GuardInv, PassGuard, AccessInv,
              AccessGuard, CopyGuard, Sites
      <3>2. ~cluster[c].deleting /\ worker.values = ValuesFor[worker.cfg][cluster[c].purpose]
          BY <1>3, <2>1, <2>2, <3>1 DEF PassFresh, DeploySteps
      <3>3. release'[c].cfg = worker.cfg /\ release'[c].values = worker.values
          BY <1>3, <2>5 DEF DeployHelmRelease, TypeOK
      <3>4. UNCHANGED <<cluster, config, access, copies, namespace, queue, configEvent>>
          BY <2>5 DEF DeployHelmRelease, ProcessUnchanged
      <3>5. ASSUME NEW g \in Configs, g = worker.cfg
            PROVE  WantedBy(g, c)' /\ DeployedFor(g, c)'
        <4>1. WantedBy(g, c)'
            BY <3>1, <3>2, <3>4, <3>5, SentinelsAssumption DEF WantedBy, Selected
        <4>2. DeployedFor(g, c)'
            BY <3>1, <3>2, <3>3, <3>4, <3>5 DEF DeployedFor, HasFinalizer, Exists
        <4> QED
            BY <4>1, <4>2
      <3>6. \E g \in Configs : AtRest(g)
          BY <2>5, <3>1, <3>5
      <3> QED
          BY <1>1, <1>3, <2>2, <3>4, <3>6
    <2>6. CASE RemoveKnownCluster
      <3>1. worker.pc = "forget" /\ worker.cfg \in Configs /\ ~HasFinalizer(c)
          BY <1>3, <2>6
          DEF RemoveKnownCluster, TypeOK, CleanupSteps, GuardInv, PassGuard
      <3>2. ~WantedBy(worker.cfg, c)
          BY <1>3, <2>1, <2>2, <3>1 DEF PassFresh, CleanupSteps
      <3>3. UNCHANGED <<cluster, config, release, source, access, copies, queue, configEvent>>
          BY <2>6 DEF RemoveKnownCluster
      <3>4. ASSUME NEW g \in Configs, g = worker.cfg PROVE ~WantedBy(g, c)'
          BY <3>2, <3>3, <3>4 DEF WantedBy, Selected
      <3>5. \E g \in Configs : AtRest(g)
          BY <2>4, <2>6, <3>1, <3>3, <3>4
      <3> QED
          BY <1>1, <1>3, <2>2, <3>3, <3>5
    <2>7. CASE /\ ReadConfig /\ config # NoConfig /\ ~worker.seen.finalizer
               /\ worker.seen.deleting \/ ~Selected(config, worker.seen)
               /\ known' = known \ {worker.c}
      <3>1. /\ worker.pc = "config" /\ config \in Configs /\ ~HasFinalizer(c)
            /\ queue' = queue
            /\ UNCHANGED <<cluster, config, release, source, access, copies, configEvent>>
          BY <1>3, <2>7 DEF ReadConfig, TypeOK, GuardInv, PassGuard
      <3>2. ~WantedBy(config, c)
          BY <1>3, <2>1, <2>2, <2>7, <3>1 DEF PassFresh, WantedBy, Selected
      <3>3. ASSUME NEW g \in Configs, g = config PROVE ~WantedBy(g, c)'
          BY <3>1, <3>2, <3>3 DEF WantedBy, Selected
      <3>4. \E g \in Configs : AtRest(g)
          BY <1>3, <2>4, <2>7, <3>1, <3>3
      <3> QED
          BY <1>1, <1>3, <2>2, <3>1, <3>4
    <2>8. CASE HandleOperation /\ EffectiveOperation(worker.seen) = "ignore" /\ UNCHANGED cluster
      <3>1. worker.pc = "operation" /\ Ignored(worker.seen)
          BY <2>8 DEF HandleOperation, EffectiveOperation, Ignored
      <3> QED
          BY <1>3, <2>2, <3>1 DEF GuardInv, PassGuard, Fresh
    <2> QED
        BY <1>3, <2>1, <2>3, <2>5, <2>6, <2>7, <2>8, PassEnds
  <1> QED
      BY <1>2, <1>3

-----------------------------------------------------------------------------
(* Clusters at rest. *)

RestInv == PassFresh /\ WholeConfiguration

\* Every step keeps RestInv.
LEMMA RestStep ==
    TypeOK /\ GuardInv /\ AccessInv /\ CopyGuard /\ RestInv /\ [Next]_vars => RestInv'
  <1> SUFFICES ASSUME TypeOK, GuardInv, AccessInv, CopyGuard, RestInv, [Next]_vars
               PROVE  WholeConfiguration'
      BY PassFreshStep DEF RestInv
  <1> SUFFICES ASSUME NEW c \in Clusters, up', Fresh(c)', worker'.c # c
               PROVE  \E g \in Configs : AgreesWith(g, c)'
      BY DEF WholeConfiguration, Fresh, Exists, AgreesWith, WantedBy, Selected,
             DeployedFor, CleanedUp, HasResources, HasFinalizer
  <1>1. CASE up /\ Fresh(c) /\ SameDemand(c) /\ worker.c # c
    <2>1. PICK g \in Configs : AgreesWith(g, c)
        BY <1>1 DEF RestInv, WholeConfiguration, Fresh
    <2> QED
        BY <1>1, <2>1, AgreementKept DEF Fresh, Exists
  <1>2. ASSUME NEW g \in Configs,
               \/ WantedBy(g, c)' /\ DeployedFor(g, c)'
               \/ ~WantedBy(g, c)' /\ CleanedUp(c)'
        PROVE  AgreesWith(g, c)'
      BY <1>2 DEF AgreesWith
  <1> QED
      BY <1>1, <1>2, ComesToRest DEF RestInv

\* A Cluster at rest has what one configuration asks for, as a whole, for what
\* the Cluster is now: passes may fail, be cut off by a crash or see the
\* configuration change at any step, and leave no mixture without a request.
THEOREM WholeConfigurationInvariant == ~TerminatingReady => (Spec => []WholeConfiguration)
  <1> SUFFICES ASSUME ~TerminatingReady PROVE Spec => []WholeConfiguration
      OBVIOUS
  <1>1. Init => RestInv
      BY PassFreshInit DEF Init, RestInv, WholeConfiguration
  <1>2. TypeOK /\ GuardInv /\ AccessInv /\ CopyGuard /\ RestInv /\ [Next]_vars => RestInv'
      BY RestStep
  <1>3. RestInv => WholeConfiguration
      BY DEF RestInv
  <1> QED
      BY <1>1, <1>2, <1>3, TypeInvariant, GuardInvariant, AccessInvariant, CopyInvariant, PTL
      DEF Spec


-----------------------------------------------------------------------------
(* The configuration that is current. *)

\* With only one configuration ever in use, it is the one of every pass and of
\* every Cluster at rest.
RestOf(g) ==
    /\ worker.pc \in DeploySteps \cup CleanupSteps => worker.cfg = g
    /\ \A c \in Clusters : up /\ Fresh(c) /\ worker.c # c => AgreesWith(g, c)

LEMMA RestOfStep ==
    ASSUME NEW g \in Configs, TypeOK, GuardInv, AccessInv, CopyGuard, PassFresh,
           RestOf(g), config \in {g, NoConfig}, [Next]_vars
    PROVE  RestOf(g)'
  <1>1. ASSUME worker'.pc \in DeploySteps \cup CleanupSteps PROVE worker'.cfg = g
      BY <1>1, PassGoesOn, SentinelsAssumption DEF RestOf
  <1>2. ASSUME NEW c \in Clusters, up', Fresh(c)', worker'.c # c PROVE AgreesWith(g, c)'
    <2>1. CASE up /\ Fresh(c) /\ SameDemand(c) /\ worker.c # c
      <3>1. AgreesWith(g, c)
          BY <2>1 DEF RestOf
      <3> QED
          BY <1>2, <2>1, <3>1, AgreementKept DEF Fresh, Exists
    <2>2. ASSUME NEW h \in Configs,
                 \/ /\ DeployHelmRelease /\ h = worker.cfg
                    /\ WantedBy(h, c)' /\ DeployedFor(h, c)'
                 \/ /\ RemoveKnownCluster /\ h = worker.cfg
                    /\ ~WantedBy(h, c)' /\ CleanedUp(c)'
                 \/ ReadConfig /\ h = config /\ ~WantedBy(h, c)' /\ CleanedUp(c)'
          PROVE  AgreesWith(g, c)'
      <3>1. h = g
          BY <2>2, SentinelsAssumption
          DEF RestOf, DeployHelmRelease, RemoveKnownCluster, DeploySteps, CleanupSteps
      <3> QED
          BY <2>2, <3>1 DEF AgreesWith
    <2> QED
        BY <1>2, <2>1, <2>2, ComesToRest
  <1> QED
      BY <1>1, <1>2 DEF RestOf, Fresh, Exists, AgreesWith, WantedBy, Selected,
                        DeployedFor, CleanedUp, HasResources, HasFinalizer

\* When the content of the configuration does not change, even if it is deleted
\* and created again, every Cluster at rest agrees with it.
THEOREM ConvergedInvariant ==
    ~TerminatingReady
        => \A g \in Configs : Spec /\ [](config \in {g, NoConfig}) => []Converged
  <1> SUFFICES ASSUME ~TerminatingReady, NEW g \in Configs
               PROVE  Spec /\ [](config \in {g, NoConfig}) => []Converged
      OBVIOUS
  <1>1. Init => PassFresh /\ RestOf(g)
      BY PassFreshInit DEF Init, RestOf, Idle, DeploySteps, CleanupSteps
  <1>2. TypeOK /\ GuardInv /\ PassFresh /\ [Next]_vars => PassFresh'
      BY PassFreshStep
  <1>3. TypeOK /\ GuardInv /\ AccessInv /\ CopyGuard /\ PassFresh /\ RestOf(g)
        /\ config \in {g, NoConfig} /\ [Next]_vars => RestOf(g)'
      BY RestOfStep
  <1>4. RestOf(g) /\ config \in {g, NoConfig} => Converged
      BY DEF RestOf, Converged, Settled, Quiescent, Fresh
  <1> QED
      BY <1>1, <1>2, <1>3, <1>4, TypeInvariant, GuardInvariant, AccessInvariant,
         CopyInvariant, PTL
      DEF Spec

-----------------------------------------------------------------------------
(* The generic reconcile annotation. *)

\* A generic reconcile annotation that counts waits in the queue, or in the
\* pass that is about to remove it.
AnnotationPending ==
    \A c \in Clusters :
        /\ up /\ Exists(c) /\ cluster[c].op = "reconcile" /\ cluster[c].dnsOp # "ignore"
        => \/ c \in queue
           \/ /\ worker.c = c /\ worker.pc = "operation"
              /\ worker.seen.op = "reconcile" /\ worker.seen.dnsOp # "ignore"

\* An edit that sets it, or that uncovers it, leads to a request.
LEMMA UpdateAnnotation ==
    ASSUME TypeOK, up, NEW c \in Clusters, Exists(c), NEW new \in ClusterObject,
           UpdateCluster(c, new), NEW d \in Clusters, d \notin queue',
           cluster'[d].op = "reconcile", cluster'[d].dnsOp # "ignore"
    PROVE  d \notin queue /\ cluster[d].op = "reconcile" /\ cluster[d].dnsOp # "ignore"
  <1>1. /\ cluster \in [Clusters -> ClusterObject \cup {NoCluster}]
        /\ cluster' = [cluster EXCEPT ![c] = new]
        /\ queue \subseteq queue'
        /\ UpdatePasses(cluster[c], new) => c \in queue'
      BY DEF TypeOK, UpdateCluster, Enqueue
  <1>2. CASE d # c
      BY <1>1, <1>2
  <1>3. CASE d = c
    <2>1. cluster'[c] = new /\ ~Ignored(new)
        BY <1>1, <1>3 DEF Ignored
    <2>2. ~AnnotationTrigger(cluster[c], new)
        BY <1>1, <1>3, <2>1 DEF UpdatePasses
    <2>3. \A key \in AnnotationKeys :
              cluster[c][key] = new[key] \/ (new[key] # "reconcile" /\ cluster[c][key] # "ignore")
        BY <2>2 DEF AnnotationTrigger
    <2>4. cluster[c].op = cluster[c]["op"] /\ cluster[c].dnsOp = cluster[c]["dnsOp"]
          /\ new.op = new["op"] /\ new.dnsOp = new["dnsOp"]
        OBVIOUS
    <2> QED
        BY <1>1, <1>3, <2>1, <2>3, <2>4 DEF AnnotationKeys
  <1> QED
      BY <1>2, <1>3

LEMMA AnnotationStep ==
    TypeOK /\ GuardInv /\ AnnotationPending /\ [Next]_vars => AnnotationPending'
  <1> SUFFICES ASSUME TypeOK, GuardInv, AnnotationPending, [Next]_vars, NEW d \in Clusters,
                      up', Exists(d)', cluster'[d].op = "reconcile",
                      cluster'[d].dnsOp # "ignore", d \notin queue'
               PROVE  /\ worker'.c = d /\ worker'.pc = "operation"
                      /\ worker'.seen.op = "reconcile" /\ worker'.seen.dnsOp # "ignore"
      BY DEF AnnotationPending, Exists
  <1> DEFINE Was == /\ up /\ Exists(d) /\ d \notin queue /\ cluster[d].op = "reconcile"
                    /\ cluster[d].dnsOp # "ignore"
             Pending == /\ worker'.c = d /\ worker'.pc = "operation"
                        /\ worker'.seen.op = "reconcile" /\ worker'.seen.dnsOp # "ignore"
  <1> USE DEF ProcessUnchanged, PlatformUnchanged
  <1>0. /\ cluster \in [Clusters -> ClusterObject \cup {NoCluster}]
        /\ worker.pc # "idle" => up /\ worker.c \in Clusters
      BY DEF TypeOK, GuardInv, PassGuard
  <1>1. Was => /\ worker.c = d /\ worker.pc = "operation"
               /\ worker.seen.op = "reconcile" /\ worker.seen.dnsOp # "ignore"
      BY DEF AnnotationPending
  <1>2. CASE Was /\ worker' = worker
      BY <1>1, <1>2
  <1>3. ASSUME NEW c \in Clusters, GetCluster(c) PROVE Pending
    <2>1. c = d
        BY <1>1, <1>3 DEF GetCluster, Exists
    <2> QED
        BY <1>3, <2>1 DEF GetCluster, Exists, Idle
  <1>4. CASE HandleOperation
    <2>0. worker.c \in Clusters /\ up
        BY <1>0, <1>4 DEF HandleOperation
    <2>1. CASE Exists(worker.c) /\ UpdateCluster(worker.c, [cluster[worker.c] EXCEPT !.op = "none"])
      <3>1. [cluster[worker.c] EXCEPT !.op = "none"] \in ClusterObject
          BY <1>0, <2>0, <2>1 DEF Exists, ClusterObject, Operations
      <3>2. Was
          BY <1>0, <2>0, <2>1, <3>1, UpdateAnnotation DEF Exists, UpdateCluster
      <3>3. cluster'[worker.c].op = "none"
          BY <1>0, <2>0, <2>1, <3>1 DEF UpdateCluster, Exists, ClusterObject
      <3> QED
          BY <1>1, <3>2, <3>3
    <2>2. CASE UNCHANGED cluster /\ queue \subseteq queue'
      <3>1. Was
          BY <2>0, <2>2 DEF Exists
      <3>2. worker.seen.dnsOp \in Operations
          BY <1>4 DEF HandleOperation, TypeOK, ClusterObject
      <3>3. EffectiveOperation(worker.seen) = "reconcile"
          BY <1>1, <3>1, <3>2 DEF EffectiveOperation, Operations
      <3>4. RemoveOperationAnnotation(worker.c)
          BY <1>4, <3>3 DEF HandleOperation
      <3> QED
          BY <1>1, <2>1, <3>1, <3>4 DEF RemoveOperationAnnotation
    <2> QED
        BY <1>4, <2>1, <2>2 DEF HandleOperation, RemoveOperationAnnotation, Requeue
  <1>5. ASSUME Was, worker.pc # "operation" PROVE FALSE
      BY <1>1, <1>5
  <1>6. ASSUME NEW c \in Clusters, Exists(c), NEW f \in BOOLEAN, up,
               cluster' = [cluster EXCEPT ![c].finalizer = f], queue' = queue
        PROVE  Was
    <2>1. cluster[c] \in ClusterObject
        BY <1>0, <1>6 DEF Exists
    <2>2. /\ cluster'[d].op = cluster[d].op /\ cluster'[d].dnsOp = cluster[d].dnsOp
          /\ Exists(d)
        BY <1>0, <1>6, <2>1 DEF ClusterObject, Exists
    <2> QED
        BY <1>6, <2>2
  <1>7. CASE AddFinalizer \/ RemoveFinalizer
    <2>1. worker.c \in Clusters /\ up /\ worker.pc # "operation"
        BY <1>0, <1>7 DEF AddFinalizer, RemoveFinalizer
    <2>2. CASE UNCHANGED cluster /\ queue \subseteq queue'
        BY <1>5, <2>1, <2>2 DEF Exists
    <2> QED
        BY <1>5, <1>6, <1>7, <2>1, <2>2
        DEF AddFinalizer, AcceptsFinalizer, RemoveFinalizer, Requeue
  <1>8. ASSUME UNCHANGED cluster, queue \subseteq queue', up = up',
               worker.pc # "operation" \/ worker' = worker
        PROVE  Pending
    <2>1. Was
        BY <1>8 DEF Exists
    <2> QED
        BY <1>2, <1>5, <1>8, <2>1
  <1>9. CASE Fail
    <2>1. Was
        BY <1>9, <1>0 DEF Fail, Requeue, Exists
    <2> QED
        BY <1>1, <1>9, <2>1 DEF Fail, Requeue
  <1>10. CASE Start
      BY <1>10 DEF Start, Listed, Exists, Ignored
  <1>11. ASSUME NEW c \in Clusters, CreateCluster(c) PROVE Pending
    <2>1. d # c
        BY <1>0, <1>11 DEF CreateCluster, NewCluster
    <2>2. cluster'[d] = cluster[d] /\ queue \subseteq queue' /\ worker' = worker /\ up' = up
        BY <1>0, <1>11, <2>1 DEF CreateCluster, Enqueue
    <2> QED
        BY <1>2, <2>2 DEF Exists
  <1>12. ASSUME NEW c \in Clusters, ClusterGone(c) PROVE Pending
    <2>1. cluster'[d] = cluster[d] /\ queue \subseteq queue' /\ worker' = worker /\ up' = up
        BY <1>0, <1>12 DEF ClusterGone, Enqueue, Exists
    <2> QED
        BY <1>2, <2>1 DEF Exists
  <1>13. ASSUME NEW c \in Clusters, Exists(c), NEW new \in ClusterObject, UpdateCluster(c, new),
                worker' = worker, up' = up
         PROVE  Pending
    <2>1. /\ d \notin queue /\ cluster[d].op = "reconcile" /\ cluster[d].dnsOp # "ignore"
        BY <1>13, UpdateAnnotation
    <2>2. Exists(d)
        BY <1>0, <1>13 DEF UpdateCluster, Exists
    <2> QED
        BY <1>2, <1>13, <2>1, <2>2
  <1>14. ASSUME NEW c \in Clusters, ChangePurposes(c) \/ DeleteCluster(c) PROVE Pending
    <2>1. Exists(c) /\ cluster[c] \in ClusterObject
        BY <1>0, <1>14 DEF ChangePurposes, DeleteCluster, Exists
    <2>2. /\ \A p \in Purposes : [cluster[c] EXCEPT !.purpose = p] \in ClusterObject
          /\ [cluster[c] EXCEPT !.deleting = TRUE] \in ClusterObject
        BY <2>1 DEF ClusterObject
    <2>3. \E new \in ClusterObject : UpdateCluster(c, new)
        BY <1>14, <2>2 DEF ChangePurposes, DeleteCluster, EditCluster
    <2>4. worker' = worker /\ up' = up
        BY <1>14 DEF ChangePurposes, DeleteCluster, EditCluster
    <2> QED
        BY <1>13, <2>1, <2>3, <2>4
  <1>15. ASSUME NEW c \in Clusters, Annotate(c) PROVE Pending
    <2>1. PICK a \in UserAnnotations :
              UpdateCluster(c, [cluster[c] EXCEPT ![a.key] = a.value])
        BY <1>15 DEF Annotate, EditCluster
    <2>2. /\ Exists(c) /\ cluster[c] \in ClusterObject
          /\ a.key \in AnnotationKeys /\ a.value \in Operations
        BY <1>0, <1>15, ConstantsAssumption DEF Annotate, Exists
    <2>3. [cluster[c] EXCEPT ![a.key] = a.value] \in ClusterObject
        BY <2>2 DEF ClusterObject, AnnotationKeys
    <2>4. worker' = worker /\ up' = up
        BY <1>15 DEF Annotate, EditCluster
    <2> QED
        BY <1>13, <2>1, <2>2, <2>3, <2>4
  <1> QED
      BY <1>3, <1>4, <1>7, <1>8, <1>9, <1>10, <1>11, <1>12, <1>14, <1>15
      DEF Next, Step, Users, Providers, vars, ReadConfig, HandleCreateOrUpdate,
          AddKnownCluster, EnsureAccess, ReconcileAccess, GetAccess, CopySecrets,
          RemoveSecrets, DeploySource, PruneSources, DeleteSources,
          EnsureTargetClusterNamespace, DeployHelmRelease, HandleDelete,
          UndeployHelmRelease, RefreshAccess, CheckAccess, UndeployHelmChartSource,
          DeleteAccess, RemoveKnownCluster, Requeue, DeliverConfigEvent, Crash, ChangeConfig,
          ReleaseGone, SourceGone, ProvideAccess

\* The generic reconcile annotation is a one-shot request: it is gone when its
\* Cluster comes to rest, whatever edits, failures and restarts came between.
THEOREM GenericConsumedInvariant == Spec => []GenericConsumed
  <1>1. Init => AnnotationPending
      BY DEF Init, AnnotationPending
  <1>2. TypeOK /\ GuardInv /\ AnnotationPending /\ [Next]_vars => AnnotationPending'
      BY AnnotationStep
  <1>3. AnnotationPending => GenericConsumed
      BY DEF AnnotationPending, GenericConsumed, Quiescent
  <1> QED
      BY <1>1, <1>2, <1>3, TypeInvariant, GuardInvariant, PTL DEF Spec


-----------------------------------------------------------------------------
(* Known Clusters and the current configuration. *)

\* When no event misses a pass, one that deploys with an obsolete configuration
\* does not get beyond its request for access, and what a known Cluster has at
\* rest is current.
CurrentInv ==
    /\ worker.pc \in DeploySteps /\ worker.c \notin queue /\ ~configEvent /\ worker.cfg # config
          => /\ worker.pc \in {"finalizer", "known", "access"}
             /\ access[worker.c] = "absent"
    /\ \A c \in Clusters :
          /\ up /\ ~configEvent /\ c \in known /\ Fresh(c) /\ worker.c # c
          /\ config # NoConfig
          => WantedBy(config, c) /\ DeployedFor(config, c)

\* The finalizer was added, but the answer to the patch is lost, and with it
\* the entry in KnownClusters.
FinalizerAnswerLost == worker.pc = "known" /\ Fail

\* Without that and without a restart, access has been requested only for known
\* Clusters, and only known Clusters have the finalizer.
RegisteredInv ==
    /\ \A c \in Clusters : c \notin known => access[c] = "absent"
    /\ \A c \in Clusters :
          HasFinalizer(c) => c \in known \/ (worker.c = c /\ worker.pc = "known")

\* A Cluster is forgotten only when nothing of it is left.
LEMMA Forgets ==
    ASSUME TypeOK, GuardInv, [Next]_vars, ~Crash, NEW c \in Clusters, c \in known, c \notin known'
    PROVE  ~HasFinalizer(c) /\ UNCHANGED <<cluster, access>>
  <1>1. ASSUME NEW d \in Clusters, GetCluster(d) PROVE ~HasFinalizer(c) /\ UNCHANGED <<cluster, access>>
      BY <1>1 DEF GetCluster, HasFinalizer
  <1>2. CASE ReadConfig
    <2>1. known' = known \ {worker.c} /\ ~worker.seen.finalizer /\ worker.pc = "config"
        BY <1>2 DEF ReadConfig
    <2> QED
        BY <1>2, <2>1 DEF ReadConfig, GuardInv, PassGuard
  <1>3. CASE RemoveKnownCluster
      BY <1>3 DEF RemoveKnownCluster, GuardInv, PassGuard
  <1> QED
      BY <1>1, <1>2, <1>3
      DEF Next, Step, Users, Providers, vars, HandleOperation, HandleCreateOrUpdate,
          AddFinalizer, AddKnownCluster, EnsureAccess, GetAccess, CopySecrets,
          RemoveSecrets, DeploySource, PruneSources, DeleteSources,
          EnsureTargetClusterNamespace, DeployHelmRelease, HandleDelete,
          UndeployHelmRelease, RefreshAccess, CheckAccess, UndeployHelmChartSource,
          DeleteAccess, RemoveFinalizer, Fail, DeliverConfigEvent, Start, CreateCluster,
          ChangePurposes, Annotate, DeleteCluster, EditCluster, ChangeConfig, ReleaseGone,
          SourceGone, ProvideAccess, ClusterGone, ProcessUnchanged, PlatformUnchanged

\* Access is requested only by a pass, for its Cluster.
LEMMA AccessRequested ==
    ASSUME TypeOK, [Next]_vars, NEW c \in Clusters, access[c] = "absent", access'[c] # "absent"
    PROVE  worker.c = c /\ (EnsureAccess \/ RefreshAccess)
  <1> USE DEF ProcessUnchanged, PlatformUnchanged
  <1>0. access \in [Clusters -> AccessStatus]
      BY DEF TypeOK
  <1>1. access' # access
      OBVIOUS
  <1>2. ASSUME NEW next, ReconcileAccess(next) PROVE worker.c = c
      BY <1>0, <1>2 DEF ReconcileAccess
  <1>3. ASSUME NEW d \in Clusters, ProvideAccess(d) PROVE FALSE
      BY <1>0, <1>3 DEF ProvideAccess
  <1>4. CASE DeleteAccess
      BY <1>0, <1>4 DEF DeleteAccess, DeleteOutcomes
  <1> QED
      BY <1>1, <1>2, <1>3, <1>4
      DEF Next, Step, Users, Providers, vars, GetCluster, HandleOperation, ReadConfig,
          HandleCreateOrUpdate, AddFinalizer, AddKnownCluster, EnsureAccess, GetAccess,
          CopySecrets, RemoveSecrets, DeploySource, PruneSources, DeleteSources,
          EnsureTargetClusterNamespace, DeployHelmRelease, HandleDelete,
          UndeployHelmRelease, RefreshAccess, CheckAccess, UndeployHelmChartSource,
          RemoveFinalizer, RemoveKnownCluster, Fail, DeliverConfigEvent, Start, Crash,
          CreateCluster, ChangePurposes, Annotate, DeleteCluster, EditCluster, ChangeConfig,
          ReleaseGone, SourceGone, ClusterGone

\* The first steps of a pass that deploys.
LEMMA FirstSteps ==
    ASSUME TypeOK, [Next]_vars, ~Crash, worker.pc \in {"finalizer", "known", "access"}
    PROVE  worker' = worker \/ AddFinalizer \/ AddKnownCluster \/ EnsureAccess \/ Fail
  BY DEF Next, Step, Users, Providers, vars, GetCluster, HandleOperation, ReadConfig,
         HandleCreateOrUpdate, GetAccess, CopySecrets, RemoveSecrets, DeploySource,
         PruneSources, DeleteSources, EnsureTargetClusterNamespace, DeployHelmRelease,
         HandleDelete, UndeployHelmRelease, RefreshAccess, CheckAccess,
         UndeployHelmChartSource, DeleteAccess, RemoveFinalizer, RemoveKnownCluster,
         DeliverConfigEvent, Start, CreateCluster, ChangePurposes, Annotate, DeleteCluster,
         EditCluster, ChangeConfig, ReleaseGone, SourceGone, ProvideAccess, ClusterGone

\* While a pass runs, the configuration changes with an event, the event ends
\* with a request for every known Cluster, and no request disappears.
LEMMA EventsOfPass ==
    ASSUME TypeOK, GuardInv, [Next]_vars, ~Crash, up
    PROVE  /\ config' = config \/ configEvent'
           /\ configEvent => configEvent' \/ DeliverConfigEvent
           /\ worker.pc # "idle" => queue \subseteq queue'
  <1> USE DEF ProcessUnchanged, PlatformUnchanged
  <1>1. ASSUME config' # config PROVE configEvent'
    <2>1. ChangeConfig
        BY <1>1
        DEF Next, Step, Users, Providers, vars, GetCluster, HandleOperation, ReadConfig,
            HandleCreateOrUpdate, AddFinalizer, AddKnownCluster, EnsureAccess, GetAccess,
            CopySecrets, RemoveSecrets, DeploySource, PruneSources, DeleteSources,
            EnsureTargetClusterNamespace, DeployHelmRelease, HandleDelete,
            UndeployHelmRelease, RefreshAccess, CheckAccess, UndeployHelmChartSource,
            DeleteAccess, RemoveFinalizer, RemoveKnownCluster, Fail, DeliverConfigEvent,
            Start, CreateCluster, ChangePurposes, Annotate, DeleteCluster, EditCluster,
            ReleaseGone, SourceGone, ProvideAccess, ClusterGone
    <2> QED
        BY <2>1 DEF ChangeConfig
  <1>2. ASSUME configEvent, ~configEvent' PROVE DeliverConfigEvent
      BY <1>2
      DEF Next, Step, Users, Providers, vars, GetCluster, HandleOperation, ReadConfig,
          HandleCreateOrUpdate, AddFinalizer, AddKnownCluster, EnsureAccess, GetAccess,
          CopySecrets, RemoveSecrets, DeploySource, PruneSources, DeleteSources,
          EnsureTargetClusterNamespace, DeployHelmRelease, HandleDelete,
          UndeployHelmRelease, RefreshAccess, CheckAccess, UndeployHelmChartSource,
          DeleteAccess, RemoveFinalizer, RemoveKnownCluster, Fail, Start, CreateCluster,
          ChangePurposes, Annotate, DeleteCluster, EditCluster, ChangeConfig, ReleaseGone,
          SourceGone, ProvideAccess, ClusterGone
  <1>3. ASSUME worker.pc # "idle" PROVE queue \subseteq queue'
    <2>1. CASE HandleOperation
        BY <2>1 DEF HandleOperation, RemoveOperationAnnotation, UpdateCluster, Enqueue, Requeue
    <2>2. CASE HandleCreateOrUpdate \/ HandleDelete \/ ReadConfig
        BY <2>2
        DEF ReadConfig, HandleCreateOrUpdate, AddFinalizer, AddKnownCluster, EnsureAccess,
            ReconcileAccess, GetAccess, CopySecrets, RemoveSecrets, DeploySource,
            PruneSources, DeleteSources, EnsureTargetClusterNamespace, DeployHelmRelease,
            HandleDelete, UndeployHelmRelease, RefreshAccess, CheckAccess,
            UndeployHelmChartSource, DeleteAccess, RemoveFinalizer, RemoveKnownCluster, Requeue
    <2>3. CASE Users \/ \E c \in Clusters : Providers(c) \/ ClusterGone(c)
        BY <2>3
        DEF Users, Providers, CreateCluster, ChangePurposes, Annotate, DeleteCluster,
            EditCluster, UpdateCluster, Enqueue, ChangeConfig, ReleaseGone, SourceGone,
            ProvideAccess, ClusterGone
    <2> QED
        BY <1>3, <2>1, <2>2, <2>3
        DEF Next, Step, vars, GetCluster, Fail, Requeue, DeliverConfigEvent, Start
  <1> QED
      BY <1>1, <1>2, <1>3

\* While the process lives and learns of the finalizers it adds, every step
\* keeps RegisteredInv.
LEMMA RegisteredStep ==
    ASSUME TypeOK, GuardInv, RegisteredInv, [Next]_vars, ~Crash, ~FinalizerAnswerLost
    PROVE  RegisteredInv'
  <1> USE DEF ProcessUnchanged
  <1>0. /\ worker.pc # "idle" => up /\ worker.c \in Clusters
        /\ worker \in Worker
      BY DEF TypeOK, GuardInv, PassGuard
  \* Access only for known Clusters.
  <1>1. ASSUME NEW c \in Clusters, c \notin known' PROVE access'[c] = "absent"
    <2>1. CASE c \in known
      <3>1. ~HasFinalizer(c) /\ access' = access
          BY <1>1, <2>1, Forgets
      <3> QED
          BY <3>1 DEF GuardInv, FinalizerGuard, HasResources
    <2>2. CASE c \notin known
      <3>1. access[c] = "absent"
          BY <2>2 DEF RegisteredInv
      <3>2. ASSUME worker.c = c, EnsureAccess PROVE FALSE
          BY <2>2, <3>2 DEF EnsureAccess, GuardInv, PassGuard, DeploySteps
      <3>3. ASSUME worker.c = c, RefreshAccess PROVE FALSE
        <4>1. worker.pc = "refreshAccess" /\ HasFinalizer(c)
            BY <3>3 DEF RefreshAccess, GuardInv, PassGuard, CleanupSteps
        <4> QED
            BY <2>2, <4>1 DEF RegisteredInv
      <3> QED
          BY <3>1, <3>2, <3>3, AccessRequested
    <2> QED
        BY <2>1, <2>2
  \* The finalizer only on known Clusters.
  <1>2. ASSUME NEW c \in Clusters, HasFinalizer(c)'
        PROVE  c \in known' \/ (worker'.c = c /\ worker'.pc = "known")
    <2>1. CASE c \in known
      <3>1. ASSUME c \notin known' PROVE FALSE
        <4>1. ~HasFinalizer(c) /\ cluster' = cluster
            BY <2>1, <3>1, Forgets
        <4> QED
            BY <1>2, <4>1 DEF HasFinalizer, Exists
      <3> QED
          BY <3>1
    <2>2. CASE HasFinalizer(c) /\ worker.c = c /\ worker.pc = "known"
      <3>1. worker' = worker \/ AddKnownCluster \/ Fail
          BY <2>2, FirstSteps DEF AddFinalizer, EnsureAccess
      <3> QED
          BY <2>2, <3>1 DEF AddKnownCluster, FinalizerAnswerLost
    <2>3. CASE ~HasFinalizer(c)
      <3>1. CASE AddFinalizer
        <4>1. CASE UNCHANGED cluster
            BY <1>2, <2>3, <4>1 DEF HasFinalizer, Exists
        <4>2. CASE ~worker.seen.finalizer /\ AcceptsFinalizer(worker.c)
          <5>1. worker.c = c
              BY <1>2, <2>3, <3>1, <4>2, FinalizerAdded
          <5>2. worker' = [worker EXCEPT !.pc = "known", !.seen = cluster'[worker.c]]
              BY <3>1, <4>2 DEF AddFinalizer
          <5> QED
              BY <1>0, <5>1, <5>2 DEF Worker
        <4> QED
            BY <3>1, <4>1, <4>2 DEF AddFinalizer
      <3>2. CASE RemoveFinalizer
        <4>1. worker.c \in Clusters /\ worker.pc = "removeFinalizer"
            BY <1>0, <3>2 DEF RemoveFinalizer
        <4>2. CASE UNCHANGED cluster
            BY <1>2, <2>3, <4>2 DEF HasFinalizer, Exists
        <4>3. CASE Exists(worker.c) /\ cluster' = [cluster EXCEPT ![worker.c].finalizer = FALSE]
          <5>1. worker.c # c => cluster'[c] = cluster[c]
              BY <4>1, <4>3 DEF TypeOK
          <5>2. ~cluster'[worker.c].finalizer
              BY <4>1, <4>3 DEF TypeOK, Exists, ClusterObject
          <5> QED
              BY <1>2, <2>3, <5>1, <5>2 DEF HasFinalizer, Exists
        <4> QED
            BY <3>2, <4>2, <4>3 DEF RemoveFinalizer
      <3> QED
          BY <1>2, <2>3, <3>1, <3>2, FinalizerSame
    <2> QED
        BY <2>1, <2>2, <2>3 DEF RegisteredInv
  <1> QED
      BY <1>1, <1>2 DEF RegisteredInv

\* While no event misses a pass, every step of the living process or of others
\* keeps CurrentInv.
LEMMA CurrentStep ==
    ASSUME TypeOK, GuardInv, AccessInv, CopyGuard, PassFresh, CurrentInv,
           [Next]_vars, ~Crash, ~MissesPass
    PROVE  CurrentInv'
  <1> USE DEF ProcessUnchanged
  <1>0. /\ worker.pc # "idle" => up /\ worker.c \in Clusters
        /\ worker \in Worker
      BY DEF TypeOK, GuardInv, PassGuard
  \* No pass deploys with an obsolete configuration.
  <1>1. ASSUME worker'.pc \in DeploySteps, worker'.c \notin queue', ~configEvent',
               worker'.cfg # config'
        PROVE  worker'.pc \in {"finalizer", "known", "access"} /\ access'[worker'.c] = "absent"
    <2>1. /\ worker'.c = worker.c /\ worker'.cfg = worker.cfg /\ worker.pc \in DeploySteps
        BY <1>1, PassGoesOn
    <2>2. up /\ worker.pc # "idle" /\ worker.c \in Clusters
        BY <1>0, <2>1 DEF DeploySteps
    <2>3. config' = config /\ queue \subseteq queue' /\ (configEvent => DeliverConfigEvent)
        BY <1>1, <2>2, EventsOfPass
    <2>4. worker.pc \in {"finalizer", "known", "access"} /\ access[worker.c] = "absent"
      <3>1. CASE configEvent
        <4>1. DeliverConfigEvent /\ worker.c \notin queue \cup known /\ worker.cfg # config
            BY <1>1, <2>1, <2>3, <3>1 DEF DeliverConfigEvent, ListKnownClusters
        <4>2. access[worker.c] = "absent"
            BY <2>1, <4>1 DEF MissesPass
        <4> QED
            BY <2>1, <4>1, <4>2 DEF GuardInv, PassGuard, DeploySteps
      <3>2. CASE ~configEvent
          BY <1>1, <2>1, <2>3, <3>2 DEF CurrentInv
      <3> QED
          BY <3>1, <3>2
    <2>5. CASE EnsureAccess
      <3>1. \A outcome \in AccessOutcomes("absent") : ~outcome.ready
          BY DEF AccessOutcomes
      <3>2. Requeue
          BY <2>4, <2>5, <3>1 DEF EnsureAccess, ReconcileAccess
      <3>3. worker'.pc = "idle"
          BY <3>2 DEF Requeue, Idle
      <3> QED
          BY <1>1, <3>3 DEF DeploySteps
    <2>6. CASE ~EnsureAccess
      <3>1. access'[worker.c] = "absent"
          BY <2>2, <2>4, <2>6, AccessRequested DEF RefreshAccess
      <3>2. worker' = worker \/ worker'.pc \in {"known", "access", "idle"}
        <4>1. worker' = worker \/ AddFinalizer \/ AddKnownCluster \/ Fail
            BY <2>4, <2>6, FirstSteps
        <4>2. ASSUME NEW pc, NEW seen,
                     \/ worker' = [worker EXCEPT !.pc = pc]
                     \/ worker' = [worker EXCEPT !.pc = pc, !.seen = seen]
              PROVE  worker'.pc = pc
            BY <1>0, <4>2 DEF Worker
        <4>3. \A pc : Goto(pc) => worker'.pc = pc
            BY <4>2 DEF Goto
        <4>4. Requeue => worker'.pc = "idle"
            BY DEF Requeue, Idle
        <4>5. AddFinalizer => worker'.pc \in {"known", "idle"}
            BY <4>2, <4>3, <4>4 DEF AddFinalizer
        <4> QED
            BY <4>1, <4>3, <4>4, <4>5 DEF AddKnownCluster, Fail
      <3> QED
          BY <1>1, <2>1, <2>4, <3>1, <3>2 DEF DeploySteps
    <2> QED
        BY <2>5, <2>6
  \* Known Clusters at rest are current.
  <1>2. ASSUME NEW c \in Clusters, up', ~configEvent', c \in known', Fresh(c)', worker'.c # c,
               config' # NoConfig
        PROVE  WantedBy(config, c)' /\ DeployedFor(config, c)'
    <2>1. up
        BY <1>2, ComesToRest
    <2>2. config' = config /\ (configEvent => DeliverConfigEvent) /\ config \in Configs
        BY <1>2, <2>1, EventsOfPass DEF TypeOK
    <2>3. ~configEvent
      <3>1. ASSUME DeliverConfigEvent PROVE FALSE
          BY <1>2, <3>1 DEF DeliverConfigEvent, ListKnownClusters, Fresh
      <3> QED
          BY <2>2, <3>1
    <2>4. ASSUME NEW g \in Configs, g = config, WantedBy(g, c)', DeployedFor(g, c)'
          PROVE  WantedBy(config, c)' /\ DeployedFor(config, c)'
        BY <2>2, <2>4 DEF WantedBy, Selected, DeployedFor, HasFinalizer, Exists
    <2>5. CASE Fresh(c) /\ SameDemand(c) /\ worker.c # c
      <3>1. c \in known
        <4>1. CASE AddKnownCluster
            BY <1>2, <2>5, <4>1 DEF AddKnownCluster
        <4>2. CASE ~AddKnownCluster
          <5>1. known' \subseteq known
              BY <4>2, ~Crash
              DEF Next, Step, Users, Providers, vars, GetCluster, HandleOperation, ReadConfig,
                  HandleCreateOrUpdate, AddFinalizer, EnsureAccess, GetAccess, CopySecrets,
                  RemoveSecrets, DeploySource, PruneSources, DeleteSources,
                  EnsureTargetClusterNamespace, DeployHelmRelease, HandleDelete,
                  UndeployHelmRelease, RefreshAccess, CheckAccess, UndeployHelmChartSource,
                  DeleteAccess, RemoveFinalizer, RemoveKnownCluster, Fail,
                  DeliverConfigEvent, Start, CreateCluster, ChangePurposes, Annotate,
                  DeleteCluster, EditCluster, ChangeConfig, ReleaseGone, SourceGone,
                  ProvideAccess, ClusterGone, PlatformUnchanged
          <5> QED
              BY <1>2, <5>1
        <4> QED
            BY <4>1, <4>2
      <3>2. WantedBy(config, c) /\ DeployedFor(config, c)
          BY <1>2, <2>1, <2>2, <2>3, <2>5, <3>1 DEF CurrentInv
      <3>3. AgreesWith(config, c)
          BY <3>2 DEF AgreesWith
      <3>4. ASSUME NEW g \in Configs, g = config PROVE WantedBy(g, c)' /\ DeployedFor(g, c)'
        <4>1. AgreesWith(g, c)'
            BY <1>2, <2>5, <3>3, <3>4, AgreementKept DEF Fresh, Exists
        <4>2. WantedBy(g, c)'
            BY <2>5, <3>2, <3>4 DEF WantedBy, Selected, SameDemand
        <4> QED
            BY <4>1, <4>2 DEF AgreesWith
      <3> QED
          BY <2>2, <2>4, <3>4
    <2>6. ASSUME NEW g \in Configs, worker.c = c, Fresh(c), DeployHelmRelease, g = worker.cfg,
                 WantedBy(g, c)', DeployedFor(g, c)'
          PROVE  WantedBy(config, c)' /\ DeployedFor(config, c)'
      <3>1. worker.pc = "release"
          BY <2>6 DEF DeployHelmRelease
      <3>2. worker.cfg = config
          BY <2>3, <2>6, <3>1 DEF CurrentInv, Fresh, DeploySteps
      <3> QED
          BY <2>4, <2>6, <3>2
    <2>7. ASSUME worker.c = c, RemoveKnownCluster \/ known' = known \ {c} PROVE FALSE
        BY <1>2, <2>7 DEF RemoveKnownCluster
    <2> QED
        BY <1>2, <2>5, <2>6, <2>7, ComesToRest
  <1> QED
      BY <1>1, <1>2 DEF CurrentInv

\* A restart forgets everything.
LEMMA CurrentCrash ==
    ASSUME TypeOK, Crash
    PROVE  CurrentInv'
  BY DEF Crash, CurrentInv, Idle, DeploySteps

\* A known Cluster at rest is wanted by the current configuration and has what
\* that one asks for, although configurations change at any time, calls fail
\* and the process restarts, as long as no event of a configuration misses a
\* pass.
THEOREM KnownCurrentInvariant ==
    ~TerminatingReady => (Spec /\ [][~MissesPass]_vars => []KnownCurrent)
  <1> SUFFICES ASSUME ~TerminatingReady
               PROVE  Spec /\ [][~MissesPass]_vars => []KnownCurrent
      OBVIOUS
  <1>1. Init => PassFresh /\ CurrentInv
      BY PassFreshInit DEF Init, CurrentInv, Idle, DeploySteps
  <1>2. TypeOK /\ GuardInv /\ PassFresh /\ [Next]_vars => PassFresh'
      BY PassFreshStep
  <1>3. TypeOK /\ GuardInv /\ AccessInv /\ CopyGuard /\ PassFresh /\ CurrentInv
        /\ [Next]_vars /\ [~MissesPass]_vars => CurrentInv'
    <2>1. [~MissesPass]_vars => ~MissesPass
        BY DEF vars, MissesPass, DeliverConfigEvent
    <2> QED
        BY <2>1, CurrentStep, CurrentCrash
  <1>4. CurrentInv => KnownCurrent
      BY DEF CurrentInv, KnownCurrent, Settled, Quiescent, Fresh
  <1> QED
      BY <1>1, <1>2, <1>3, <1>4, TypeInvariant, GuardInvariant, AccessInvariant,
         CopyInvariant, PTL
      DEF Spec

\* No event of a configuration misses a pass as long as the process lives and
\* the answer to the patch of the finalizer is not lost: the first pass for a
\* Cluster, which is not known yet, must wait for its access.
THEOREM NoPassMissed ==
    Spec /\ [][~Crash /\ ~FinalizerAnswerLost]_vars => [][~MissesPass]_vars
  <1>1. Init => RegisteredInv
      BY DEF Init, RegisteredInv, HasFinalizer, Exists, NewCluster
  <1>2. TypeOK /\ GuardInv /\ RegisteredInv
        /\ [Next]_vars /\ [~Crash /\ ~FinalizerAnswerLost]_vars => RegisteredInv'
    <2>1. [~Crash /\ ~FinalizerAnswerLost]_vars => ~Crash /\ ~FinalizerAnswerLost
        BY DEF vars, Crash, FinalizerAnswerLost, Fail, Requeue, Idle
    <2> QED
        BY <2>1, RegisteredStep
  <1>3. TypeOK /\ GuardInv /\ RegisteredInv => [~MissesPass]_vars
    <2>1. ASSUME TypeOK PROVE worker.pc # "idle" => worker.c \in Clusters
        BY <2>1 DEF TypeOK
    <2> QED
        BY <2>1 DEF RegisteredInv, MissesPass, DeploySteps
  <1> QED
      BY <1>1, <1>2, <1>3, TypeInvariant, GuardInvariant, PTL
      DEF Spec

=============================================================================
