----------------------------- MODULE SecretCopy -----------------------------
(***************************************************************************)
(* Copying secrets, in detail: copySecrets and removeSecrets of the          *)
(* DNSCluster controller for one of the two sites, and the watch of the      *)
(* source secrets.  ClusterReconciler knows which copies there are; here     *)
(* secrets have contents and owners, several Clusters may share a            *)
(* namespace, and users have secrets of their own.                           *)
(*                                                                         *)
(* A pass makes its Cluster known and reads the configuration in one step    *)
(* here; what may happen in between, and the calls around the copying, are   *)
(* in ClusterReconciler.                                                    *)
(***************************************************************************)
EXTENDS Naturals

CONSTANTS
    Clusters,
    Configs,        \* contents of the DNSServiceConfig
    Names,          \* names of secrets
    Data,           \* contents of secrets
    Types,          \* types of secrets
    Places,         \* namespaces, on the platform or on target clusters
    ProviderPlace,  \* the namespace of the sources
    PlaceOf,        \* PlaceOf[c]: where secrets are copied to for Cluster c
    PullSecrets,    \* spec.imagePullSecrets of the PlatformService
    HasSection,     \* HasSection[g]: spec.secretsToCopy is set
    TargetName,     \* TargetName[g][n]: the name that the entry of this site
                    \* for source n gives to the copy, or NoName
    InitialSecrets, \* what may be there before the controller
    Foreign,        \* the owner of a secret without the labels of a Cluster
    NoCluster, NoName, NoSecret,
    Drift,          \* do users change or delete copies?
    MaxChanges,     \* bound: changes by users
    MaxErrors,      \* bound: failing API calls of passes
    MaxLookups,     \* bound: failing API calls of the secret watch
    MaxCrashes      \* bound: restarts

\* owner: the Cluster that the two labels of the controller name.  Names of
\* Clusters are unique within a namespace, hence at each place.
Secret == [owner: Clusters \cup {Foreign}, data: Data, type: Types]

MaybeSecret == Secret \cup {NoSecret}

ASSUME SecretCopyAssumption ==
    /\ ProviderPlace \in Places
    /\ PlaceOf \in [Clusters -> Places]
    /\ PullSecrets \subseteq Names
    /\ HasSection \in [Configs -> BOOLEAN]
    /\ TargetName \in [Configs -> [Names -> Names \cup {NoName}]]
    /\ InitialSecrets \subseteq [Places -> [Names -> MaybeSecret]]
    /\ \A secrets \in InitialSecrets, p \in Places, n \in Names :
          secrets[p][n] # NoSecret => secrets[p][n].owner = Foreign
    /\ Foreign \notin Clusters /\ NoCluster \notin Clusters /\ Foreign # NoCluster
    /\ NoName \notin Names /\ NoSecret \notin Secret
    /\ Drift \in BOOLEAN

ASSUME BoundsAssumption ==
    /\ MaxChanges \in Nat /\ MaxErrors \in Nat
    /\ MaxLookups \in Nat /\ MaxCrashes \in Nat

VARIABLES
    secret,         \* the secrets of each place
    config,         \* the DNSServiceConfig
    wanted,         \* Clusters that are selected and not being deleted
    known,          \* KnownClusters
    queue,          \* the work queue
    events,         \* source secrets with an event that was not handled yet
    configEvent,    \* is there such an event of the configuration?
    worker,         \* local state of the loops of the running pass
    spared,         \* history: foreign secrets, at the place of the pass, that
                    \* nobody but the pass could have touched since it began
    left            \* what remains of the bounds

vars == <<secret, config, wanted, known, queue, events, configEvent, worker, spared, left>>

\* deploy: is it handleCreateOrUpdate?  target: secretsToCopy of copySecrets; todo: its sources that are left; name
\* and read: the source at hand; copied: what copySecrets returns; listed:
\* what removeSecrets found obsolete.
Worker == [pc: {"idle", "copy", "check", "write", "list", "prune"},
           c: Clusters \cup {NoCluster}, deploy: BOOLEAN, target: [Names -> Names \cup {NoName}],
           todo: SUBSET Names, name: Names \cup {NoName}, read: MaybeSecret,
           copied: SUBSET Names, listed: SUBSET Names]

Idle == [pc |-> "idle", c |-> NoCluster, deploy |-> FALSE,
         target |-> [n \in Names |-> NoName], todo |-> {}, name |-> NoName, read |-> NoSecret,
         copied |-> {}, listed |-> {}]

TypeOK ==
    /\ secret \in [Places -> [Names -> MaybeSecret]]
    /\ config \in Configs
    /\ wanted \subseteq Clusters
    /\ known \subseteq Clusters
    /\ queue \subseteq Clusters
    /\ events \subseteq Names
    /\ configEvent \in BOOLEAN
    /\ worker \in Worker
    /\ worker.pc # "idle" => worker.c \in Clusters
    /\ worker.pc \in {"check", "write"}
          => /\ worker.name \in Names /\ worker.read \in Secret
             /\ worker.target[worker.name] \in Names
    /\ \A n \in worker.todo : worker.target[n] \in Names
    /\ spared \subseteq Names
    /\ left \in [changes: Nat, errors: Nat, lookups: Nat, crashes: Nat]

Init ==
    /\ secret \in InitialSecrets
    /\ config \in Configs
    /\ wanted \in SUBSET Clusters
    /\ known = {}
    /\ queue = Clusters
    /\ events = {}
    /\ configEvent = FALSE
    /\ worker = Idle
    /\ spared = {}
    /\ left = [changes |-> MaxChanges, errors |-> MaxErrors,
               lookups |-> MaxLookups, crashes |-> MaxCrashes]

Owner(p, n) == IF secret[p][n] = NoSecret THEN NoCluster ELSE secret[p][n].owner

\* Every change in the provider namespace is an event of the secret watch.
SetSecret(p, n, new) ==
    /\ secret' = [secret EXCEPT ![p][n] = new]
    /\ events' = IF p = ProviderPlace /\ new # secret[p][n] THEN events \cup {n} ELSE events

-----------------------------------------------------------------------------
(* The passes. *)

\* Mutant: the request is forgotten.
ForgetRequest ==
    /\ worker' = Idle
    /\ queue' = queue
    /\ spared' = {}

\* The pass ends with an error, the request comes back.
Requeue ==
    /\ worker' = Idle
    /\ queue' = queue \cup {worker.c}
    /\ spared' = {}

\* The map secretsToCopy: image pull secrets keep their names unless an entry
\* of the configuration says otherwise, and nothing without the section.
CopyMap(g) ==
    IF HasSection[g]
    THEN [n \in Names |-> IF TargetName[g][n] = NoName /\ n \in PullSecrets
                          THEN n ELSE TargetName[g][n]]
    ELSE [n \in Names |-> NoName]

\* handleCreateOrUpdate begins with the configuration of that moment.
BeginCopying(c) ==
    LET target == CopyMap(config)
    IN  /\ worker' = [Idle EXCEPT !.pc = "copy", !.c = c, !.deploy = TRUE, !.target = target,
                                  !.todo = {n \in Names : target[n] # NoName}]
        /\ known' = known \cup {c}

\* handleDelete calls removeSecrets only.
BeginRemoving(c) ==
    /\ worker' = [Idle EXCEPT !.pc = "list", !.c = c]
    /\ known' = known

Begin(c) ==
    /\ worker.pc = "idle" /\ c \in queue
    /\ queue' = queue \ {c}
    /\ IF c \in wanted THEN BeginCopying(c) ELSE BeginRemoving(c)
    /\ spared' = {n \in Names : Owner(PlaceOf[c], n) = Foreign}
    /\ UNCHANGED <<secret, config, wanted, events, configEvent, left>>

\* Mutant: the namespaces are not compared.
SameName(c, n, target) == target = n

\* The source is the copy: nothing to do.
Identical(c, n, target) == PlaceOf[c] = ProviderPlace /\ target = n

\* Mutant: a missing source is no error.
GetSourceUnchecked ==
    /\ worker.pc = "copy"
    /\ \E n \in worker.todo :
          worker' = [worker EXCEPT !.pc = "check", !.name = n,
                                   !.read = secret[ProviderPlace][n]]
    /\ UNCHANGED <<secret, config, wanted, known, queue, events, configEvent, spared, left>>

\* Read a source secret, in any order.
GetSource ==
    /\ worker.pc = "copy"
    /\ \E n \in worker.todo :
          \/ /\ secret[ProviderPlace][n] = NoSecret
             /\ Requeue
          \/ /\ secret[ProviderPlace][n] # NoSecret
             /\ worker' = IF Identical(worker.c, n, worker.target[n])
                          THEN [worker EXCEPT !.todo = @ \ {n}, !.copied = @ \cup {n}]
                          ELSE [worker EXCEPT !.pc = "check", !.name = n,
                                              !.read = secret[ProviderPlace][n]]
             /\ UNCHANGED <<queue, spared>>
    /\ UNCHANGED <<secret, config, wanted, known, events, configEvent, left>>

\* Where the copy at hand goes, and the content of the place.
Target == worker.target[worker.name]

\* Mutant: the labels are not looked at.
AlwaysManaged(p, n) == TRUE

\* Mutant: any Cluster will do as the owner.
ManagedByAny(p, n) == Owner(p, n) \in Clusters \cup {NoCluster}

\* Absent, or labelled for the Cluster of this pass.
Managed(p, n) == Owner(p, n) \in {worker.c, NoCluster}

\* Look whether the target exists; one that is not managed is an error.
CheckTarget ==
    /\ worker.pc = "check"
    /\ IF Managed(PlaceOf[worker.c], Target)
       THEN /\ worker' = [worker EXCEPT !.pc = "write"]
            /\ UNCHANGED <<queue, spared>>
       ELSE Requeue
    /\ UNCHANGED <<secret, config, wanted, known, events, configEvent, left>>

\* The API server rejects a change of the type of a secret.
Writable(p, n, new) == secret[p][n] = NoSecret \/ secret[p][n].type = new.type

\* CreateOrUpdate reads again and takes what it finds.
WriteTarget ==
    /\ worker.pc = "write"
    /\ IF Writable(PlaceOf[worker.c], Target, worker.read)
       THEN /\ SetSecret(PlaceOf[worker.c], Target, [worker.read EXCEPT !.owner = worker.c])
            /\ worker' = [worker EXCEPT !.pc = "copy", !.todo = @ \ {worker.name},
                                        !.copied = @ \cup {Target},
                                        !.name = NoName, !.read = NoSecret]
            /\ UNCHANGED <<queue, spared>>
       ELSE /\ Requeue
            /\ UNCHANGED <<secret, events>>
    /\ UNCHANGED <<config, wanted, known, configEvent, left>>

CopyingDone ==
    /\ worker.pc = "copy" /\ worker.todo = {}
    /\ worker' = [worker EXCEPT !.pc = "list"]
    /\ UNCHANGED <<secret, config, wanted, known, queue, events, configEvent, spared, left>>

\* Mutant: what was copied just now is not kept.
AllLabelled == {n \in Names : Owner(PlaceOf[worker.c], n) = worker.c}

\* The secrets labelled for the Cluster that were not copied by this pass.
Obsolete == {n \in Names : Owner(PlaceOf[worker.c], n) = worker.c} \ worker.copied

ListSecrets ==
    /\ worker.pc = "list"
    /\ worker' = [worker EXCEPT !.pc = "prune", !.listed = Obsolete]
    /\ UNCHANGED <<secret, config, wanted, known, queue, events, configEvent, spared, left>>

\* Delete by name what was listed; the rest of the pass is in
\* ClusterReconciler.
PruneSecrets ==
    /\ worker.pc = "prune"
    /\ \/ \E n \in worker.listed :
             /\ SetSecret(PlaceOf[worker.c], n, NoSecret)
             /\ worker' = [worker EXCEPT !.listed = @ \ {n}]
             /\ UNCHANGED <<known, spared>>
       \/ /\ worker.listed = {}
          /\ known' = IF worker.deploy THEN known ELSE known \ {worker.c}
          /\ worker' = Idle
          /\ spared' = {}
          /\ UNCHANGED <<secret, events>>
    /\ UNCHANGED <<config, wanted, queue, configEvent, left>>

\* A call fails or its answer is lost.
Fail ==
    /\ worker.pc # "idle" /\ left.errors > 0
    /\ left' = [left EXCEPT !.errors = @ - 1]
    /\ Requeue
    /\ UNCHANGED <<secret, config, wanted, known, events, configEvent>>

\* After a restart every Cluster is listed; pending events are pointless.
Restart ==
    /\ left.crashes > 0
    /\ left' = [left EXCEPT !.crashes = @ - 1]
    /\ worker' = Idle
    /\ queue' = Clusters
    /\ events' = {}
    /\ configEvent' = FALSE
    /\ known' = {}
    /\ spared' = {}
    /\ UNCHANGED <<secret, config, wanted>>

Step == GetSource \/ CheckTarget \/ WriteTarget \/ CopyingDone \/ ListSecrets \/ PruneSecrets

-----------------------------------------------------------------------------
(* The watches. *)

\* Mutant: image pull secrets are not watched.
ReferencedEntries(g) == {n \in Names : HasSection[g] /\ TargetName[g][n] # NoName}

\* extractReferencedSecretNames, the entries of the other site left out: they
\* only add requests.
Referenced(g) == {n \in Names : HasSection[g] /\ TargetName[g][n] # NoName} \cup PullSecrets

\* mapSecretToRequests.  When the configuration or the PlatformService cannot
\* be read the event is dropped.
DeliverSecretEvent(n) ==
    /\ n \in events
    /\ events' = events \ {n}
    /\ \/ /\ queue' = IF n \in Referenced(config) THEN queue \cup known ELSE queue
          /\ left' = left
       \/ /\ left.lookups > 0
          /\ left' = [left EXCEPT !.lookups = @ - 1]
          /\ queue' = queue
    /\ UNCHANGED <<secret, config, wanted, known, configEvent, worker, spared>>

DeliverConfigEvent ==
    /\ configEvent
    /\ configEvent' = FALSE
    /\ queue' = queue \cup known
    /\ UNCHANGED <<secret, config, wanted, known, events, worker, spared, left>>

-----------------------------------------------------------------------------
(* Users. *)

UserChange == left.changes > 0 /\ left' = [left EXCEPT !.changes = @ - 1]

\* A Cluster is selected, unselected, created or deleted.
ChangeCluster(c) ==
    /\ UserChange
    /\ wanted' = IF c \in wanted THEN wanted \ {c} ELSE wanted \cup {c}
    /\ queue' = queue \cup {c}
    /\ UNCHANGED <<secret, config, known, events, configEvent, worker, spared>>

ChangeConfig ==
    /\ UserChange
    /\ config' \in Configs \ {config}
    /\ configEvent' = TRUE
    /\ UNCHANGED <<secret, wanted, known, queue, events, worker, spared>>

\* What users may make of a secret: they set no labels of the controller, and
\* only a new secret can have another type.
UserSecrets(p, n) ==
    IF secret[p][n] = NoSecret
    THEN {new \in Secret : new.owner = Foreign}
    ELSE {[secret[p][n] EXCEPT !.data = d] : d \in Data} \cup {NoSecret}

\* Users create secrets, change and delete theirs, sources included.
ChangeSecret(p, n) ==
    /\ UserChange
    /\ Owner(p, n) \in Clusters => Drift
    /\ \E new \in UserSecrets(p, n) \ {secret[p][n]} : SetSecret(p, n, new)
    /\ spared' = IF worker.pc # "idle" /\ p = PlaceOf[worker.c] THEN spared \ {n} ELSE spared
    /\ UNCHANGED <<config, wanted, known, queue, configEvent, worker>>

Users ==
    \/ \E c \in Clusters : ChangeCluster(c)
    \/ ChangeConfig
    \/ \E p \in Places, n \in Names : ChangeSecret(p, n)

Next ==
    \/ \E c \in Clusters : Begin(c)
    \/ Step
    \/ Fail
    \/ Restart
    \/ \E n \in Names : DeliverSecretEvent(n)
    \/ DeliverConfigEvent
    \/ Users

Spec == Init /\ [][Next]_vars

\* A running pass goes on, events are handled, the queue starves nobody (also
\* while a Cluster that cannot succeed keeps coming back).
Fairness ==
    /\ WF_vars(Step)
    /\ \A n \in Names : WF_vars(DeliverSecretEvent(n))
    /\ WF_vars(DeliverConfigEvent)
    /\ \A c \in Clusters : SF_vars(Begin(c))

FairSpec == Spec /\ Fairness

=============================================================================
