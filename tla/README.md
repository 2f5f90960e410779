# A TLA+ model of platform-service-dns

platform-service-dns is a Kubernetes controller.  For every `Cluster` resource that a
`DNSServiceConfig` selects it deploys external-dns onto the cluster behind it, through Flux, and
it cleans up when the `Cluster` is deleted or no longer selected.  The modules in this directory
model that controller, `src/internal/controllers/cluster/controller.go` above all, and the process
around it, check them with TLC and prove the central invariants, and that the controller implements
an abstract contract, with TLAPS.

Line numbers without a file name refer to `controller.go`.

## The system

### Components

| component | state it keeps | operations | correct when |
|---|---|---|---|
| **DNSCluster controller** (`controller.go`) | `KnownClusters` in memory; during a pass the `Cluster` and the `DNSServiceConfig` as they were read; on the API server a finalizer on the `Cluster` | `Reconcile` (128-157), `reconcile` (159-229), `handleCreateOrUpdate` (231-307), `handleDelete` (309-393) | what is deployed agrees with the `Cluster` and the configuration whenever nothing is pending; nothing is ever left behind without the finalizer |
| **Cluster access** (external library, lines 246-268, 325-357, 369-378) | an `AccessRequest` per `Cluster` on the platform cluster | `Reconcile`, `ReconcileDelete`, `AccessRequest`, `Access` | access is there as long as something on the target cluster needs it |
| **Secret copying** (`copySecrets` 402-495, `removeSecrets` 817-866) | copies of secrets in the namespace of the `Cluster` and in the target cluster's external-dns namespace | copy all configured secrets, delete all others that carry the controller's labels | exactly the configured copies, foreign secrets untouched, no copy gone before its successors are there |
| **Flux source** (497-611, 762-815) | a `HelmRepository`, `GitRepository` or `OCIRepository` per `Cluster` | deploy the configured kind, delete the others, delete all | one live source, of the configured kind |
| **HelmRelease** (613-760) | a `HelmRelease` per `Cluster` | deploy, undeploy and wait | values and chart of the configuration that was read, gone before the access |
| **Watches and queue** (936-972) | controller-runtime's work queue | `For(Cluster)` with predicates, `Watches(DNSServiceConfig)` and `Watches(Secret)` with map functions | every change that matters leads to a pass |
| **KnownClusters** (907-933) | a set under a mutex | add, remove, list | every `Cluster` with resources is in it, or about to be |
| **PurposeSelector** (`config_types.go`) | none | `Matches` (161-167), `requirementMatches` (171-204) | agrees with its documented boolean meaning |
| **run command** (`run.go`) | the manager, the leader election lease | refuse to start without a configuration (237-247), start the controller at once or as the leader (213-232, 273-276) | processes that follow each other, or run side by side in a rolling update, leave nothing half-done, and one of them works |
| **init command, CRDs** (`init.go`, `crds.go`) | the CRDs on the platform cluster | install the CRDs (59-77) | there is no configuration before its CRD |
| **print command, generated code** | none | output | - |

### How they interact

The platform cluster's API server is the shared state.  The controller reads `Cluster`,
`DNSServiceConfig` and `PlatformService` from it and writes the finalizer, the `AccessRequest`, the
copies, the source and the `HelmRelease`; the cluster provider answers the `AccessRequest` with
credentials; Flux acts on source and `HelmRelease` and, using the same credentials, on the target
cluster.  Users edit `Cluster` and `DNSServiceConfig`.  Watch events of these resources come back to
the controller as requests in its queue.

### Hard behaviours

* A pass is some fifteen API calls.  Between two of them users edit, providers finish, a call
  fails, an answer is lost, or the pod dies.  The next pass starts from the beginning, with whatever
  the earlier ones left.
* A pass works with the `Cluster` and the configuration it read first, however old they are by then.
* `KnownClusters`, the queue and the delayed requests are lost in a restart.
* Deletions take time: `HelmRelease`, sources and `AccessRequest` terminate while passes go on and
  while the user may change their mind.
* Events that a predicate drops are never delivered again.
* Leader election is optional.  With it, a process waits for the lease of another that may be dead;
  without it, two processes work on the same Clusters, each with its own memory.

The hazards are listed with their lines in `PROJECT.json`.

## The modules

| module | what it holds |
|---|---|
| `ClusterReconciler` | the controller, its environment, the specification and the fairness |
| `ClusterProperties` | the safety, action and liveness properties |
| `MCClusterReconciler` | the instances that TLC checks |
| `Deployment` | the contract: the life of one Cluster's deployment, whoever does the work |
| `CopyContract` | the contract of copying: what the passes do to the copies at one site, seen as names |
| `RunCommand` | one process: `init`, `run`, leader election, and the controller in it |
| `Rollout` | two such processes on one platform cluster, and their properties |
| `MCRollout` | its instance |
| `PurposeSelector` | evaluation of selectors, the choice of an entry |
| `DocumentedSelectors` | what selectors are documented to mean |
| `SelectorMeaning` | the choice of an entry compared with the documented meaning |
| `MCSelectorMeaning` | its instance |
| `DocumentedValues` | the core with configurations as they are written: `PurposeSelector` computes its `ValuesFor` |
| `MCDocumentedValues` | its instance, with an example of the docs |
| `ClusterReconcilerProofs` | proofs of the core's type invariant, of `FinalizerGuard`, `PassGuard`, `KnownCovers`, and of the properties about access and copies |
| `ConvergenceProofs` | proofs that the core implements `Deployment` and, at both sites, `CopyContract`, and of what holds at rest: `WholeConfiguration`, `Converged`, `KnownCurrent`, `GenericConsumed` |
| `ContractProofs` | proofs of what `Deployment` and `CopyContract` guarantee |
| `SelectorProofs` | proof that the evaluation of a selector is its documented meaning |
| `SelectorMeaningProofs` | proofs of `FirstMatchDecides` and `PanicsOnlyIfCircular` |
| `DocumentedValuesProofs` | proof of `ValuesAsDocumented` |
| `RolloutProofs` | proof that two processes that take turns implement the core, and what follows from it |
| `SecretCopy` | copying and removing secrets in detail, and the watch of the source secrets |
| `SecretProperties` | its safety, action and liveness properties |
| `MCSecretCopy` | its instances |
| `SecretProofs` | proofs of its type invariant, `ForeignSpared`, `OthersSpared` and `CopiesCurrent`, and that it implements `CopyContract` |

The core, `ClusterReconciler`, treats the copies of a Cluster as a set of names that only the passes
for that Cluster change.  `SecretCopy` looks into that set: who owns a secret, what is in it, and what
happens when Clusters, users and the sources themselves share a namespace.  `Rollout` composes two
instances of the core, each within a process.  `PurposeSelector` computes the core's constant
`ValuesFor` in `DocumentedValues`.

### ClusterReconciler: state

| variable | in the system |
|---|---|
| `cluster` | the `Cluster` resources: deletion timestamp, this controller's finalizer, the purposes, the two operation annotations |
| `config` | the `DNSServiceConfig`, one of `Configs` or missing.  A member of `Configs` stands for a whole content; `ValuesFor`, `SourceKind` and `SecretsToCopy` say what the code takes from it |
| `release` | the `HelmRelease`: `absent`, `live` or `terminating`, and the configuration and values it was last written for |
| `source` | the Flux source of each kind |
| `access` | the `AccessRequest`: `absent`, `pending`, `granted` or `terminating` |
| `copies` | the copies this controller manages, in the platform namespace and on the target cluster |
| `namespace` | target clusters that have the external-dns namespace |
| `up` | the process |
| `known` | `KnownClusters` |
| `queue` | the work queue with the delayed and the retried requests |
| `configEvent` | an event of the `DNSServiceConfig` on its way to the map function of line 956 |
| `worker` | the locals of the running pass and the call it makes next |
| `left` | what is left of the bounds on changes, errors and crashes |

`ValuesFor[g][p]` abstracts lines 208-218 and the rendering of the Helm values: the values of the
first entry of `externalDNSForPurposes` whose selector matches the purposes `p`, or `NoValues` when
none does.  In most instances it is a table; `DocumentedValues` (the run `Convergence`) has it computed
by `FirstMatch` of `PurposeSelector` from requirements and entries, selectors of the docs in the instance.

### ClusterReconciler: steps

The worker makes one API call per step.  `worker.pc` names the call; `DeploySteps` and
`CleanupSteps` are the calls of `handleCreateOrUpdate` and `handleDelete` in their order, and each
is an action named after the method or the lines it stands for.  Loops over secrets and over
sources take one step per object, in any order, as the code iterates over maps and lists.

* `GetCluster` takes a request from the queue and reads the `Cluster` (128-144); a missing `Cluster`
  is forgotten.
* `HandleOperation` evaluates the operation annotation (162-181); `ReadConfig` reads the
  configuration and dispatches (189-226).
* Every early return is `Done` (no error, no requeue) or `Requeue` (an error, or `RequeueAfter`).
* `Fail` may strike before any call of a pass.  As the effect of the previous call is already
  there, it also stands for that call succeeding while its answer is lost.
* `GetAccess` keeps the detail of line 260: an error of that read is recorded but does not return,
  so the pass goes on copying and ends after the first loop.
* `DeliverConfigEvent` evaluates `ListKnownClusters` when the event is handled, not when the
  configuration changes.
* `Start` lists all Clusters, as the informers do; `Crash` loses everything in memory.  The command
  checks that the configuration exists before it starts the manager (`run.go:237-247`) and not again,
  so the configuration may be gone by the time the controller starts: `Start` has no guard about it,
  only its fairness speaks of a configuration.

Modelling decisions worth knowing:

* The client of `clusters.Cluster` reads from the API server, not from a cache.  Hence reads are
  current, and only `worker.seen`, `worker.cfg` and `worker.values` can be stale.
* `MaxConcurrentReconciles` is not set, so there is one worker.  The work queue merges a delayed
  request with an immediate one for the same object, so it is a set.
* A `Cluster` that is being deleted takes no new finalizer: the API server rejects it.
* An update of an object that is terminating succeeds and does not revive it.
* A missing `PlatformService` or a missing source secret ends a pass like a failing call; it is
  part of `Fail`.
* The access library is external.  From its use: `Reconcile` creates a missing `AccessRequest` and
  asks for a requeue until it is granted; `ReconcileDelete` deletes it and asks for a requeue while
  it is there.  Whether it takes a terminating `AccessRequest` for a ready one cannot be told from
  this repository; line 343 guards against it.  `TerminatingReady` makes it a parameter.

### SecretCopy

One instance is one of the two sites (`copyTo`).  `secret` holds the secrets of each place (namespace)
with content, type and owner; the owner is what the two labels of lines 183-187 say: a Cluster, or
`Foreign`.  `PlaceOf` says where the copies of a Cluster go: the namespace of the Cluster resource,
which may be shared, or even that of the sources (`ProviderPlace`), or the namespace on its target
cluster.  `wanted` abstracts selection and deletion, which are the core's subject.  `events` are
changes of source secrets that `mapSecretToRequests` has not seen yet; a failing lookup there drops
the event (lines 983-992).

A pass is `Begin`, then for each source in any order (the code iterates over a map) `GetSource`,
`CheckTarget` and `WriteTarget`, then `ListSecrets` and one `PruneSecrets` per obsolete secret.  These
are the API calls, and users may act between any two: rotate, delete and recreate sources, create and
delete secrets of their own and, with `Drift`, change or delete copies.  `CreateOrUpdate` reads once
more and writes with the version it read, so the two are one step; a conflict is a failing call.

`spared` is a history variable: the foreign secrets at the place of the running pass that were there
when it began and that no user touched since.  It appears in no guard.

### PurposeSelector

A requirement is a Go struct at an address, so `req` maps addresses to requirements, and nested
requirements are addresses.  `requirementMatches` follows lines 171-204 of `config_types.go`: the
`seen` set, the panic, the order in which the fields count, and the loops that end at the first
requirement that decides.  The deferred `delete` is why siblings do not see each other (`SeenAt`).
A call is a pointer and the requirements seen on the way to it, and the method is a recursive function
over the finite set `Calls`.  `FirstMatch` is the loop of lines 208-218.  `DocumentedSelectors` says what
the type's comment and the docs say, without an order of evaluation and without a `seen` set: a selector
is the set of the purposes that it selects, `Meaning`.  Which requirements are `Inside` a selector, and
whether it is `Circular`, is said without recursion: the least set that is closed under `KidsOf`.

### RunCommand and Rollout

A process is not `ready`, then `ready` (the configuration was found and the manager runs), then `up`
(the controller works).  `Run` checks once that the configuration exists; `Lead` starts the
controller, with leader election only when the lease is free; `Exit` ends the process and loses its
memory.  The lease stays (`LeaderElectionReleaseOnCancel` is not set, `run.go:221-231`) until it runs
out (`LeaseExpires`).  That this does not happen while its holder works is a contract of
controller-runtime, whose renew deadline is shorter than the lease: a manager that cannot renew in
time ends first.

`Rollout` has two instances of `RunCommand`, `A` and `B`, on shared API objects; memory, queue and
running pass are each process's own.  What one controller writes to a Cluster reaches the other's
queue through its watch (`Observe`), as far as the predicates of lines 936-954 let it through.  Users
and providers are seen by both.

`TakesTurns == One!Spec` is a refinement: `One` is the core with the memory, queue and pass of the
process that works (`oneUp`, `oneKnown` and so on).  With leader election every step of either process
is a step of one controller that is restarted now and then, or a stutter.

### Deployment: the contract and the refinement

`Deployment` is what the controller promises for each Cluster, in one variable `life`: is the
Cluster held, how far is its access, is something placed on the platform cluster, are credentials on
the target cluster, how far is the release.  It allows what is allowed and knows no passes, queue,
configuration, failures or processes.  `ClusterProperties!LifeOf` is the refinement mapping: `held` is
the finalizer, `placed` holds as long as there is a copy on the platform cluster or a source that is
not yet being deleted, `credentials` as long as there is a copy on the target cluster.
`ImplementsDeployment` says that every step of the core, mapped like this, is a step of the contract
or a stutter.  Its hard part are the guards of `Revoke` and `LetGo`: that nothing is left on either
cluster is known to a pass only from what earlier calls, often of earlier passes, have seen.

### CopyContract: two modules, one contract

Copying is modelled twice: in the core, where the copies of a Cluster are a set of names that its passes
change and nobody else does, and in `SecretCopy`, where this is a result of owners, labels and checks
between calls to which others have access too.  `CopyContract` says what the two have in common.  A pass
asks for copies (`must`), and for names that may stay (`may`, larger where a source is its own copy), copies
first, then removes what it did not ask for, and may break off at any step; nobody else changes the copies
of its Cluster until it ends.  A phase may be skipped only when what it would establish holds already
(`Reached`).  Nothing else is promised: not who runs passes, when, or for which configuration.

`ClusterProperties!ImplementsCopying` says it of the core, for either site, with the phase read off
`worker.pc`: the phase `done` lasts to the end of the pass, so the write of the `HelmRelease` at the end of
`handleCreateOrUpdate`, and the removal of the finalizer at the end of `handleDelete`, find the copies as
they were left.  `SecretProperties!ImplementsCopying` says it of `SecretCopy`, where `copies` are the secrets
that carry the labels of the Cluster (`Owned`).  What the core assumes of secrets is therefore what
`SecretCopy` provides, as long as users leave copies alone (`~Drift`); a restart or a failing call in
either module is a `Leave`.

### Properties

Of the core.  Safety invariants: `TypeOK`; `FinalizerGuard` (no resource without finalizer); `NoTargetOrphans` (no
credentials left on a target cluster); `ReleaseHasAccess`; `KnownCovers` (a configuration change
has somewhere to go); `PassGuard`, `AccessGuard`, `CopyGuard` (what the code relies on at each call,
long after it established it); `Converged` (nothing pending means resources agree with Cluster and
configuration); `WholeConfiguration` (what is at rest is what one configuration as a whole asks for, even when passes
are cut off and configurations change; the race of `RestartRace` breaks `KnownCurrent`, never this);
`KnownCurrent` (as `Converged`, for known Clusters, when configurations change, unless the event of a change
misses a running pass, `MissesPass`);
`GenericConsumed` (the reconcile annotation is one-shot).

Action properties: `AccessOutlivesRelease`, `ReleaseAfterSecrets`, `CopyBeforePrune`.  Refinement:
`ImplementsDeployment`, `ImplementsCopying`.  `ValuesAsDocumented`, in `DocumentedValues`, follows the documented meaning of the
selectors through every edit down to the values of the `HelmRelease`.

Liveness: `ConfigReaches` (a known Cluster gets what the changed configuration asks for, not merely a
pass); `DeletionCompletes` and `PassesSettle` (a Cluster in deletion is released, and retries end, unless
clean-up passes create the access again and again, see Fairness).

Of `SecretCopy`: `ForeignSpared` (what is not labelled for the Cluster is neither overwritten nor
deleted, provided it was there all the time), `OthersSpared` (nor are the copies of other Clusters, in
any case), `CopiesCurrent` (nothing pending means each copy equals its source, or one of the sources that
share its name), `ImplementsCopying` (the passes keep the contract of copying), `CopiesConverge` (the copies
get there).  `ForeignSpared` without its proviso is not a property of the code, see the findings.

Of `SelectorMeaning`: `FirstMatchDecides` (the chosen entry is the first whose selector means the
purposes), `PanicsOnlyIfCircular` (sharing a requirement is no circle).

Of `Rollout`: `NoInterference` (the guards of each process's passes hold whatever the other does),
`TakeoverCovers` and `TakeoverConverged` (a process that takes over with an empty `KnownClusters`
forgets nothing and leaves nothing half-done), `ImplementsDeployment` (two processes keep the contract
of one), `TakesTurns` (the two processes implement the one controller of `ClusterReconciler`),
`SomebodyLeads` (nobody waits for ever), `DeletionCompletes` (as in the core, with the loop in passes of
either process).

Four more definitions state what a comment, a log line, a test or the docs say and the code does not do:
`DeploymentStays`, `CleanupEnds`, `OperationConsumed` and `RefusesForeignOnly`.

## The runs

The Clusters of the core's runs are one model value unless said otherwise: the worker handles one
request at a time and the steps for a Cluster touch only its own resources and the shared sets.
`ConfigChanges` has two, for what Clusters do share: the worker, the queue, `KnownClusters` and the
configuration.  The two configurations differ in everything a pass looks at: `git` selects all
purposes, `oci` leaves `p2` out; they use different kinds of sources; each asks for a copy that the
other does not, and for one in common.

| run | instance | shows |
|---|---|---|
| `Lifecycle` | 2 configurations, 3 changes, 1 crash; fairness | the safety invariants during passes, `WholeConfiguration` for what passes leave, the action properties, `ImplementsDeployment`, `ImplementsCopying` and the three liveness properties; 207 000 states |
| `Convergence` | 1 configuration with the selectors of the docs, 4 sets of purposes, all annotations, 3 changes, 2 errors, 1 crash | `Converged`: whatever edits, failures and restarts led to a state of rest, the resources are right; `ValuesAsDocumented`; `GenericConsumed`; `PassGuard` and `CopyGuard` after failures; 3.2 million states |
| `ConfigChanges` | 2 Clusters, 2 configurations, 2 changes, 1 crash; without `MissesPass` | `KnownCurrent`, as long as the one race of `RestartRace` does not happen; 6.7 million states |
| `SecretSafety` | 2 Clusters in one namespace, 2 configurations, 2 types, `Drift`, 2 changes, 1 error, 1 failing lookup, 1 crash | `ForeignSpared`, `OthersSpared`; 1.7 million states |
| `SecretCurrent` | 2 Clusters, one in the namespace of the sources, 3 configurations, one of them with two sources for one target and one without `secretsToCopy`, 2 changes, 1 crash; fairness | `CopiesCurrent`, also where a secret may be its own copy, `ImplementsCopying` and `CopiesConverge`; 798 000 states |
| `Selectors` | 3 requirements, 2 names, 2 entries: all selectors with one field per requirement, among them shared and circular ones, and all combinations of fields at the top | `FirstMatchDecides`, `PanicsOnlyIfCircular`; 225 000 states |
| `Rollout` | 2 processes with leader election, 1 Cluster, 1 configuration that can be deleted, 2 sets of purposes, 2 changes, 1 error, 2 crashes; fairness | the properties of `Rollout`; 259 000 states |
| `RestartRace` | 1 change, 1 crash | **violated**: `KnownCurrent`, see below |
| `Reselection` | 2 changes | **violated**: `DeploymentStays` |
| `CleanupLoop` | 1 change, no failure, no crash; fairness | **violated**: `CleanupEnds` |
| `DnsAnnotation` | 1 change | **violated**: `OperationConsumed` |
| `SharedNamespace` | 2 Clusters, no change | **violated**: `RefusesForeignOnly` |

The bounds: `MaxChanges` bounds what users do (creating, editing, deleting and annotating a Cluster,
changing the configuration); three suffice for select, unselect and select again, for a change of
the configuration and back, and for each combined with a deletion.  `MaxErrors` and `MaxCrashes` are
spent at any step; a second failure, which finds the leftovers of the first, is allowed in
`Convergence`.  `Lifecycle` has no failing call: the passes that a failure cuts off are those that a
crash cuts off, `Convergence` checks the guards with failures, and the theorems cover both for every
bound.  `ConfigChanges` leaves out the step `MissesPass` and nothing else (`UnmissedSpec`): that is the
race of `RestartRace`, where `KnownCurrent` breaks.  What providers do is not bounded.  `TerminatingReady` is `FALSE` in the runs; `TRUE` is covered by the proof of
`AccessOutlivesReleaseProperty`, which does not depend on it.  Deadlock is not checked: when the
bounds are used up and everything is settled the system rightly stops.

In `Rollout` two crashes let each process end once, at any step of a pass, or one process end twice
before the other leads; two changes combine creating the Cluster with its deletion, an edit of its
purposes or a deletion of the configuration.  `LeaderElection` is `TRUE`; see the observations for
`FALSE`.  In `Selectors` three requirements suffice for a list of two or a requirement used twice
under another, and for circles of every length up to three.

In `SecretCopy` two contents suffice to tell a stale copy from a current one, and three names make a
configured secret, a renamed copy and an image pull secret; each configuration with a section copies two,
so a pass can be cut off between them.  One change between any two calls makes a read stale; the
second combines a rotation with a change of the configuration or of the Cluster.  In `SecretCurrent` the
configuration `both` copies two sources under one name: which of them wins is specified nowhere and may
change with every pass, as the code iterates over a map; the two configurations of `SecretSafety` have
distinct targets.  In `SecretCurrent` the only secrets there are at first are sources: users may create
foreign ones, and `SecretSafety` begins with them.
`MaxLookups` bounds the lookups of `mapSecretToRequests` that fail; it is zero where copies are to be
current, see the last finding.

### Fairness

`FairSpec` assumes of the code's runtime: a running pass goes on (`WF(Step)`), events are handled
(`WF(DeliverConfigEvent)`), Kubernetes restarts the pod while there is a configuration to start with
(`WF(config # NoConfig /\ Start)`), the queue starves no request
(`SF(GetCluster(c))`: strong, as the worker is busy with others in between).  Of the others: Flux
finishes deletions and the cluster provider grants and deletes access (`WF`).  How long any of this takes
is left open, in particular whether `ReconcileDelete` ever finds the `AccessRequest` gone within its own
call.  Nothing is assumed of users, failures and crashes; they only run out.  Without a `DNSServiceConfig`
every pass ends in an error, clean-up included, so the liveness properties speak of states with a
configuration.

Under this fairness a clean-up need not end: every pass of it begins with the library's `Reconcile`
(line 328), which creates anew the `AccessRequest` that the pass before has deleted, if the provider
finished the deletion in between (the run `CleanupLoop`).  `DeletionCompletes` and `PassesSettle` therefore
say that nothing else keeps a deletion or the retries going for ever: either they end, or
`RenewsAccess(c)`, the step in which a clean-up pass creates a missing `AccessRequest`, is taken again and
again.  A `HelmRelease` that is awaited for ever, a request that is lost in a restart or dropped by a
predicate, a requeue without a reason would all violate them.  If a deletion of the `AccessRequest` is once
over within the call, `DeleteAccess` goes on to the finalizer and the loop ends.

In `SecretCopy`, `CopiesConverge` assumes the same of passes, events and queue.  It excuses a Cluster
that is `Blocked`: a source is missing, or a target is foreign or of another type (the API server
does not let a secret change its type).

In `Rollout` the same is assumed of each process, and that Kubernetes starts it again (`WF(Run)`), that
it takes a free lease (`WF(Lead)`) and that the lease of a dead process runs out (`WF(LeaseExpires)`).
Which of two waiting processes takes the lease is left open.

### Findings

* `Reselection`: a Cluster is unselected and, while its `HelmRelease` terminates, selected again.
  `deployHelmRelease` updates the dying object and the pass reports success without a requeue.
  When Flux is done, no request is left to deploy external-dns again.
* `RestartRace`: a Cluster becomes known (line 244) only after the configuration was read (line
  192).  After a restart the event of a configuration change may be mapped to an empty
  `KnownClusters` in between; the pass then deploys the old configuration and comes to rest.
  Without a restart the first pass for a Cluster usually ends in a requeue because its access is
  not yet granted, which hides the race; a failure between lines 239 and 244, followed by changes of
  the purposes, opens it too.
* `CleanupLoop`: `handleDelete` asks the access library for access (line 328) before it looks whether its
  deletion is what the previous pass waits for (lines 374-377).  With a provider that finishes each deletion
  between two passes, every pass finds the `AccessRequest` gone, creates it, waits for the grant, deletes
  it and waits again.  The finalizer stays, though everything else has been cleaned up.  The comments in
  the test of the clean-up (`controller_test.go:366-368`) expect repeated passes to remove the finalizer; it
  fakes the deletion (line 57).  TLC finds the loop for either value of `TerminatingReady`, that is
  whether or not the library waits while an `AccessRequest` terminates.
* `DnsAnnotation`: the operation is read from the DNS-specific annotation first, but the annotation
  that is removed is always the generic one (line 176).
* `SharedNamespace`: copies of one Cluster are foreign to another Cluster in the same namespace, as
  the labels name the Cluster.  With an image pull secret, the second Cluster is never deployed, and
  the error says that the controller does not manage the secret although it does.

Six more are visible in the modules and have no run of their own:

* Without `spec.secretsToCopy` the image pull secrets are not copied (line 409, here `CopyMap`), although
  they are documented to be copied always (`dns-service-config.md:54`).
* A DNS-specific reconcile annotation is meant to override a generic ignore (comment at line 166),
  but the predicate of line 948, here `Ignored`, drops the events of a Cluster that carries either.
* The labels of a target are checked on one read (line 461) and overwritten after another (line 478):
  a foreign secret created in between is taken over.  Hence the proviso of `ForeignSpared`, for which
  `spared` leaves out what users touched during the pass.
* `mapSecretToRequests` drops the event of a source when a lookup fails (line 983), and the copies
  stay stale until something else causes a pass: with `MaxLookups = 1`, `CopiesCurrent` fails.
* Leader election is off by default (`run.go:95`).  With `LeaderElection = FALSE` in `Rollout.cfg`, TLC
  finds `NoInterference`, `TakeoverCovers`, `TakeoverConverged`, `TakesTurns` and `ImplementsDeployment`
  violated: one process cleans up while the other, which has read the Cluster earlier, deploys.  Nothing in the
  repository says that several replicas may run without it.
* `or: []` matches every Cluster, like `and: []`, because an empty list is treated like a missing one
  and falls through to line 203 of `config_types.go`.

## The proofs

The theorems about the core hold for every value of the constants that satisfies the assumptions in
`ClusterReconciler`: `ConstantsAssumption` (the constant functions have their types),
`BoundsAssumption`, `SentinelsAssumption` (the `No...` values are none of the others).  TLC evaluates
them in every run.  A condition on a constant that not every installation meets is a hypothesis of the
theorem: `~TerminatingReady` (the access library does not report a terminating `AccessRequest` as
ready), `LeaderElection`, `~Drift` (users leave the copies alone).

| theorem | statement |
|---|---|
| `TypeInvariant` | `Spec => []TypeOK` |
| `PassGuardInvariant`, `FinalizerGuardInvariant`, `KnownCoversInvariant` | from `GuardInvariant`: `Spec => []GuardInv` |
| `AccessOutlivesReleaseProperty` | `Spec => AccessOutlivesRelease`, whatever `TerminatingReady` |
| `NoTargetOrphansInvariant`, `ReleaseHasAccessInvariant`, `AccessGuardInvariant` | if `~TerminatingReady` |
| `CopyInvariant` | `Spec => []CopyGuard` |
| `CopyBeforePruneProperty`, `ReleaseAfterSecretsProperty` | the action properties, from `CopyGuard` and `GuardInv` |
| `WholeConfigurationInvariant` | `Spec => []WholeConfiguration`, if `~TerminatingReady` |
| `ConvergedInvariant` | `Spec /\ [](config \in {g, NoConfig}) => []Converged` for each `g`, if `~TerminatingReady` |
| `KnownCurrentInvariant` | `Spec /\ [][~MissesPass]_vars => []KnownCurrent`, if `~TerminatingReady` |
| `NoPassMissed` | `Spec /\ [][~Crash /\ ~FinalizerAnswerLost]_vars => [][~MissesPass]_vars` |
| `GenericConsumedInvariant` | `Spec => []GenericConsumed` |
| `FirstMatchIsFirstMeant` | the choice of an entry is the documented one, for every set of requirements without circles |
| `FirstMatchDecidesInvariant`, `PanicsOnlyIfCircularInvariant` | for `SelectorMeaning` |
| `ValuesAsDocumentedInvariant` | `Spec /\ [](config \in {g, NoConfig}) => []ValuesAsDocumented` for each `g`, if `~TerminatingReady` |
| `ImplementsDeploymentTheorem` | `Spec => ImplementsDeployment`, if `~TerminatingReady` |
| `ContractOrphansNothing` | `Spec => []NothingOrphaned` for `Deployment` |
| `CopyingKept` | `Spec => ImplementsCopying` for the core, if `~TerminatingReady` |
| `CopyingImplemented` | `Spec => ImplementsCopying` for `SecretCopy`, if `~Drift` |
| `ContractCopiesInOrder` | `Spec => []InOrder` for `CopyContract` |
| `TakesTurnsTheorem` | `Spec => TakesTurns` for `Rollout`, if `LeaderElection` |
| `NoInterferenceInvariant`, `TakeoverCoversInvariant`, `TakeoverConvergedInvariant`, `RolloutImplementsDeployment` | the core's theorems, for either process |
| `SecretTypeInvariant` | `Spec => []TypeOK` for `SecretCopy` |
| `ForeignSparedInvariant`, `OthersSparedProperty` | from `SpareInvariant`: `Spec => []SpareInv` |
| `CopiesCurrentInvariant` | `Spec /\ [][left'.lookups = left.lookups]_vars => []CopiesCurrent`, if `~Drift` |

Those about `SecretCopy` assume `SecretCopyAssumption` and `BoundsAssumption`, those about `Rollout` the
core's assumptions (`ControllerAssumption`).  Those about selectors assume that there are finitely many
requirements and that nil is none of them (`AddressesAssumption`), and that requirements have the fields of
their Go type (`ConfigurationsAssumption`, `EntriesAssumption`; the latter also says that a configuration
which was read from the API server, hence decoded from a tree, has no circle).

The argument.  `FinalizerGuard` is not inductive: that `RemoveFinalizer` may take the finalizer away
depends on what earlier calls of the same pass saw.  `PassGuard` says what is known at each call: that
the Cluster has the finalizer exactly when the pass believes so, that the release is gone from
`refreshAccess` on, the sources are not live from `removePlatform` on, and so forth.  `GuardInv ==
FinalizerGuard /\ KnownCovers /\ PassGuard` is inductive relative to `TypeOK`.  It needs three
facts about the environment: users cannot set or remove this controller's finalizer, providers only
take things away, and a Cluster without the finalizer is the only one that vanishes.

With access the same step is repeated: `AccessInv == NoTargetOrphans /\ ReleaseHasAccess /\
AccessGuard` is inductive relative to `TypeOK /\ GuardInv`, when no terminating `AccessRequest` is
reported as ready.  `AccessOutlivesRelease` needs `GuardInv` only, because just `DeleteAccess` takes
a granted access away.

`CopyGuard` is inductive relative to `TypeOK /\ GuardInv`: `worker.copied` only grows within what the
configuration of the pass asks for, nobody else touches managed copies of a Cluster that holds the
finalizer, and a loop ends with exactly that set.

`ImplementsDeploymentTheorem` uses all of these.  Every action of the core changes the life of at most
one Cluster, and at most one field of it (`FieldChange`, `OneChange`).  So the proof has one step per
action, which names the contract's action, and lemmas per field (`AccessChange`, `ReleaseChange`,
`PlacedChange` and so on) that say which contract action a change of that field is under which guard.
The guards come from the invariants: `Revoke` and `LetGo` need `PassGuard` (what the pass has seen
gone is still gone) and `ReleaseHasAccess`; `Place`, `Furnish` and `Deploy` need `AccessGuard`;
`Uninstalled`, a step of Flux, needs `ReleaseHasAccess`.  `ContractOrphansNothing` then says what the
contract is good for: a Cluster that nobody holds has nothing left, and nothing is on a target cluster
whose access is gone.

`ForeignSpared` is not inductive: whether `WriteTarget` overwrites something foreign depends on what
`CheckTarget` saw.  `SpareInv` adds that the target about to be written, and everything listed for
deletion, is not in `spared` and belongs to the Cluster of the pass, to nobody, or to a user who put
it there meanwhile.  It is preserved as users set no labels of the controller.

**Rest, in the core.**  `WholeConfiguration` is not inductive: that a pass may end depends on what it has
done with the Cluster and the configuration it read.  `RestInv` adds `PassFresh`, about the running pass:
unless a request for its Cluster is queued, the Cluster still demands what the pass saw (an edit that
matters queues a request, an edit that a predicate drops does not matter or hides behind an ignore
annotation whose removal queues one).  Then a pass that ends without a request leaves exactly what its
configuration asks for, by `CopyGuard`, `AccessGuard` and `PassGuard`, and nothing but a pass or an edit
changes what is at rest.  So the proof has one lemma for how a Cluster comes to rest (`ComesToRest`) and
one for how it stays (`AgreementKept`).

*Which* configuration it is takes a hypothesis, and `RestartRace` shows that it cannot be left out.  If
all configurations that ever exist are one (it may be deleted and come back), it is the one of every pass
and every Cluster at rest: `ConvergedInvariant`.  If configurations change freely, it is the current one
for every known Cluster, whatever fails and restarts, provided that one step does not happen:
`KnownCurrentInvariant`.  The step is `MissesPass`: the event of the change is mapped to the known Clusters
while a pass runs that read the old configuration, was not at line 244 yet, and finds its access in place.
Its invariant, `CurrentInv`, says why any other pass does no harm: a pass whose configuration became
obsolete has a request queued for its Cluster, or it stops at the request for access with a new one.
`NoPassMissed` says where the step can come from: without a restart, and without a failure between the
patch of the finalizer (line 239) and line 244, access has been asked for only for known Clusters
(`RegisteredInv`), so the first pass for a Cluster must wait.

**Rollout.**  `Turns` says that whoever works holds the lease and that the other process remembers nothing.
With leader election it is inductive, by the contract of `LeaseExpires`.  Under `Turns` each action of
`Rollout` maps to an action of the core for the process that works, `Exit` to `Crash`, and what the
waiting process observes is not seen.  The core's theorems are then used as they are, with the
refinement mapping substituted (`Core == INSTANCE ConvergenceProofs WITH ...`), and lemmas `SameAsA` and
`SameAsB` carry the result to the properties of each process.

**Copies and contents.**  `CopiesCurrent` speaks of rest too.  `SyncInv` says, for a Cluster without a
request and without a pass, that unless an event of the configuration is on its way it is known and each
copy is in sync with its source *or an event of that source is on its way*, and there are no other
copies; and, for the running pass, that the same holds of the sources it has dealt with, that the source
at hand has not changed since it was read unless there is an event, and that what it has not copied is
listed.  A source that changes makes an event; the event, delivered, queues every known Cluster.  Hence
the hypotheses: a user who changes a copy causes no event that matters (with `Drift = TRUE` in
`SecretCurrent.cfg` TLC finds `CopiesCurrent` violated), and a lookup that fails loses the event (so does
`MaxLookups = 1`).  Two sources with one target overwrite each other, in an order that chance decides; then not
both can be in sync, but the copy always is with one of them (`Served`), and the source that lost still
leads to a pass when it changes.

**The contract of copying.**  In the core, `CopyGuard` and `PassGuard` say what has been copied and that
nothing is taken for copied in a clean-up; `AccessInv` says that a clean-up never skips the target cluster
and that a Cluster which vanishes has no copies left.  The proof (`CopyingStep`) is made once for both sites:
an action either deals with the copies at a site (`CopyingCopies`, `CopyingPrunes`), or brings the pass to
them (`CopyingBegun`), goes on after them (`CopyingOver`) or leaves them (`CopyingLeft`).  In `SecretCopy` the
loops have locals of their own, and `LoopInv` says what they mean: what is left to do and what is copied
make up what is asked for, each copied name carries the labels of the Cluster, and what is going to be
deleted is all that carries them without having been copied.  It is inductive relative to `SpareInv`, which
rules out that a write or a deletion by name hits the copy of another Cluster (`OwnedWritten`), and needs
`~Drift` for what users do (`OwnedByUsers`).  `ContractCopiesInOrder` says what the contract is good for:
from the end of the copying on everything that is asked for is there, from the end of the removing on
nothing else, until the pass ends.

**Selectors.**  Two definitions by recursion are compared, `requirementMatches` by what the code does and
`Meaning` by what the docs say, and no induction theorem of the library can be used, as they take an
operator as a parameter.  The way around: that a recursive function exists at all, and that two functions
which solve the same equations are equal, is shown with a minimal counterexample.  A call sees at least one
requirement more than its caller, so the number of unseen requirements decreases; a smallest number for
which there is a call without a result would need a smaller one (`EvaluationExists`, `EvaluationUnique`,
from `LeastNatural`).  The results therefore are the only ones that satisfy the code's equations
(`Evaluation`).  `SeenMakesNoDifference` then says that as long as nothing inside a requirement has been
seen, the result does not depend on what has been: that is where the deferred `delete` matters, and why a
shared requirement does not panic.  `MatchingIsMeaning` follows the kids of requirements that do not contain
themselves; on those, "is inside" is well founded, and a requirement for which the two disagree with none
inside that does cannot be (`WellFoundedInductive`).  `FirstHit` adds the loop over the entries.
`ValuesAsDocumentedInvariant` combines `FirstMatchIsFirstMeant` with `ConvergedInvariant`: the contents of a
`HelmRelease` at rest follow from the text of the configuration, through all of the controller.

Model-checked only: all liveness (`DeletionCompletes`, `ConfigReaches`, `PassesSettle`, `CopiesConverge`,
`SomebodyLeads`), which is beyond TLAPS' reach here.

## What is not modelled

* Labels and annotations of secrets other than the owner's labels.
* Other finalizers on a Cluster.  Before this controller's finalizer is gone a Cluster stays; after
  that the cluster provider's may hold it a little longer, which `ClusterGone` being a step of its own
  covers.  The merge patches of lines 239 and 384 write the whole list of finalizers as it was read,
  so a finalizer added in between by another controller is lost; whether another controller adds one
  at that time, and what it would lose, is not in this repository.
* Leader election itself: `LeaseExpires` is its contract.  Likewise `CreateOrUpdateCRDs` of the `init`
  command is one step; that it installs the CRDs is all that matters to the rest.
* Rendering of Helm values, names, labels, logging, events, metrics: formatting.
* The `print` command, flags, certificates, metrics, scheme registration, generated code: output and
  set-up, which change no state of the system.
* The access library, Flux, the cluster provider and the API server beyond their contracts.

## Plan

The plan was, in this order: the core; `SecretCopy`; `PurposeSelector` with its documented meaning; two
processes (`Rollout`); the contracts (`Deployment`, `CopyContract`) with their refinements, by TLC and by TLAPS; the proofs of
what holds at rest; and the proof that two processes in turn are one.  All of it is done.  What could
still be added is a stronger contract in `Deployment`, with the configuration that a Cluster was last deployed for.
