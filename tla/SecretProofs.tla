---------------------------- MODULE SecretProofs ----------------------------
(***************************************************************************)
(* Proofs about SecretCopy: passes go by the labels, whoever shares the     *)
(* namespace and whatever happens between their calls, and they keep the    *)
(* contract of copying.                                                     *)
(***************************************************************************)
EXTENDS SecretProperties, TLAPS

\* The initial secrets and the idle worker have their types.
LEMMA TypeInit == Init => TypeOK
  <1> SUFFICES ASSUME Init
               PROVE  TypeOK
      OBVIOUS
  <1>1. secret \in [Places -> [Names -> MaybeSecret]]
      BY SecretCopyAssumption DEF Init
  <1>2. worker \in Worker /\ worker.pc = "idle" /\ worker.todo = {}
      BY DEF Init, Idle, Worker, MaybeSecret
  <1>3. left \in [changes: Nat, errors: Nat, lookups: Nat, crashes: Nat]
      BY BoundsAssumption DEF Init
  <1> QED
      BY <1>1, <1>2, <1>3 DEF Init, TypeOK

\* A changed secret and its event have their types.
LEMMA SetSecretType ==
    ASSUME TypeOK, NEW p \in Places, NEW n \in Names, NEW new \in MaybeSecret,
           SetSecret(p, n, new)
    PROVE  /\ secret' \in [Places -> [Names -> MaybeSecret]]
           /\ events' \subseteq Names
           /\ \A q \in Places, m \in Names :
                 secret'[q][m] = IF q = p /\ m = n THEN new ELSE secret[q][m]
  BY DEF SetSecret, TypeOK

\* Every step preserves the types.
LEMMA TypeStep == TypeOK /\ [Next]_vars => TypeOK'
  <1> SUFFICES ASSUME TypeOK, [Next]_vars
               PROVE  TypeOK'
      OBVIOUS
  <1> USE SecretCopyAssumption
  <1>0. Idle \in Worker /\ Idle.pc = "idle" /\ Idle.todo = {}
      BY DEF Idle, Worker, MaybeSecret
  <1> DEFINE Left == [changes: Nat, errors: Nat, lookups: Nat, crashes: Nat]
  <1>x. /\ left.changes > 0 => [left EXCEPT !.changes = @ - 1] \in Left
        /\ left.errors > 0 => [left EXCEPT !.errors = @ - 1] \in Left
        /\ left.lookups > 0 => [left EXCEPT !.lookups = @ - 1] \in Left
        /\ left.crashes > 0 => [left EXCEPT !.crashes = @ - 1] \in Left
      BY DEF TypeOK
  <1>1. ASSUME Requeue
        PROVE  /\ worker' = Idle /\ queue' \subseteq Clusters \cup {worker.c}
               /\ worker.pc # "idle" => queue' \subseteq Clusters
               /\ spared' = {}
      BY <1>1 DEF Requeue, TypeOK
  <1>2. ASSUME NEW c \in Clusters, Begin(c)
        PROVE  TypeOK'
    <2>1. CopyMap(config) \in [Names -> Names \cup {NoName}]
        BY DEF CopyMap, TypeOK
    <2>2. CASE c \in wanted
      <3>1. worker' = [Idle EXCEPT !.pc = "copy", !.c = c, !.deploy = TRUE,
                                   !.target = CopyMap(config),
                                   !.todo = {n \in Names : CopyMap(config)[n] # NoName}]
          BY <1>2, <2>2 DEF Begin, BeginCopying
      <3>2. /\ worker' \in Worker /\ worker'.pc = "copy" /\ worker'.c = c
            /\ \A n \in worker'.todo : worker'.target[n] \in Names
          BY <2>1, <3>1 DEF Worker, Idle, MaybeSecret
      <3> QED
          BY <1>2, <2>2, <3>2 DEF Begin, BeginCopying, TypeOK
    <2>3. CASE c \notin wanted
      <3>1. worker' = [Idle EXCEPT !.pc = "list", !.c = c]
          BY <1>2, <2>3 DEF Begin, BeginRemoving
      <3>2. worker' \in Worker /\ worker'.pc = "list" /\ worker'.c = c /\ worker'.todo = {}
          BY <3>1 DEF Worker, Idle, MaybeSecret
      <3> QED
          BY <1>2, <2>3, <3>2 DEF Begin, BeginRemoving, TypeOK
    <2> QED
        BY <2>2, <2>3
  <1>3. CASE GetSource
    <2>1. PICK n \in worker.todo :
              \/ secret[ProviderPlace][n] = NoSecret /\ Requeue
              \/ /\ secret[ProviderPlace][n] # NoSecret
                 /\ worker' = IF Identical(worker.c, n, worker.target[n])
                              THEN [worker EXCEPT !.todo = @ \ {n}, !.copied = @ \cup {n}]
                              ELSE [worker EXCEPT !.pc = "check", !.name = n,
                                                  !.read = secret[ProviderPlace][n]]
                 /\ UNCHANGED <<queue, spared>>
        BY <1>3 DEF GetSource
    <2>0. /\ UNCHANGED <<secret, config, wanted, known, events, configEvent, left>>
          /\ worker.pc = "copy"
        BY <1>3 DEF GetSource
    <2>2. n \in Names /\ secret[ProviderPlace][n] \in MaybeSecret
        BY DEF TypeOK, Worker
    <2>3. CASE Requeue
        BY <1>0, <1>1, <2>0, <2>3 DEF TypeOK
    <2>4. CASE ~Requeue /\ Identical(worker.c, n, worker.target[n])
      <3>1. worker' = [worker EXCEPT !.todo = @ \ {n}, !.copied = @ \cup {n}]
          BY <2>1, <2>4
      <3>2. worker \in Worker /\ worker.todo \ {n} \in SUBSET Names
            /\ worker.copied \cup {n} \in SUBSET Names
          BY <2>2 DEF TypeOK, Worker
      <3>3. /\ worker'.pc = "copy" /\ worker'.c = worker.c
            /\ worker'.todo = worker.todo \ {n} /\ worker'.target = worker.target
          BY <2>0, <3>1, <3>2 DEF Worker
      <3>4. worker' \in Worker
          BY <3>1, <3>2 DEF Worker
      <3> QED
          BY <2>0, <2>1, <2>4, <3>3, <3>4 DEF TypeOK
    <2>5. CASE ~Requeue /\ ~Identical(worker.c, n, worker.target[n])
      <3>1. /\ worker' = [worker EXCEPT !.pc = "check", !.name = n,
                                        !.read = secret[ProviderPlace][n]]
            /\ UNCHANGED <<queue, spared>>
          BY <2>1, <2>5
      <3>2. /\ worker' \in Worker /\ worker'.pc = "check" /\ worker'.c = worker.c
            /\ worker'.todo = worker.todo /\ worker'.target = worker.target
            /\ worker'.name = n /\ worker'.read = secret[ProviderPlace][n]
          BY <2>2, <3>1 DEF TypeOK, Worker
      <3>3. secret[ProviderPlace][n] \in Secret /\ worker.target[n] \in Names
          BY <2>1, <2>2, <2>5 DEF TypeOK, MaybeSecret
      <3> QED
        <4>1. /\ worker'.c \in Clusters /\ worker'.name \in Names /\ worker'.read \in Secret
              /\ worker'.target[worker'.name] \in Names
              /\ \A m \in worker'.todo : worker'.target[m] \in Names
            BY <2>0, <2>2, <3>2, <3>3 DEF TypeOK
        <4> QED
            BY <2>0, <3>1, <3>2, <4>1 DEF TypeOK
    <2> QED
        BY <2>3, <2>4, <2>5
  <1>4. CASE CheckTarget
    <2>1. CASE Requeue
        BY <1>0, <1>1, <1>4, <2>1 DEF CheckTarget, TypeOK
    <2>2. CASE ~Requeue
        BY <1>4, <2>2, SMTT(30) DEF CheckTarget, TypeOK, Worker
    <2> QED
        BY <2>1, <2>2
  <1>5. CASE WriteTarget
    <2>0. worker.pc = "write" /\ UNCHANGED <<config, wanted, known, configEvent, left>>
        BY <1>5 DEF WriteTarget
    <2>1. CASE Requeue /\ UNCHANGED <<secret, events>>
        BY <1>0, <1>1, <2>0, <2>1 DEF TypeOK
    <2>2. CASE SetSecret(PlaceOf[worker.c], Target, [worker.read EXCEPT !.owner = worker.c])
               /\ worker' = [worker EXCEPT !.pc = "copy", !.todo = @ \ {worker.name},
                                           !.copied = @ \cup {Target},
                                           !.name = NoName, !.read = NoSecret]
               /\ UNCHANGED <<queue, spared>>
      <3>1. /\ PlaceOf[worker.c] \in Places /\ Target \in Names
            /\ [worker.read EXCEPT !.owner = worker.c] \in MaybeSecret
          BY <1>5 DEF WriteTarget, TypeOK, Target, MaybeSecret, Secret
      <3>2. secret' \in [Places -> [Names -> MaybeSecret]] /\ events' \subseteq Names
          BY <2>2, <3>1, SetSecretType
      <3>3. /\ worker' \in Worker /\ worker'.pc = "copy" /\ worker'.c = worker.c
            /\ worker'.todo \subseteq worker.todo /\ worker'.target = worker.target
          BY <2>2, <3>1, ZenonT(60) DEF TypeOK, Worker, MaybeSecret
      <3> QED
          BY <2>0, <2>2, <3>2, <3>3 DEF TypeOK
    <2> QED
        BY <1>5, <2>1, <2>2 DEF WriteTarget
  <1>6. CASE CopyingDone \/ ListSecrets
    <2>1. /\ worker' \in Worker /\ worker'.pc \in {"list", "prune"} /\ worker'.c = worker.c
          /\ worker'.todo = worker.todo /\ worker'.target = worker.target
          /\ worker.pc # "idle"
      <3>1. Obsolete \subseteq Names
          BY DEF Obsolete
      <3>2. CASE CopyingDone
          BY <3>2 DEF CopyingDone, TypeOK, Worker
      <3>3. CASE ListSecrets
          BY <3>1, <3>3 DEF ListSecrets, TypeOK, Worker
      <3> QED
          BY <1>6, <3>2, <3>3
    <2> QED
        BY <1>6, <2>1 DEF CopyingDone, ListSecrets, TypeOK
  <1>7. CASE PruneSecrets
    <2>1. CASE worker.listed = {} /\ worker' = Idle /\ spared' = {}
               /\ known' = (IF worker.deploy THEN known ELSE known \ {worker.c})
               /\ UNCHANGED <<secret, events>>
        BY <1>0, <1>7, <2>1 DEF PruneSecrets, TypeOK
    <2>2. ASSUME NEW n \in worker.listed, SetSecret(PlaceOf[worker.c], n, NoSecret),
                 worker' = [worker EXCEPT !.listed = @ \ {n}], UNCHANGED <<known, spared>>
          PROVE  TypeOK'
      <3>1. PlaceOf[worker.c] \in Places /\ n \in Names /\ NoSecret \in MaybeSecret
          BY <1>7 DEF PruneSecrets, TypeOK, Worker, MaybeSecret
      <3>2. secret' \in [Places -> [Names -> MaybeSecret]] /\ events' \subseteq Names
          BY <2>2, <3>1, SetSecretType
      <3>3. /\ worker' \in Worker /\ worker'.pc = "prune" /\ worker'.c = worker.c
            /\ worker'.todo = worker.todo /\ worker'.target = worker.target
          BY <1>7, <2>2 DEF PruneSecrets, TypeOK, Worker
      <3> QED
          BY <1>7, <2>2, <3>2, <3>3 DEF PruneSecrets, TypeOK
    <2> QED
        BY <1>7, <2>1, <2>2 DEF PruneSecrets
  <1>8. CASE Fail
      BY <1>0, <1>1, <1>8, <1>x DEF Fail, TypeOK
  <1>9. CASE Restart
      BY <1>0, <1>9, <1>x DEF Restart, TypeOK
  <1>10. ASSUME NEW n \in Names, DeliverSecretEvent(n)
         PROVE  TypeOK'
      BY <1>10, <1>x DEF DeliverSecretEvent, TypeOK
  <1>11. CASE DeliverConfigEvent
      BY <1>11 DEF DeliverConfigEvent, TypeOK
  <1>12. CASE Users
    <2>1. ASSUME NEW c \in Clusters, ChangeCluster(c)
          PROVE  TypeOK'
        BY <1>x, <2>1 DEF ChangeCluster, UserChange, TypeOK
    <2>2. CASE ChangeConfig
        BY <1>x, <2>2 DEF ChangeConfig, UserChange, TypeOK
    <2>3. ASSUME NEW p \in Places, NEW n \in Names, ChangeSecret(p, n)
          PROVE  TypeOK'
      <3>1. PICK new \in UserSecrets(p, n) : SetSecret(p, n, new)
          BY <2>3 DEF ChangeSecret
      <3>2. new \in MaybeSecret
        <4>1. secret[p][n] \in MaybeSecret
            BY DEF TypeOK
        <4>2. CASE secret[p][n] = NoSecret
            BY <4>2 DEF UserSecrets, MaybeSecret
        <4>3. CASE secret[p][n] # NoSecret
          <5>1. \A d \in Data : [secret[p][n] EXCEPT !.data = d] \in Secret
              BY <4>1, <4>3 DEF MaybeSecret, Secret
          <5> QED
              BY <4>3, <5>1 DEF UserSecrets, MaybeSecret
        <4> QED
            BY <4>2, <4>3
      <3>3. secret' \in [Places -> [Names -> MaybeSecret]] /\ events' \subseteq Names
          BY <3>1, <3>2, SetSecretType
      <3> QED
          BY <1>x, <2>3, <3>3 DEF ChangeSecret, UserChange, TypeOK
    <2> QED
        BY <1>12, <2>1, <2>2, <2>3 DEF Users
  <1>13. CASE UNCHANGED vars
      BY <1>13 DEF vars, TypeOK
  <1> QED
      BY <1>2, <1>3, <1>4, <1>5, <1>6, <1>7, <1>8, <1>9, <1>10, <1>11, <1>12, <1>13
      DEF Next, Step

\* Every variable has its type in every behaviour.
THEOREM SecretTypeInvariant == Spec => []TypeOK
  BY TypeInit, TypeStep, PTL DEF Spec

(***************************************************************************)
(* What makes ForeignSpared and OthersSpared inductive: between its calls a  *)
(* pass may write, and has listed, only what nobody but a user has put there *)
(* if it is not its own.                                                    *)
(***************************************************************************)
SpareInv ==
    LET p == PlaceOf[worker.c]
        free(n) == n \notin spared /\ Owner(p, n) \in {worker.c, NoCluster, Foreign}
    IN  /\ ForeignSpared
        /\ worker.pc = "write" => free(Target)
        /\ worker.pc = "prune" => \A n \in worker.listed : free(n)

\* No pass runs initially.
LEMMA SpareInit == Init => SpareInv
  BY DEF Init, Idle, SpareInv, ForeignSpared

\* An idle worker relies on nothing.
LEMMA SpareIdle == worker'.pc = "idle" => SpareInv'
  BY DEF SpareInv, ForeignSpared

\* A step that leaves the secrets, the place and what was spared alone, and has
\* the worker rely on nothing new.
LEMMA SpareKept ==
    ASSUME TypeOK, SpareInv, worker.pc # "idle", UNCHANGED <<secret, spared>>,
           worker'.c = worker.c, worker'.pc \in {"copy", "check", "list"}
    PROVE  SpareInv'
  BY DEF SpareInv, ForeignSpared, Owner

\* Every step preserves SpareInv.
LEMMA SpareStep == TypeOK /\ SpareInv /\ [Next]_vars => SpareInv'
  <1> SUFFICES ASSUME TypeOK, SpareInv, [Next]_vars
               PROVE  SpareInv'
      OBVIOUS
  <1> USE SecretCopyAssumption
  <1>0. Idle.pc = "idle"
      BY DEF Idle
  <1>1. CASE Requeue \/ worker' = Idle
      BY <1>0, <1>1, SpareIdle DEF Requeue
  <1>2. ASSUME NEW c \in Clusters, Begin(c)
        PROVE  SpareInv'
    <2>1. worker'.pc \in {"copy", "list"} /\ worker'.c = c
        BY <1>2 DEF Begin, BeginCopying, BeginRemoving, Idle
    <2> QED
        BY <1>2, <2>1 DEF Begin, SpareInv, ForeignSpared, Owner
  <1>3. CASE GetSource /\ ~Requeue
    <2>1. UNCHANGED <<secret, spared>> /\ worker.pc = "copy"
        BY <1>3, Zenon DEF GetSource
    <2>2. PICK n \in worker.todo :
              \/ worker' = [worker EXCEPT !.todo = @ \ {n}, !.copied = @ \cup {n}]
              \/ worker' = [worker EXCEPT !.pc = "check", !.name = n,
                                          !.read = secret[ProviderPlace][n]]
        BY <1>3, Zenon DEF GetSource
    <2>3. worker \in Worker
        BY DEF TypeOK
    <2>4. worker'.c = worker.c /\ worker'.pc \in {"copy", "check"}
        BY <2>1, <2>2, <2>3 DEF Worker
    <2> QED
        BY <2>1, <2>4, SpareKept
  <1>4. CASE CheckTarget /\ ~Requeue
    <2>0. /\ UNCHANGED <<secret, spared>> /\ worker.pc = "check"
          /\ worker' = [worker EXCEPT !.pc = "write"] /\ Managed(PlaceOf[worker.c], Target)
        BY <1>4 DEF CheckTarget
    <2>1. /\ UNCHANGED <<secret, spared>> /\ worker.pc = "check"
          /\ worker'.c = worker.c /\ worker'.pc = "write" /\ worker'.target = worker.target
          /\ worker'.name = worker.name /\ Managed(PlaceOf[worker.c], Target)
        BY <2>0 DEF TypeOK, Worker
    <2>2. Target \notin spared
        BY <2>1 DEF Managed, SpareInv, ForeignSpared, TypeOK
    <2> QED
        BY <2>1, <2>2 DEF Managed, SpareInv, ForeignSpared, Owner, Target
  <1>5. CASE WriteTarget /\ ~Requeue
    <2>0. /\ SetSecret(PlaceOf[worker.c], Target, [worker.read EXCEPT !.owner = worker.c])
          /\ worker.pc = "write" /\ UNCHANGED spared
          /\ worker' = [worker EXCEPT !.pc = "copy", !.todo = @ \ {worker.name},
                                      !.copied = @ \cup {Target},
                                      !.name = NoName, !.read = NoSecret]
        BY <1>5 DEF WriteTarget
    <2>1. /\ SetSecret(PlaceOf[worker.c], Target, [worker.read EXCEPT !.owner = worker.c])
          /\ worker.pc = "write" /\ worker'.pc = "copy" /\ worker'.c = worker.c
          /\ UNCHANGED spared
        BY <2>0 DEF TypeOK, Worker
    <2>2. Target \notin spared /\ Target \in Names /\ PlaceOf[worker.c] \in Places
        BY <2>1 DEF SpareInv, Target, TypeOK
    <2>3. \A n \in Names \ {Target} :
              secret'[PlaceOf[worker.c]][n] = secret[PlaceOf[worker.c]][n]
        BY <2>1, <2>2 DEF SetSecret, TypeOK
    <2>4. ASSUME NEW n \in spared PROVE Owner(PlaceOf[worker.c], n)' = Foreign
      <3>1. n \in Names /\ n # Target
          BY <2>2, <2>4 DEF TypeOK
      <3>2. Owner(PlaceOf[worker.c], n) = Foreign
          BY <2>1, <2>4 DEF SpareInv, ForeignSpared
      <3> QED
          BY <2>1, <2>3, <3>1, <3>2 DEF Owner
    <2> QED
        BY <2>1, <2>4 DEF SpareInv, ForeignSpared
  <1>6. CASE CopyingDone
    <2>1. /\ UNCHANGED <<secret, spared>> /\ worker.pc # "idle"
          /\ worker'.c = worker.c /\ worker'.pc \in {"copy", "check", "list"}
        BY <1>6 DEF CopyingDone, TypeOK, Worker
    <2> QED
        BY <2>1, SpareKept
  <1>7. CASE ListSecrets
    <2>1. /\ UNCHANGED <<secret, spared>> /\ worker.pc = "list" /\ worker.c \in Clusters
          /\ worker'.c = worker.c /\ worker'.pc = "prune" /\ worker'.listed = Obsolete
        BY <1>7 DEF ListSecrets, TypeOK, Worker
    <2> QED
        BY <2>1 DEF Obsolete, SpareInv, ForeignSpared, Owner
  <1>8. CASE PruneSecrets /\ worker' # Idle
    <2>1. PICK n \in worker.listed :
              /\ SetSecret(PlaceOf[worker.c], n, NoSecret)
              /\ worker' = [worker EXCEPT !.listed = @ \ {n}]
              /\ UNCHANGED spared
        BY <1>8 DEF PruneSecrets
    <2>2. /\ worker.pc = "prune" /\ worker'.pc = "prune" /\ worker'.c = worker.c
          /\ worker'.listed = worker.listed \ {n} /\ worker.listed \subseteq Names
          /\ worker.c \in Clusters
        BY <1>8, <2>1 DEF PruneSecrets, TypeOK, Worker
    <2>3. n \notin spared /\ n \in Names /\ PlaceOf[worker.c] \in Places
        BY <2>2 DEF SpareInv
    <2>4. \A m \in Names \ {n} :
              secret'[PlaceOf[worker.c]][m] = secret[PlaceOf[worker.c]][m]
        BY <2>1, <2>3 DEF SetSecret, TypeOK
    <2>5. ASSUME NEW m \in Names \ {n}
          PROVE  Owner(PlaceOf[worker.c], m)' = Owner(PlaceOf[worker.c], m)
        BY <2>2, <2>4, <2>5 DEF Owner
    <2>6. spared \subseteq Names
        BY DEF TypeOK
    <2> QED
        BY <2>1, <2>2, <2>3, <2>5, <2>6 DEF SpareInv, ForeignSpared
  <1>9. ASSUME NEW p \in Places, NEW n \in Names, ChangeSecret(p, n)
        PROVE  SpareInv'
    <2>1. PICK new \in UserSecrets(p, n) : SetSecret(p, n, new)
        BY <1>9 DEF ChangeSecret
    <2>2. \A q \in Places, m \in Names :
              q # p \/ m # n => secret'[q][m] = secret[q][m]
        BY <2>1 DEF SetSecret, TypeOK
    <2>3. secret'[p][n] = new
        BY <2>1 DEF SetSecret, TypeOK
    <2>4. Owner(p, n)' \in {Owner(p, n), NoCluster, Foreign}
      <3>1. secret[p][n] \in MaybeSecret
          BY DEF TypeOK
      <3>2. CASE secret[p][n] = NoSecret
          BY <2>3, <3>2 DEF UserSecrets, Owner
      <3>3. CASE secret[p][n] # NoSecret /\ new # NoSecret
        <4>1. PICK d \in Data : new = [secret[p][n] EXCEPT !.data = d]
            BY <3>3 DEF UserSecrets
        <4>2. new.owner = secret[p][n].owner
            BY <3>1, <3>3, <4>1 DEF MaybeSecret, Secret
        <4>3. Owner(p, n)' = new.owner
            BY <2>3, <3>3 DEF Owner
        <4> QED
            BY <3>3, <4>2, <4>3 DEF Owner
      <3>4. CASE new = NoSecret
          BY <2>3, <3>4 DEF Owner
      <3> QED
          BY <3>2, <3>3, <3>4
    <2>5. /\ UNCHANGED worker
          /\ spared' = IF worker.pc # "idle" /\ p = PlaceOf[worker.c] THEN spared \ {n} ELSE spared
        BY <1>9 DEF ChangeSecret
    <2>6. CASE worker.pc = "idle"
        BY <2>5, <2>6, SpareIdle
    <2>7. CASE worker.pc # "idle"
      <3>1. worker.c \in Clusters /\ PlaceOf[worker.c] \in Places
          BY <2>7 DEF TypeOK
      <3>2. \A m \in Names : m # n \/ p # PlaceOf[worker.c]
                => Owner(PlaceOf[worker.c], m)' = Owner(PlaceOf[worker.c], m)
          BY <2>2, <2>5, <3>1 DEF Owner
      <3>3. ForeignSpared'
          BY <2>5, <2>7, <3>1, <3>2 DEF SpareInv, ForeignSpared, TypeOK
      <3>4. \A m \in Names :
                Owner(PlaceOf[worker.c], m) \in {worker.c, NoCluster, Foreign}
                    => Owner(PlaceOf[worker.c], m)' \in {worker.c, NoCluster, Foreign}
          BY <2>4, <2>5, <3>1, <3>2
      <3>5. worker.pc = "write" => Target \in Names
          BY DEF TypeOK, Target
      <3>6. worker.listed \subseteq Names
          BY DEF TypeOK, Worker
      <3> QED
          BY <2>5, <2>7, <3>3, <3>4, <3>5, <3>6 DEF SpareInv, Target
    <2> QED
        BY <2>6, <2>7
  <1>10. CASE UNCHANGED <<secret, worker, spared>>
      BY <1>10 DEF SpareInv, ForeignSpared, Owner, Target
  <1>11. \/ Requeue \/ worker' = Idle
         \/ UNCHANGED <<secret, worker, spared>>
         \/ \E c \in Clusters : Begin(c)
         \/ \E p \in Places, n \in Names : ChangeSecret(p, n)
         \/ GetSource \/ CheckTarget \/ WriteTarget \/ CopyingDone \/ ListSecrets
         \/ PruneSecrets
      BY DEF Next, Step, Users, Fail, Restart, DeliverSecretEvent, DeliverConfigEvent,
             ChangeCluster, ChangeConfig, vars
  <1> QED
      BY <1>1, <1>2, <1>3, <1>4, <1>5, <1>6, <1>7, <1>8, <1>9, <1>10, <1>11

\* SpareInv is an invariant.
THEOREM SpareInvariant == Spec => []SpareInv
  <1>1. TypeOK /\ SpareInv /\ [Next]_vars => SpareInv'
      BY SpareStep
  <1> QED
      BY <1>1, SpareInit, SecretTypeInvariant, PTL DEF Spec

\* No pass takes over or deletes a foreign secret that it could have seen from
\* its beginning.
THEOREM ForeignSparedInvariant == Spec => []ForeignSpared
  <1>1. SpareInv => ForeignSpared
      BY DEF SpareInv
  <1> QED
      BY <1>1, SpareInvariant, PTL

\* Clusters that share a namespace keep their copies from each other's passes.
THEOREM OthersSparedProperty == Spec => OthersSpared
  <1> DEFINE Spared ==
          \A c \in Clusters, p \in Places, n \in Names :
              Owner(p, n) = c /\ secret'[p][n] # secret[p][n] /\ worker' # worker
                  => worker.c = c
  <1>1. TypeOK /\ SpareInv /\ [Next]_vars => [Spared]_vars
    <2> SUFFICES ASSUME TypeOK, SpareInv, Next,
                        NEW c \in Clusters, NEW p \in Places, NEW n \in Names,
                        Owner(p, n) = c, secret'[p][n] # secret[p][n], worker' # worker
                 PROVE  worker.c = c
        OBVIOUS
    <2> USE SecretCopyAssumption
    <2>1. CASE UNCHANGED secret \/ UNCHANGED worker
        BY <2>1
    <2>2. CASE WriteTarget /\ ~UNCHANGED secret
      <3>1. /\ SetSecret(PlaceOf[worker.c], Target, [worker.read EXCEPT !.owner = worker.c])
            /\ worker.pc = "write" /\ Target \in Names /\ PlaceOf[worker.c] \in Places
          BY <2>2 DEF WriteTarget, TypeOK, Target
      <3>2. p = PlaceOf[worker.c] /\ n = Target
          BY <3>1 DEF SetSecret, TypeOK
      <3> QED
          BY <3>1, <3>2 DEF SpareInv
    <2>3. CASE PruneSecrets /\ ~UNCHANGED secret
      <3>1. PICK m \in worker.listed : SetSecret(PlaceOf[worker.c], m, NoSecret)
          BY <2>3 DEF PruneSecrets
      <3>2. worker.pc = "prune" /\ m \in Names /\ PlaceOf[worker.c] \in Places
          BY <2>3 DEF PruneSecrets, TypeOK, Worker
      <3>3. p = PlaceOf[worker.c] /\ n = m
          BY <3>1, <3>2 DEF SetSecret, TypeOK
      <3> QED
          BY <3>2, <3>3 DEF SpareInv
    <2> QED
        BY <2>1, <2>2, <2>3
        DEF Next, Step, Users, Begin, GetSource, CheckTarget, CopyingDone, ListSecrets, Fail,
            Restart, DeliverSecretEvent, DeliverConfigEvent, ChangeCluster, ChangeConfig,
            ChangeSecret
  <1> QED
      BY <1>1, SpareInvariant, SecretTypeInvariant, PTL DEF Spec, OthersSpared

-----------------------------------------------------------------------------
(* Rest: the copies of a Cluster that nobody is about to reconcile. *)

Maps == [Names -> Names \cup {NoName}]

\* With the targets t, source n has a copy for Cluster c that is not itself.
HasCopy(c, t, n) == t[n] # NoName /\ ~Identical(c, n, t[n])

\* That copy is there, and current unless an event of the source is on its way.
InSync(c, t, n) ==
    /\ Owner(PlaceOf[c], t[n]) = c
    /\ \/ n \in events
       \/ /\ secret[ProviderPlace][n] # NoSecret
          /\ secret[PlaceOf[c]][t[n]] = [secret[ProviderPlace][n] EXCEPT !.owner = c]

\* The source n is there, and the copy it asks for is in sync with it, or with
\* another source that goes to the same target.
Served(c, t, n) ==
    /\ n \in events \/ secret[ProviderPlace][n] # NoSecret
    /\ \E m \in Names : t[m] = t[n] /\ HasCopy(c, t, m) /\ InSync(c, t, m)

Targets(t) == {t[n] : n \in Names}

Busy(c) == worker.pc # "idle" /\ worker.c = c

\* What is known of a Cluster without a request and without a pass: unless an
\* event of the configuration is on its way, its copies are in sync with the
\* targets of the configuration; and it is known, so that events reach it.
RestOf(c, t) ==
    c \notin queue /\ ~Busy(c) /\ t = CopyMap(config)
        => IF c \in wanted
           THEN /\ c \in known
                /\ \/ configEvent
                   \/ /\ \A n \in Names : HasCopy(c, t, n) => Served(c, t, n)
                      /\ Owned(c) \subseteq Targets(t)
           ELSE Owned(c) = {}

\* What a pass has done so far, when no request would have it done again: what
\* was copied is in sync, and what is not copied is listed.
PassOf(c, t) ==
    Busy(c) /\ c \notin queue /\ t = worker.target
        => /\ worker.deploy <=> c \in wanted
           /\ worker.deploy => c \in known
           /\ worker.copied \subseteq IF worker.deploy THEN Targets(t) ELSE {}
           /\ worker.pc \in {"copy", "check", "write"} => worker.deploy
           /\ worker.pc \in {"list", "prune"} => worker.todo = {}
           /\ worker.pc = "prune" => /\ Owned(c) \subseteq worker.copied \cup worker.listed
                                     /\ worker.copied \cap worker.listed = {}
           /\ worker.deploy /\ ~configEvent
                  => /\ t = CopyMap(config)
                     /\ \A n \in Names \ worker.todo :
                           t[n] # NoName => /\ t[n] \in worker.copied
                                            /\ HasCopy(c, t, n) => Served(c, t, n)
           /\ worker.pc \in {"check", "write"} /\ ~configEvent
                  => /\ worker.name \in worker.todo
                     /\ HasCopy(c, t, worker.name)
                     /\ \/ worker.name \in events
                        \/ secret[ProviderPlace][worker.name] = worker.read

SyncInv == \A c \in Clusters, t \in Maps : RestOf(c, t) /\ PassOf(c, t)

\* The configuration in force has targets.
LEMMA CopyMapType == TypeOK => CopyMap(config) \in Maps
  BY SecretCopyAssumption DEF CopyMap, TypeOK, Maps

\* Initially every Cluster is queued.
LEMMA SyncInit == Init => SyncInv
  BY DEF Init, SyncInv, RestOf, PassOf, Busy, Idle

\* A copy stays in sync when another secret is written: if that is its source,
\* there is an event.
LEMMA SyncKept ==
    ASSUME TypeOK, NEW c \in Clusters, NEW t \in Maps, NEW n \in Names,
           NEW p \in Places, NEW m \in Names, NEW new \in MaybeSecret, SetSecret(p, m, new),
           InSync(c, t, n), t[n] # NoName, <<PlaceOf[c], t[n]>> # <<p, m>>
    PROVE  InSync(c, t, n)'
  <1>1. PlaceOf[c] \in Places /\ t[n] \in Names /\ ProviderPlace \in Places
      BY SecretCopyAssumption DEF Maps
  <1>2. \A q \in Places, k \in Names :
            secret'[q][k] = IF q = p /\ k = m THEN new ELSE secret[q][k]
      BY SetSecretType
  <1>3. secret'[PlaceOf[c]][t[n]] = secret[PlaceOf[c]][t[n]]
      BY <1>1, <1>2
  <1>4. /\ events \subseteq events'
        /\ secret'[ProviderPlace][n] # secret[ProviderPlace][n] => n \in events'
      BY <1>1, <1>2 DEF SetSecret
  <1> QED
      BY <1>3, <1>4 DEF InSync, Owner

\* Nor does a source cease to be served.
LEMMA ServedKept ==
    ASSUME TypeOK, NEW c \in Clusters, NEW t \in Maps, NEW n \in Names,
           NEW p \in Places, NEW m \in Names, NEW new \in MaybeSecret, SetSecret(p, m, new),
           Served(c, t, n), t[n] # NoName, <<PlaceOf[c], t[n]>> # <<p, m>>
    PROVE  Served(c, t, n)'
  <1>1. PICK k \in Names : t[k] = t[n] /\ HasCopy(c, t, k) /\ InSync(c, t, k)
      BY DEF Served
  <1>2. InSync(c, t, k)' /\ HasCopy(c, t, k)'
      BY <1>1, SyncKept DEF HasCopy, Identical
  <1>3. n \in events' \/ secret'[ProviderPlace][n] # NoSecret
    <2>1. /\ events \subseteq events'
          /\ secret'[ProviderPlace][n] # secret[ProviderPlace][n] => n \in events'
        BY SetSecretType, SecretCopyAssumption DEF SetSecret
    <2> QED
        BY <2>1 DEF Served
  <1> QED
      BY <1>1, <1>2, <1>3 DEF Served

\* Secrets that nobody touches are as current as before, or an event is on its
\* way.
LEMMA ServedSame ==
    ASSUME UNCHANGED secret, events \subseteq events', NEW c, NEW t, NEW n, Served(c, t, n)
    PROVE  Served(c, t, n)'
  BY DEF Served, HasCopy, InSync, Identical, Owner

\* Nobody but c owns more, or other, secrets than before.
LEMMA OwnedKept ==
    ASSUME TypeOK, NEW c \in Clusters, NEW p \in Places, NEW m \in Names,
           NEW new \in MaybeSecret, SetSecret(p, m, new),
           new = NoSecret \/ new.owner # c
    PROVE  /\ Owned(c)' \subseteq Owned(c)
           /\ p = PlaceOf[c] => Owned(c)' \subseteq Owned(c) \ {m}
  <1>1. PlaceOf[c] \in Places /\ c # NoCluster
      BY SecretCopyAssumption
  <1>2. \A q \in Places, k \in Names :
            secret'[q][k] = IF q = p /\ k = m THEN new ELSE secret[q][k]
      BY SetSecretType
  <1> QED
      BY <1>1, <1>2 DEF Owned, Owner

\* Nothing that matters to a Cluster at rest changes.
LEMMA RestKept ==
    ASSUME NEW c \in Clusters, NEW t \in Maps, RestOf(c, t),
           c \notin queue' /\ ~Busy(c)' => c \notin queue /\ ~Busy(c),
           UNCHANGED <<secret, config>>, events \subseteq events',
           c \in wanted' <=> c \in wanted, c \in known => c \in known',
           configEvent => configEvent'
    PROVE  RestOf(c, t)'
  BY ServedSame DEF RestOf, Owned, Owner, HasCopy, CopyMap, Identical

\* A secret is written that belongs to c neither before nor after.
LEMMA RestWritten ==
    ASSUME TypeOK, NEW c \in Clusters, NEW t \in Maps, RestOf(c, t),
           NEW p \in Places, NEW m \in Names, NEW new \in MaybeSecret, SetSecret(p, m, new),
           Owner(p, m) # c, new = NoSecret \/ new.owner # c,
           c \notin queue' /\ ~Busy(c)' => c \notin queue /\ ~Busy(c),
           UNCHANGED <<config, wanted, known, configEvent>>
    PROVE  RestOf(c, t)'
  <1>1. Owned(c)' \subseteq Owned(c)
      BY OwnedKept
  <1>2. ASSUME NEW n \in Names, Served(c, t, n), t[n] # NoName
        PROVE  Served(c, t, n)'
    <2>1. <<PlaceOf[c], t[n]>> # <<p, m>>
        BY <1>2 DEF Served, InSync
    <2> QED
        BY <1>2, <2>1, ServedKept
  <1>3. \A n \in Names : HasCopy(c, t, n) => t[n] # NoName /\ HasCopy(c, t, n)'
      BY DEF HasCopy, Identical
  <1>4. (t = CopyMap(config))' <=> t = CopyMap(config)
      BY DEF CopyMap
  <1>5. \A n \in Names : HasCopy(c, t, n)' => HasCopy(c, t, n)
      BY DEF HasCopy, Identical
  <1> QED
      BY <1>1, <1>2, <1>3, <1>4, <1>5 DEF RestOf

\* The same for the Cluster of the running pass, when users act.
LEMMA PassWritten ==
    ASSUME TypeOK, NEW c \in Clusters, NEW t \in Maps, PassOf(c, t),
           NEW p \in Places, NEW m \in Names, NEW new \in MaybeSecret, SetSecret(p, m, new),
           Owner(p, m) # c, new = NoSecret \/ new.owner # c,
           UNCHANGED <<worker, queue, config, wanted, known, configEvent>>
    PROVE  PassOf(c, t)'
  <1> SUFFICES ASSUME Busy(c), c \notin queue, t = worker.target
               PROVE  PassOf(c, t)'
      BY DEF PassOf, Busy
  <1>1. Owned(c)' \subseteq Owned(c)
      BY OwnedKept
  <1>2. ASSUME NEW n \in Names, Served(c, t, n), t[n] # NoName
        PROVE  Served(c, t, n)'
    <2>1. <<PlaceOf[c], t[n]>> # <<p, m>>
        BY <1>2 DEF Served, InSync
    <2> QED
        BY <1>2, <2>1, ServedKept
  <1>3. \A n \in Names : HasCopy(c, t, n)' <=> HasCopy(c, t, n)
      BY DEF HasCopy, Identical
  <1>4. (t = CopyMap(config))' <=> t = CopyMap(config)
      BY DEF CopyMap
  <1>5. ASSUME worker.name \in Names, worker.read = secret[ProviderPlace][worker.name]
        PROVE  worker.name \in events' \/ worker.read = secret'[ProviderPlace][worker.name]
      BY <1>5, SetSecretType, SecretCopyAssumption DEF SetSecret
  <1>6. events \subseteq events'
      BY DEF SetSecret
  <1>7. worker.todo \subseteq Names
      BY DEF TypeOK, Worker
  <1>8. Busy(c)' <=> Busy(c)
      BY DEF Busy
  <1>9. HasCopy(c, t, worker.name)' <=> HasCopy(c, t, worker.name)
      BY DEF HasCopy, Identical
  <1> QED
      BY <1>1, <1>2, <1>3, <1>4, <1>5, <1>6, <1>7, <1>8, <1>9 DEF PassOf, HasCopy

\* Whoever owns a secret that a pass writes or deletes, it is no other Cluster.
LEMMA OwnOnly ==
    ASSUME TypeOK, SpareInv, NEW c \in Clusters, worker.c # c, worker.pc # "idle",
           NEW m \in Names,
           \/ worker.pc = "write" /\ m = Target
           \/ worker.pc = "prune" /\ m \in worker.listed
    PROVE  Owner(PlaceOf[worker.c], m) # c
  BY SecretCopyAssumption DEF SpareInv

\* The step of a pass that changes nothing but what the pass remembers.
LEMMA RestBusy ==
    ASSUME TypeOK, NEW c \in Clusters, NEW t \in Maps, RestOf(c, t), worker.pc # "idle",
           \/ Requeue
           \/ worker'.pc # "idle" /\ worker'.c = worker.c /\ UNCHANGED queue,
           UNCHANGED <<secret, config, wanted, known, events, configEvent>>
    PROVE  RestOf(c, t)'
  <1>1. c \notin queue' /\ ~Busy(c)' => c \notin queue /\ ~Busy(c)
      BY DEF Busy, Requeue
  <1> QED
      BY <1>1, RestKept

\* Every step preserves SyncInv, if users leave the copies alone and no lookup
\* of the secret watch fails.
LEMMA SyncStep ==
    ASSUME TypeOK, SpareInv, SyncInv, [Next]_vars, ~Drift,
           left'.lookups = left.lookups
    PROVE  SyncInv'
  <1> SUFFICES ASSUME NEW c \in Clusters, NEW t \in Maps
               PROVE  RestOf(c, t)' /\ PassOf(c, t)'
      BY DEF SyncInv, Maps
  <1> USE SecretCopyAssumption
  <1>0. RestOf(c, t) /\ PassOf(c, t) /\ RestOf(c, CopyMap(config))
      BY CopyMapType DEF SyncInv
  <1>i. Idle.pc = "idle"
      BY DEF Idle
  <1>t. worker \in Worker /\ worker.todo \subseteq Names /\ worker.listed \subseteq Names
      BY DEF TypeOK, Worker
  <1>1. CASE UNCHANGED vars
      BY <1>0, <1>1, RestKept, ServedSame
      DEF vars, RestOf, PassOf, Busy, Owned, Owner, HasCopy, CopyMap, Identical
  <1>2. CASE Requeue /\ worker.pc # "idle"
             /\ UNCHANGED <<secret, config, wanted, known, events, configEvent>>
    <2>1. RestOf(c, t)'
        BY <1>0, <1>2, RestBusy
    <2> QED
        BY <1>i, <1>2, <2>1 DEF Requeue, PassOf, Busy
  <1>3. ASSUME NEW d \in Clusters, Begin(d)
        PROVE  RestOf(c, t)' /\ PassOf(c, t)'
    <2>1. /\ worker'.c = d /\ worker'.pc \in {"copy", "list"} /\ worker'.copied = {}
          /\ worker'.deploy <=> d \in wanted
          /\ d \in wanted => /\ worker'.pc = "copy" /\ known' = known \cup {d}
                             /\ worker'.target = CopyMap(config)
                             /\ worker'.todo = {n \in Names : CopyMap(config)[n] # NoName}
          /\ d \notin wanted => worker'.pc = "list" /\ known' = known /\ worker'.todo = {}
        BY <1>3 DEF Begin, BeginCopying, BeginRemoving, Idle
    <2>2. /\ worker.pc = "idle" /\ queue' = queue \ {d}
          /\ UNCHANGED <<secret, config, wanted, events, configEvent>>
        BY <1>3 DEF Begin
    <2>3. RestOf(c, t)'
      <3>1. c \notin queue' /\ ~Busy(c)' => c \notin queue /\ ~Busy(c)
          BY <2>1, <2>2 DEF Busy
      <3> QED
          BY <1>0, <2>1, <2>2, <3>1, RestKept
    <2>4. CopyMap(config)' = CopyMap(config)
        BY <2>2 DEF CopyMap
    <2>5. PassOf(c, t)'
      <3>1. CASE c # d
          BY <2>1, <3>1 DEF PassOf, Busy
      <3>2. CASE c = d /\ c \in wanted
          BY <2>1, <2>2, <2>4, <3>2 DEF PassOf
      <3>3. CASE c = d /\ c \notin wanted
          BY <2>1, <2>2, <3>3 DEF PassOf
      <3> QED
          BY <3>1, <3>2, <3>3
    <2> QED
        BY <2>3, <2>5
  <1>4. CASE GetSource /\ ~Requeue
    <2>1. PICK n \in worker.todo :
              /\ secret[ProviderPlace][n] # NoSecret
              /\ worker' = IF Identical(worker.c, n, worker.target[n])
                           THEN [worker EXCEPT !.todo = @ \ {n}, !.copied = @ \cup {n}]
                           ELSE [worker EXCEPT !.pc = "check", !.name = n,
                                               !.read = secret[ProviderPlace][n]]
        BY <1>4 DEF GetSource
    <2>2. /\ UNCHANGED <<queue, secret, config, wanted, known, events, configEvent>>
          /\ worker.pc = "copy"
        BY <1>4 DEF GetSource
    <2>3. /\ worker'.c = worker.c /\ worker'.deploy = worker.deploy
          /\ worker'.target = worker.target /\ worker'.pc \in {"copy", "check"}
        BY <1>t, <2>1, <2>2 DEF Worker
    <2>4. RestOf(c, t)'
        BY <1>0, <2>2, <2>3, RestBusy
    <2>5. n \in Names /\ worker.target[n] \in Names
        BY <1>t, <2>1 DEF TypeOK
    <2>6. CASE Identical(worker.c, n, worker.target[n])
      <3>1. /\ worker'.todo = worker.todo \ {n} /\ worker'.copied = worker.copied \cup {n}
            /\ worker'.pc = "copy" /\ worker.target[n] = n
          BY <1>t, <2>1, <2>2, <2>6 DEF Worker, Identical
      <3>2. n \in Targets(worker.target)
          BY <2>5, <3>1 DEF Targets
      <3>3. PassOf(c, t)'
          BY <1>0, <2>2, <2>3, <2>5, <2>6, <3>1, <3>2, ServedSame
          DEF PassOf, Busy, Owned, Owner, HasCopy, CopyMap, Identical, Targets
      <3> QED
          BY <2>4, <3>3
    <2>7. CASE ~Identical(worker.c, n, worker.target[n])
      <3>1. /\ worker'.todo = worker.todo /\ worker'.copied = worker.copied
            /\ worker'.pc = "check" /\ worker'.name = n
            /\ worker'.read = secret[ProviderPlace][n]
          BY <1>t, <2>1, <2>2, <2>7 DEF Worker
      <3>2. PassOf(c, t)'
          BY <1>0, <2>1, <2>2, <2>3, <2>5, <2>7, <3>1, ServedSame
          DEF PassOf, Busy, Owned, Owner, HasCopy, CopyMap, Identical, Targets
      <3> QED
          BY <2>4, <3>2
    <2> QED
        BY <2>6, <2>7
  <1>5. CASE (CheckTarget /\ ~Requeue) \/ CopyingDone
    <2>1. /\ UNCHANGED <<queue, secret, config, wanted, known, events, configEvent>>
          /\ worker'.c = worker.c /\ worker'.deploy = worker.deploy
          /\ worker'.target = worker.target /\ worker'.todo = worker.todo
          /\ worker'.copied = worker.copied /\ worker'.name = worker.name
          /\ worker'.read = worker.read
          /\ \/ worker.pc = "check" /\ worker'.pc = "write"
             \/ worker.pc = "copy" /\ worker'.pc = "list" /\ worker.todo = {}
        BY <1>5, <1>t DEF CheckTarget, CopyingDone, Worker
    <2>2. RestOf(c, t)'
        BY <1>0, <2>1, RestBusy
    <2>3. PassOf(c, t)'
        BY <1>0, <2>1, ServedSame DEF PassOf, Busy, Owned, Owner, HasCopy, CopyMap, Identical
    <2> QED
        BY <2>2, <2>3
  <1>6. CASE ListSecrets
    <2>1. /\ UNCHANGED <<queue, secret, config, wanted, known, events, configEvent>>
          /\ worker'.c = worker.c /\ worker'.deploy = worker.deploy
          /\ worker'.target = worker.target /\ worker'.todo = worker.todo
          /\ worker'.copied = worker.copied /\ worker'.listed = Obsolete
          /\ worker.pc = "list" /\ worker'.pc = "prune"
        BY <1>6, <1>t DEF ListSecrets, Worker
    <2>2. RestOf(c, t)'
        BY <1>0, <2>1, RestBusy
    <2>3. Obsolete = Owned(worker.c) \ worker.copied
        BY DEF Obsolete, Owned
    <2>4. PassOf(c, t)'
        BY <1>0, <2>1, <2>3, ServedSame
        DEF PassOf, Busy, Owned, Owner, HasCopy, CopyMap, Identical
    <2> QED
        BY <2>2, <2>4
  <1>7. CASE WriteTarget /\ ~Requeue
    <2> DEFINE new == [worker.read EXCEPT !.owner = worker.c]
    <2>1. /\ SetSecret(PlaceOf[worker.c], Target, new)
          /\ worker' = [worker EXCEPT !.pc = "copy", !.todo = @ \ {worker.name},
                                      !.copied = @ \cup {Target},
                                      !.name = NoName, !.read = NoSecret]
          /\ UNCHANGED <<queue, config, wanted, known, configEvent>>
          /\ worker.pc = "write"
        BY <1>7 DEF WriteTarget
    <2>2. /\ worker'.c = worker.c /\ worker'.deploy = worker.deploy
          /\ worker'.target = worker.target /\ worker'.pc = "copy"
          /\ worker'.todo = worker.todo \ {worker.name}
          /\ worker'.copied = worker.copied \cup {Target}
        BY <1>t, <2>1 DEF Worker
    <2>3. /\ worker.c \in Clusters /\ PlaceOf[worker.c] \in Places
          /\ worker.name \in Names /\ Target \in Names /\ Target = worker.target[worker.name]
          /\ worker.read \in Secret /\ new \in MaybeSecret /\ new \in Secret /\ new.owner = worker.c
        BY <2>1 DEF TypeOK, Target, Secret, MaybeSecret
    <2>4. CASE worker.c # c
      <3>1. Owner(PlaceOf[worker.c], Target) # c
          BY <2>1, <2>3, <2>4, OwnOnly
      <3>2. c \notin queue' /\ ~Busy(c)' => c \notin queue /\ ~Busy(c)
          BY <2>1, <2>2, <2>4 DEF Busy
      <3>3. RestOf(c, t)'
        <4>1. new # NoSecret /\ new.owner # c
            BY <2>3, <2>4
        <4> QED
            BY <1>0, <2>1, <2>3, <3>1, <3>2, <4>1, RestWritten
      <3> QED
          BY <2>2, <2>4, <3>3 DEF PassOf, Busy
    <2>5. CASE worker.c = c
      <3>1. RestOf(c, t)'
          BY <2>2, <2>5 DEF RestOf, Busy
      <3>2. SUFFICES ASSUME c \notin queue, t = worker.target
                     PROVE  PassOf(c, t)'
          BY <2>1, <2>2, <3>1 DEF PassOf
      <3>3. /\ worker.deploy /\ c \in wanted
            /\ c \in known /\ worker.copied \subseteq Targets(t)
          BY <1>0, <2>1, <2>5, <3>2 DEF PassOf, Busy
      <3>4. Target \in Targets(t)
          BY <2>3, <3>2 DEF Targets
      <3>5. PICK k \in Names : k = worker.name
          BY <2>3
      <3>6. ASSUME ~configEvent
            PROVE  /\ t = CopyMap(config)
                   /\ \A n \in Names \ (worker.todo \ {k}) :
                         t[n] # NoName => /\ t[n] \in worker.copied \cup {Target}
                                          /\ HasCopy(c, t, n) => Served(c, t, n)'
        <4>1. /\ t = CopyMap(config) /\ HasCopy(c, t, k)
              /\ k \in events \/ secret[ProviderPlace][k] = worker.read
              /\ \A n \in Names \ worker.todo :
                    t[n] # NoName => /\ t[n] \in worker.copied
                                     /\ HasCopy(c, t, n) => Served(c, t, n)
            BY <1>0, <2>1, <2>5, <3>2, <3>3, <3>5, <3>6 DEF PassOf, Busy
        <4>2. \A q \in Places, m \in Names :
                  secret'[q][m] = IF q = PlaceOf[c] /\ m = Target THEN new ELSE secret[q][m]
            BY <2>1, <2>3, <2>5, SetSecretType
        <4>3. InSync(c, t, k)'
          <5>1. secret'[ProviderPlace][k] = secret[ProviderPlace][k]
              BY <2>3, <3>2, <3>5, <4>1, <4>2 DEF HasCopy, Identical
          <5>2. secret'[PlaceOf[c]][t[k]] = new /\ new # NoSecret
              BY <2>3, <2>5, <3>2, <3>5, <4>2
          <5>3. events \subseteq events'
              BY <2>1 DEF SetSecret
          <5>4. worker.read # NoSecret /\ new.owner = c /\ new = [worker.read EXCEPT !.owner = c]
              BY <2>3, <2>5
          <5> HIDE DEF new
          <5>5. Owner(PlaceOf[c], t[k])' = c
              BY <5>2, <5>4 DEF Owner
          <5>6. \/ k \in events'
                \/ /\ secret'[ProviderPlace][k] # NoSecret
                   /\ secret'[PlaceOf[c]][t[k]] = [secret'[ProviderPlace][k] EXCEPT !.owner = c]
              BY <4>1, <5>1, <5>2, <5>3, <5>4
          <5> QED
              BY <5>5, <5>6 DEF InSync
        <4>4. ASSUME NEW n \in Names, \/ n = k
                                      \/ Served(c, t, n) /\ t[n] # NoName
              PROVE  Served(c, t, n)'
          <5>1. CASE t[n] = Target
            <6>1. n \in events' \/ secret'[ProviderPlace][n] # NoSecret
              <7>1. ASSUME secret'[ProviderPlace][n] # secret[ProviderPlace][n]
                    PROVE  n \in events'
                <8>1. /\ PlaceOf[worker.c] = ProviderPlace /\ n = Target
                      /\ secret'[ProviderPlace][n] = new
                    BY <2>5, <4>2, <7>1, SecretCopyAssumption
                <8>2. new # secret[PlaceOf[worker.c]][Target]
                    BY <7>1, <8>1
                <8> QED
                    BY <2>1, <8>1, <8>2 DEF SetSecret
              <7>2. n \in events \/ secret[ProviderPlace][n] # NoSecret
                  BY <2>3, <4>1, <4>4 DEF Served
              <7>3. events \subseteq events'
                  BY <2>1 DEF SetSecret
              <7> QED
                  BY <7>1, <7>2, <7>3
            <6>2. t[k] = t[n] /\ HasCopy(c, t, k)'
                BY <2>3, <3>2, <3>5, <4>1, <5>1 DEF HasCopy, Identical
            <6> QED
                BY <4>3, <6>1, <6>2 DEF Served
          <5>2. CASE t[n] # Target
            <6>1. Served(c, t, n) /\ t[n] # NoName
                BY <2>3, <3>2, <3>5, <4>4, <5>2
            <6> QED
                BY <2>1, <2>3, <2>5, <5>2, <6>1, ServedKept
          <5> QED
              BY <5>1, <5>2
        <4>5. ASSUME NEW n \in Names \ (worker.todo \ {k}), t[n] # NoName
              PROVE  /\ t[n] \in worker.copied \cup {Target}
                     /\ HasCopy(c, t, n) => Served(c, t, n)'
          <5>1. CASE n = k
              BY <2>3, <3>2, <3>5, <4>4, <5>1
          <5>2. CASE n # k
            <6>1. n \in Names \ worker.todo
                BY <4>5, <5>2
            <6> QED
                BY <4>1, <4>4, <4>5, <5>2, <6>1
          <5> QED
              BY <5>1, <5>2
        <4> QED
            BY <4>1, <4>5
      <3>7. CopyMap(config)' = CopyMap(config)
          BY <2>1 DEF CopyMap
      <3>8. \A n \in Names : HasCopy(c, t, n)' <=> HasCopy(c, t, n)
          BY DEF HasCopy, Identical
      <3>9. /\ worker'.copied \subseteq Targets(t)'
            /\ worker'.deploy /\ c \in wanted' /\ c \in known'
        <4>1. worker'.copied \subseteq Targets(t)'
            BY <2>2, <3>3, <3>4 DEF Targets
        <4>2. c \in wanted' /\ c \in known'
          <5>1. wanted' = wanted /\ known' = known
              BY <2>1
          <5> QED
              BY <3>3, <5>1
        <4>3. worker'.deploy
            BY <2>2, <3>3
        <4> QED
            BY <4>1, <4>2, <4>3
      <3>10. ~configEvent' => /\ t = CopyMap(config)'
                              /\ \A n \in Names \ worker'.todo :
                                    t[n] # NoName => /\ t[n] \in worker'.copied
                                                     /\ HasCopy(c, t, n)' => Served(c, t, n)'
          BY <2>1, <2>2, <3>5, <3>6, <3>7, <3>8
      <3> QED
          BY <2>2, <3>9, <3>10 DEF PassOf
    <2> QED
        BY <2>4, <2>5
  <1>8. ASSUME PruneSecrets, NEW k \in worker.listed, SetSecret(PlaceOf[worker.c], k, NoSecret),
               worker' = [worker EXCEPT !.listed = @ \ {k}], UNCHANGED <<known, spared>>
        PROVE  RestOf(c, t)' /\ PassOf(c, t)'
    <2>1. /\ UNCHANGED <<queue, config, wanted, known, configEvent>>
          /\ worker.pc = "prune" /\ worker.c \in Clusters
        BY <1>8 DEF PruneSecrets, TypeOK
    <2>2. /\ worker'.c = worker.c /\ worker'.deploy = worker.deploy
          /\ worker'.target = worker.target /\ worker'.pc = "prune"
          /\ worker'.todo = worker.todo /\ worker'.copied = worker.copied
          /\ worker'.listed = worker.listed \ {k}
        BY <1>t, <1>8, <2>1 DEF Worker
    <2>3. PlaceOf[worker.c] \in Places /\ k \in Names /\ NoSecret \in MaybeSecret
        BY <1>t, <2>1 DEF MaybeSecret
    <2>4. CASE worker.c # c
      <3>1. Owner(PlaceOf[worker.c], k) # c
          BY <2>1, <2>3, <2>4, OwnOnly
      <3>2. c \notin queue' /\ ~Busy(c)' => c \notin queue /\ ~Busy(c)
          BY <2>1, <2>2, <2>4 DEF Busy
      <3>3. RestOf(c, t)'
          BY <1>0, <1>8, <2>1, <2>3, <3>1, <3>2, RestWritten
      <3> QED
          BY <2>2, <2>4, <3>3 DEF PassOf, Busy
    <2>5. CASE worker.c = c
      <3>1. RestOf(c, t)'
          BY <2>2, <2>5 DEF RestOf, Busy
      <3>2. Owned(c)' \subseteq Owned(c) \ {k}
          BY <1>8, <2>3, <2>5, OwnedKept
      <3>3. ASSUME NEW n \in Names, Served(c, t, n), t[n] # NoName, t[n] # k
            PROVE  Served(c, t, n)'
          BY <1>8, <2>3, <2>5, <3>3, ServedKept
      <3>4. Busy(c)' /\ CopyMap(config)' = CopyMap(config)
          BY <2>1, <2>2, <2>5 DEF Busy, CopyMap
      <3>5. \A n \in Names : HasCopy(c, t, n)' <=> HasCopy(c, t, n)
          BY DEF HasCopy, Identical
      <3>6. PassOf(c, t)'
          BY <1>0, <2>1, <2>2, <2>5, <3>2, <3>3, <3>4, <3>5 DEF PassOf, Busy
      <3> QED
          BY <3>1, <3>6
    <2> QED
        BY <2>4, <2>5
  <1>9. CASE PruneSecrets /\ worker.listed = {} /\ worker' = Idle /\ UNCHANGED <<secret, events>>
             /\ known' = (IF worker.deploy THEN known ELSE known \ {worker.c})
    <2>1. UNCHANGED <<queue, config, wanted, configEvent>> /\ worker.pc = "prune"
        BY <1>9 DEF PruneSecrets
    <2>2. PassOf(c, t)'
        BY <1>9, <1>i DEF PassOf, Busy
    <2>3. CASE worker.c # c
      <3>1. c \notin queue' /\ ~Busy(c)' => c \notin queue /\ ~Busy(c)
          BY <2>1, <2>3 DEF Busy
      <3>2. c \in known => c \in known'
          BY <1>9, <2>3
      <3> QED
          BY <1>0, <1>9, <2>1, <2>2, <3>1, <3>2, RestKept
    <2>4. CASE worker.c = c
      <3>1. PICK u \in Maps : u = worker.target
          BY <1>t DEF Worker, Maps
      <3>2. PassOf(c, u)
          BY DEF SyncInv
      <3>3. c \notin queue => /\ worker.deploy <=> c \in wanted
                              /\ worker.deploy => c \in known
                              /\ Owned(c) \subseteq IF worker.deploy THEN Targets(u) ELSE {}
          BY <1>9, <2>1, <2>4, <3>1, <3>2 DEF PassOf, Busy
      <3>4. c \notin queue /\ worker.deploy /\ ~configEvent
                => /\ u = CopyMap(config)
                   /\ \A n \in Names : HasCopy(c, u, n) => Served(c, u, n)
          BY <2>1, <2>4, <3>1, <3>2 DEF PassOf, Busy, HasCopy
      <3>5. /\ Owned(c)' = Owned(c) /\ CopyMap(config)' = CopyMap(config)
            /\ \A n \in Names : /\ HasCopy(c, u, n)' <=> HasCopy(c, u, n)
                                /\ Served(c, u, n) => Served(c, u, n)'
          BY <1>9, <2>1, ServedSame DEF Owned, Owner, CopyMap, HasCopy, Identical
      <3>6. RestOf(c, t)'
          BY <1>9, <2>1, <3>3, <3>4, <3>5 DEF RestOf
      <3> QED
          BY <2>2, <3>6
    <2> QED
        BY <2>3, <2>4
  <1>10. CASE Restart
      BY <1>10, <1>i DEF Restart, RestOf, PassOf, Busy
  <1>11. ASSUME NEW k \in Names, DeliverSecretEvent(k)
         PROVE  RestOf(c, t)' /\ PassOf(c, t)'
    <2>1. /\ UNCHANGED <<secret, config, wanted, known, configEvent, worker>>
          /\ events' = events \ {k}
          /\ queue' = IF k \in Referenced(config) THEN queue \cup known ELSE queue
        BY <1>11 DEF DeliverSecretEvent, TypeOK
    <2>2. \A n \in Names : CopyMap(config)[n] # NoName => n \in Referenced(config)
        BY DEF CopyMap, Referenced
    <2>3. /\ Owned(c)' = Owned(c) /\ CopyMap(config)' = CopyMap(config) /\ Busy(c)' = Busy(c)
          /\ \A n \in Names : /\ HasCopy(c, t, n)' <=> HasCopy(c, t, n)
                              /\ k \notin Referenced(config) /\ t = CopyMap(config)
                                    /\ Served(c, t, n) /\ HasCopy(c, t, n)
                                    => Served(c, t, n)'
      <3>1. ASSUME NEW n \in Names, k \notin Referenced(config), t = CopyMap(config),
                   Served(c, t, n), HasCopy(c, t, n)
            PROVE  Served(c, t, n)'
        <4>1. PICK m \in Names : t[m] = t[n] /\ HasCopy(c, t, m) /\ InSync(c, t, m)
            BY <3>1 DEF Served
        <4>2. n # k /\ m # k
            BY <2>2, <3>1, <4>1 DEF HasCopy
        <4>3. InSync(c, t, m)' /\ HasCopy(c, t, m)'
            BY <2>1, <4>1, <4>2 DEF InSync, HasCopy, Identical, Owner
        <4>4. n \in events' \/ secret'[ProviderPlace][n] # NoSecret
            BY <2>1, <3>1, <4>2 DEF Served
        <4> QED
            BY <4>1, <4>3, <4>4 DEF Served
      <3>2. /\ Owned(c)' = Owned(c) /\ CopyMap(config)' = CopyMap(config) /\ Busy(c)' = Busy(c)
            /\ \A n \in Names : HasCopy(c, t, n)' <=> HasCopy(c, t, n)
          BY <2>1 DEF Owned, Owner, CopyMap, HasCopy, Identical, Busy
      <3> QED
          BY <3>1, <3>2
    <2>4. \A n \in Names : HasCopy(c, t, n) /\ t = CopyMap(config) => n \in Referenced(config)
        BY <2>2 DEF HasCopy
    <2>5. RestOf(c, t)'
        BY <1>0, <2>1, <2>3, <2>4 DEF RestOf
    <2>6. PassOf(c, t)'
        BY <1>0, <1>t, <2>1, <2>3, <2>4 DEF PassOf, HasCopy, Identical, Busy
    <2> QED
        BY <2>5, <2>6
  <1>12. CASE DeliverConfigEvent
    <2>1. /\ UNCHANGED <<secret, config, wanted, known, events, worker>>
          /\ queue' = queue \cup known /\ ~configEvent' /\ configEvent
        BY <1>12 DEF DeliverConfigEvent
    <2>2. Owned(c)' = Owned(c) /\ CopyMap(config)' = CopyMap(config) /\ Busy(c)' = Busy(c)
        BY <2>1 DEF Owned, Owner, CopyMap, Busy
    <2>3. RestOf(c, t)'
        BY <1>0, <2>1, <2>2 DEF RestOf
    <2>4. PassOf(c, t)'
        BY <1>0, <2>1, <2>2 DEF PassOf, Busy
    <2> QED
        BY <2>3, <2>4
  <1>13. ASSUME NEW d \in Clusters, ChangeCluster(d)
         PROVE  RestOf(c, t)' /\ PassOf(c, t)'
    <2>1. /\ UNCHANGED <<secret, config, known, events, configEvent, worker>>
          /\ queue' = queue \cup {d} /\ (c # d => (c \in wanted' <=> c \in wanted))
        BY <1>13 DEF ChangeCluster
    <2>2. CASE c = d
        BY <2>1, <2>2 DEF RestOf, PassOf
    <2>3. CASE c # d
      <3>1. RestOf(c, t)'
          BY <1>0, <2>1, <2>3, RestKept DEF Busy
      <3>2. PassOf(c, t)'
          BY <1>0, <2>1, <2>3, ServedSame
          DEF PassOf, Busy, Owned, Owner, HasCopy, CopyMap, Identical
      <3> QED
          BY <3>1, <3>2
    <2> QED
        BY <2>2, <2>3
  <1>14. CASE ChangeConfig
    <2>1. /\ UNCHANGED <<secret, wanted, known, queue, events, worker>> /\ configEvent'
        BY <1>14 DEF ChangeConfig
    <2>2. Owned(c)' = Owned(c) /\ Busy(c)' = Busy(c)
        BY <2>1 DEF Owned, Owner, Busy
    <2>3. RestOf(c, t)'
        BY <1>0, <2>1, <2>2 DEF RestOf
    <2>4. PassOf(c, t)'
        BY <1>0, <2>1, <2>2 DEF PassOf, Busy
    <2> QED
        BY <2>3, <2>4
  <1>15. ASSUME NEW p \in Places, NEW m \in Names, ChangeSecret(p, m)
         PROVE  RestOf(c, t)' /\ PassOf(c, t)'
    <2>1. PICK new \in UserSecrets(p, m) : SetSecret(p, m, new)
        BY <1>15 DEF ChangeSecret
    <2>2. /\ Owner(p, m) \notin Clusters
          /\ UNCHANGED <<config, wanted, known, queue, configEvent, worker>>
        BY <1>15 DEF ChangeSecret
    <2>3. secret[p][m] \in MaybeSecret
        BY DEF TypeOK
    <2>4. new \in MaybeSecret /\ (new = NoSecret \/ new.owner # c)
      <3>1. CASE secret[p][m] = NoSecret
          BY <2>1, <3>1 DEF UserSecrets, MaybeSecret
      <3>2. CASE secret[p][m] # NoSecret /\ new # NoSecret
        <4>1. PICK data \in Data : new = [secret[p][m] EXCEPT !.data = data]
            BY <2>1, <3>2 DEF UserSecrets
        <4>2. new \in Secret /\ new.owner = secret[p][m].owner
            BY <2>3, <3>2, <4>1 DEF MaybeSecret, Secret
        <4> QED
            BY <2>2, <3>2, <4>2 DEF MaybeSecret, Owner
      <3> QED
          BY <3>1, <3>2 DEF MaybeSecret
    <2>5. RestOf(c, t)'
      <3>1. Owner(p, m) # c /\ (c \notin queue' /\ ~Busy(c)' => c \notin queue /\ ~Busy(c))
          BY <2>2 DEF Busy
      <3> QED
          BY <1>0, <2>1, <2>2, <2>4, <3>1, RestWritten
    <2>6. PassOf(c, t)'
        BY <1>0, <2>1, <2>2, <2>4, PassWritten
    <2> QED
        BY <2>5, <2>6
  <1>16. CASE Step
    <2>1. CASE PruneSecrets
        BY <1>8, <1>9, <2>1 DEF PruneSecrets
    <2>2. CASE (GetSource \/ CheckTarget \/ WriteTarget) /\ Requeue
      <3>1. CASE GetSource \/ CheckTarget
          BY <1>2, <2>2, <3>1 DEF GetSource, CheckTarget
      <3>2. CASE WriteTarget
        <4>1. worker'.pc = "idle"
            BY <1>i, <2>2 DEF Requeue
        <4>2. [worker EXCEPT !.pc = "copy", !.todo = @ \ {worker.name},
                             !.copied = @ \cup {Target},
                             !.name = NoName, !.read = NoSecret].pc = "copy"
            BY <1>t DEF Worker
        <4> QED
            BY <1>2, <2>2, <3>2, <4>1, <4>2 DEF WriteTarget
      <3> QED
          BY <2>2, <3>1, <3>2
    <2> QED
        BY <1>4, <1>5, <1>6, <1>7, <1>16, <2>1, <2>2 DEF Step
  <1>17. CASE Fail
      BY <1>2, <1>17 DEF Fail
  <1> QED
      BY <1>1, <1>3, <1>10, <1>11, <1>12, <1>13, <1>14, <1>15, <1>16, <1>17 DEF Next, Users

\* At rest the copies are current: however sources, configurations and Clusters
\* changed, failed calls and restarts included, provided that users leave the
\* copies alone and the secret watch sees what it asks for.
THEOREM CopiesCurrentInvariant ==
    ~Drift => (Spec /\ [][left'.lookups = left.lookups]_vars => []CopiesCurrent)
  <1> SUFFICES ASSUME ~Drift
               PROVE  Spec /\ [][left'.lookups = left.lookups]_vars => []CopiesCurrent
      OBVIOUS
  <1>1. TypeOK /\ SpareInv /\ SyncInv /\ [Next]_vars /\ [left'.lookups = left.lookups]_vars
            => SyncInv'
      BY SyncStep DEF vars
  <1>2. TypeOK /\ SyncInv => CopiesCurrent
    <2> SUFFICES ASSUME TypeOK, SyncInv, NEW c \in Clusters, Quiescent(c)
                 PROVE  Current(c)
        BY DEF CopiesCurrent
    <2>1. PICK t \in Maps : t = CopyMap(config)
        BY CopyMapType
    <2>2. /\ c \notin wanted => Owned(c) = {}
          /\ c \in wanted => /\ \A n \in Names : HasCopy(c, t, n) => Served(c, t, n)
                             /\ Owned(c) \subseteq Targets(t)
        BY <2>1 DEF SyncInv, RestOf, Quiescent, Busy
    <2>3. Owned(c) \subseteq Names /\ NoName \notin Names
        BY SecretCopyAssumption DEF Owned
    <2>4. Owned(c) \subseteq Targets(t) => Owned(c) \subseteq {t[n] : n \in Sources(c)}
        BY <2>1, <2>3 DEF Targets, Sources
    <2>5. \A n \in Names : n \in Copied(c) <=> HasCopy(c, t, n)
        BY <2>1 DEF Copied, Sources, HasCopy, Identical
    <2>6. ASSUME NEW n \in Copied(c), c \in wanted
          PROVE  /\ secret[ProviderPlace][n] # NoSecret
                 /\ \E m \in Rivals(c, n) : secret[PlaceOf[c]][t[n]] =
                                                [secret[ProviderPlace][m] EXCEPT !.owner = c]
      <3>1. n \in Names
          BY <2>6 DEF Copied, Sources
      <3>2. Served(c, t, n) /\ events = {}
          BY <2>2, <2>5, <2>6, <3>1 DEF Quiescent
      <3>3. PICK m \in Names : t[m] = t[n] /\ HasCopy(c, t, m) /\ InSync(c, t, m)
          BY <3>2 DEF Served
      <3>4. m \in Rivals(c, n)
          BY <2>1, <2>5, <3>3 DEF Rivals
      <3>5. secret[PlaceOf[c]][t[n]] = [secret[ProviderPlace][m] EXCEPT !.owner = c]
          BY <3>2, <3>3 DEF InSync
      <3> QED
          BY <3>2, <3>4, <3>5 DEF Served
    <2> QED
        BY <2>1, <2>2, <2>4, <2>6 DEF Current
  <1> QED
      BY <1>1, <1>2, SyncInit, SecretTypeInvariant, SpareInvariant, PTL DEF Spec


-----------------------------------------------------------------------------
(* Copying as ClusterReconciler knows it: names of copies.                   *)

AllOwned == [c \in Clusters |-> Owned(c)]

\* What a pass has done: everything that it has dealt with is copied, or is its
\* own copy, and what it is going to delete is what it has not copied.
LoopOf(c, t) ==
    /\ worker.copied \subseteq IF worker.deploy THEN DemandOf(c, t).may ELSE {}
    /\ worker.pc \in {"copy", "check", "write"} => worker.deploy
    /\ worker.pc \in {"list", "prune"} => worker.todo = {}
    /\ worker.deploy =>
           \A n \in Names \ worker.todo :
               t[n] # NoName => /\ t[n] \in worker.copied
                                /\ ~Identical(c, n, t[n]) => t[n] \in Owned(c)
    /\ worker.pc = "prune" => /\ Owned(c) \subseteq worker.copied \cup worker.listed
                              /\ worker.copied \cap worker.listed = {}

LoopInv ==
    /\ worker.pc = "idle" => worker = Idle
    /\ worker.pc # "idle" => LoopOf(worker.c, worker.target)

\* What is asked for, member by member.
LEMMA DemandFacts ==
    ASSUME NEW c, NEW t
    PROVE  /\ \A k : k \in DemandOf(c, t).may
                        <=> \E n \in Names : t[n] # NoName /\ k = t[n]
           /\ \A k : k \in DemandOf(c, t).must
                        <=> \E n \in Names : /\ t[n] # NoName /\ ~Identical(c, n, t[n])
                                             /\ k = t[n]
           /\ DemandOf(c, t) = [must |-> DemandOf(c, t).must, may |-> DemandOf(c, t).may]
  BY DEF DemandOf

\* Nobody's copies change when no secret does.
LEMMA OwnedSame == UNCHANGED secret => AllOwned' = AllOwned
  BY DEF AllOwned, Owned, Owner

\* A pass for d that writes or deletes a secret which is no other Cluster's
\* changes the copies of d only.
LEMMA OwnedWritten ==
    ASSUME TypeOK, NEW d \in Clusters, NEW m \in Names, NEW new \in MaybeSecret,
           SetSecret(PlaceOf[d], m, new), new # NoSecret => new.owner = d,
           Owner(PlaceOf[d], m) \in {d, NoCluster, Foreign}
    PROVE  AllOwned' = [AllOwned EXCEPT ![d] = IF new = NoSecret THEN @ \ {m} ELSE @ \cup {m}]
  <1>1. \A q \in Places, k \in Names :
            secret'[q][k] = IF q = PlaceOf[d] /\ k = m THEN new ELSE secret[q][k]
      BY SetSecretType, SecretCopyAssumption
  <1>2. ASSUME NEW c \in Clusters, NEW k \in Names
        PROVE  Owner(PlaceOf[c], k)' = c
                   <=> IF c = d /\ k = m THEN new # NoSecret ELSE Owner(PlaceOf[c], k) = c
      BY <1>1, SecretCopyAssumption DEF Owner
  <1>3. ASSUME NEW c \in Clusters
        PROVE  Owned(c)' = IF c # d THEN Owned(c)
                           ELSE IF new = NoSecret THEN Owned(c) \ {m} ELSE Owned(c) \cup {m}
      BY <1>2 DEF Owned
  <1> QED
      BY <1>3 DEF AllOwned

\* What users do, when they leave the copies alone.
LEMMA OwnedByUsers ==
    ASSUME TypeOK, ~Drift, NEW p \in Places, NEW m \in Names, ChangeSecret(p, m)
    PROVE  AllOwned' = AllOwned
  <1>1. PICK new \in UserSecrets(p, m) : SetSecret(p, m, new)
      BY DEF ChangeSecret
  <1>2. Owner(p, m) \notin Clusters
      BY DEF ChangeSecret
  <1>3. secret[p][m] \in MaybeSecret
      BY DEF TypeOK
  <1>4. new \in MaybeSecret /\ (new = NoSecret \/ new.owner \notin Clusters)
    <2>1. CASE secret[p][m] = NoSecret
        BY <1>1, <2>1, SecretCopyAssumption DEF UserSecrets, MaybeSecret
    <2>2. CASE secret[p][m] # NoSecret /\ new # NoSecret
      <3>1. PICK data \in Data : new = [secret[p][m] EXCEPT !.data = data]
          BY <1>1, <2>2 DEF UserSecrets
      <3>2. new \in Secret /\ new.owner = secret[p][m].owner
          BY <1>3, <2>2, <3>1 DEF MaybeSecret, Secret
      <3> QED
          BY <1>2, <2>2, <3>2 DEF MaybeSecret, Owner
    <2> QED
        BY <2>1, <2>2 DEF MaybeSecret
  <1>5. \A q \in Places, k \in Names :
            secret'[q][k] = IF q = p /\ k = m THEN new ELSE secret[q][k]
      BY <1>1, <1>4, SetSecretType
  <1>6. ASSUME NEW c \in Clusters
        PROVE  Owned(c)' = Owned(c)
    <2>1. \A k \in Names : Owner(PlaceOf[c], k)' = c <=> Owner(PlaceOf[c], k) = c
        BY <1>2, <1>4, <1>5, SecretCopyAssumption DEF Owner
    <2> QED
        BY <2>1 DEF Owned
  <1> QED
      BY <1>6 DEF AllOwned

\* No pass runs initially, and there are no copies.
LEMMA CopiesInit == Init => LoopInv /\ Copies!Init
  <1> SUFFICES ASSUME Init
               PROVE  LoopInv /\ Copies!Init
      OBVIOUS
  <1>1. \A c \in Clusters : Owned(c) = {}
      BY SecretCopyAssumption DEF Init, Owned, Owner
  <1>2. CopyPass = Copies!NoPass
      BY DEF Init, Idle, CopyPass, CopyPhase, Copies!NoPass, Copies!Nothing, NoDemand
  <1> QED
      BY <1>1, <1>2 DEF Init, Idle, LoopInv, Copies!Init


\* What the running pass asks for.
Asked == IF worker.deploy THEN DemandOf(worker.c, worker.target) ELSE NoDemand

\* The running pass before and after a step.
LEMMA PassRecord ==
    /\ CopyPass = [of |-> worker.c, demand |-> Asked, phase |-> CopyPhase]
    /\ CopyPass' = [of |-> worker'.c, demand |-> Asked', phase |-> CopyPhase']
  BY DEF CopyPass, Asked

\* A pass has one Cluster and one map of names.
LEMMA DemandNext ==
    ASSUME NEW c, NEW t, worker'.c = c, worker'.target = t
    PROVE  DemandOf(worker.c, worker.target)' = DemandOf(c, t)
  BY ZenonT(30) DEF DemandOf, Identical

\* What a pass asks for stays the same while it runs.
LEMMA AskedSame ==
    ASSUME worker'.c = worker.c, worker'.target = worker.target, worker'.deploy = worker.deploy
    PROVE  Asked' = Asked
  <1>1. DemandOf(worker.c, worker.target)' = DemandOf(worker.c, worker.target)
      BY DEF DemandOf, Identical
  <1>2. NoDemand' = NoDemand
      BY DEF NoDemand
  <1> QED
      BY <1>1, <1>2 DEF Asked

\* The phase of the pass before and after a step.
LEMMA PhaseFacts ==
    /\ worker.pc \in {"copy", "check", "write"} => CopyPhase = "copying"
    /\ worker.pc = "list" => CopyPhase = "pruning"
    /\ worker.pc = "prune"
           => CopyPhase = IF worker.listed = {} THEN "done" ELSE "pruning"
    /\ worker'.pc \in {"copy", "check", "write"} => CopyPhase' = "copying"
    /\ worker'.pc = "list" => CopyPhase' = "pruning"
    /\ worker'.pc = "prune"
           => CopyPhase' = IF worker'.listed = {} THEN "done" ELSE "pruning"
  BY DEF CopyPhase

\* A pass that ends, however it does.
LEMMA PassLeaves ==
    ASSUME worker' = Idle, UNCHANGED secret
    PROVE  LoopInv' /\ Copies!Leave
  <1>1. CopyPass' = Copies!NoPass
      BY DEF Idle, CopyPass, CopyPhase, Copies!NoPass, Copies!Nothing, NoDemand
  <1>2. AllOwned' = AllOwned
      BY OwnedSame
  <1> QED
      BY <1>1, <1>2 DEF Idle, LoopInv, Copies!Leave, AllOwned

\* A step that the passes have no part in.
LEMMA PassUntouched ==
    ASSUME TypeOK, LoopInv, UNCHANGED worker, AllOwned' = AllOwned
    PROVE  LoopInv' /\ UNCHANGED <<AllOwned, CopyPass>>
  <1>1. UNCHANGED CopyPass
      BY AskedSame, PassRecord DEF CopyPhase
  <1>2. ASSUME worker.pc # "idle"
        PROVE  Owned(worker.c)' = Owned(worker.c)
      BY <1>2 DEF AllOwned, TypeOK
  <1>3. DemandOf(worker.c, worker.target)' = DemandOf(worker.c, worker.target)
      BY DEF DemandOf, Identical
  <1> QED
      BY <1>1, <1>2, <1>3 DEF LoopInv, LoopOf, Identical

\* Every step keeps LoopInv, and is a step of the contract or none.
LEMMA CopiesStep ==
    ASSUME TypeOK, SpareInv, LoopInv, ~Drift, [Next]_vars
    PROVE  LoopInv' /\ [Copies!Next]_<<AllOwned, CopyPass>>
  <1> USE SecretCopyAssumption
  <1> DEFINE c == worker.c
             t == worker.target
             goal == LoopInv' /\ [Copies!Next]_<<AllOwned, CopyPass>>
  <1>i. Idle.pc = "idle"
      BY DEF Idle
  <1>t. worker \in Worker /\ worker.todo \subseteq Names /\ worker.listed \subseteq Names
      BY DEF TypeOK, Worker
  <1>1. CASE worker' = Idle /\ UNCHANGED secret
      BY <1>1, PassLeaves DEF Copies!Next
  <1>2. CASE Requeue /\ UNCHANGED secret
      BY <1>1, <1>2 DEF Requeue
  <1>3. CASE UNCHANGED <<secret, worker>>
      BY <1>3, OwnedSame, PassUntouched
  <1>4. ASSUME NEW d \in Clusters, Begin(d)
        PROVE  goal
    <2>1. /\ UNCHANGED <<secret, config>> /\ worker = Idle
          /\ worker'.c = d /\ (worker'.deploy <=> d \in wanted) /\ worker'.copied = {}
          /\ d \in wanted => /\ worker'.pc = "copy" /\ worker'.target = CopyMap(config)
                             /\ worker'.todo = {n \in Names : CopyMap(config)[n] # NoName}
          /\ d \notin wanted => worker'.pc = "list" /\ worker'.todo = {}
        BY <1>4 DEF Begin, BeginCopying, BeginRemoving, Idle, LoopInv
    <2>2. LoopInv'
        BY <2>1 DEF LoopInv, LoopOf
    <2>3. CopyPass = Copies!NoPass
        BY <2>1 DEF Idle, CopyPass, CopyPhase, Copies!NoPass, Copies!Nothing, NoDemand
    <2>4. PICK demand : demand = CopyPass'.demand
        OBVIOUS
    <2>5. PICK phase : phase = CopyPass'.phase
        OBVIOUS
    <2>6. CopyPass' = [of |-> d, demand |-> demand, phase |-> phase]
        BY <2>1, <2>4, <2>5 DEF CopyPass
    <2>7. /\ demand \in {DemandOf(d, CopyMap(g)) : g \in Configs} \cup {NoDemand}
          /\ phase = "pruning" => demand = NoDemand
          /\ phase \in {"copying", "pruning"}
      <3>1. config \in Configs
          BY DEF TypeOK
      <3>2. CASE d \in wanted
        <4>1. PICK map : map = CopyMap(config)
            OBVIOUS
        <4>2. DemandOf(worker.c, worker.target)' = DemandOf(d, map)
            BY <2>1, <3>2, <4>1, DemandNext
        <4>3. Asked' = DemandOf(d, map) /\ CopyPhase' = "copying"
            BY <2>1, <3>2, <4>2, PhaseFacts DEF Asked
        <4>4. demand = DemandOf(d, map) /\ phase = "copying"
            BY <2>4, <2>5, <4>3, PassRecord
        <4> QED
            BY <3>1, <4>1, <4>4
      <3>3. CASE d \notin wanted
        <4>1. demand = NoDemand /\ phase = "pruning"
            BY <2>1, <2>4, <2>5, <3>3, PhaseFacts, PassRecord DEF Asked, NoDemand
        <4> QED
            BY <4>1
      <3> QED
          BY <3>2, <3>3
    <2>8. Copies!Begin(d)
      <3>1. Copies!Reached(phase, demand, Owned(d))
          BY <2>7 DEF Copies!Reached, NoDemand
      <3>2. AllOwned' = AllOwned
          BY <2>1, OwnedSame
      <3> QED
          BY <2>3, <2>6, <2>7, <3>1, <3>2 DEF Copies!Begin, AllOwned
    <2> QED
        BY <2>2, <2>8 DEF Copies!Next
  <1>5. CASE (GetSource \/ CheckTarget) /\ worker' # Idle
    <2>1. /\ UNCHANGED secret /\ worker.pc \in {"copy", "check"}
          /\ worker'.pc \in {"copy", "check", "write"} /\ worker'.c = worker.c
          /\ worker'.target = worker.target /\ worker'.deploy = worker.deploy
        BY <1>5, <1>t, ZenonT(60) DEF GetSource, CheckTarget, Requeue, Worker
    <2>2. \/ worker'.todo = worker.todo /\ worker'.copied = worker.copied
          \/ \E n \in worker.todo : /\ Identical(c, n, t[n])
                                    /\ worker'.todo = worker.todo \ {n}
                                    /\ worker'.copied = worker.copied \cup {n}
        BY <1>5, <1>t, ZenonT(60) DEF GetSource, CheckTarget, Requeue, Worker
    <2>3. UNCHANGED <<AllOwned, CopyPass>>
      <3>1. UNCHANGED CopyPass
          BY <2>1, PassRecord, AskedSame, PhaseFacts
      <3> QED
          BY <2>1, <3>1, OwnedSame
    <2>4. LoopOf(c, t)'
      <3>1. LoopOf(c, t) /\ Owned(c)' = Owned(c) /\ worker.deploy
          BY <2>1 DEF LoopInv, LoopOf, Owned, Owner
      <3>2. CASE worker'.todo = worker.todo /\ worker'.copied = worker.copied
        <4>1. worker'.pc \in {"copy", "check", "write"} /\ worker'.target = worker.target
            BY <2>1
        <4> QED
            BY <2>1, <3>1, <3>2, <4>1 DEF LoopOf, DemandOf, Identical
      <3>3. ASSUME NEW n \in worker.todo, Identical(c, n, t[n]),
                   worker'.todo = worker.todo \ {n}, worker'.copied = worker.copied \cup {n}
            PROVE  LoopOf(c, t)'
        <4>1. t[n] = n /\ n \in Names /\ n # NoName
            BY <1>t, <3>3 DEF Identical
        <4>2. n \in DemandOf(c, t).may /\ worker.copied \subseteq DemandOf(c, t).may
            BY <3>1, <4>1, DemandFacts DEF LoopOf
        <4>3. DemandOf(c, t)' = DemandOf(c, t)
            BY <2>1 DEF DemandOf, Identical
        <4>4. ASSUME NEW k \in Names \ worker'.todo, t[k] # NoName
              PROVE  t[k] \in worker'.copied /\ (~Identical(c, k, t[k]) => t[k] \in Owned(c))
            BY <3>1, <3>3, <4>1, <4>4 DEF LoopOf
        <4> QED
            BY <2>1, <3>1, <3>3, <4>2, <4>3, <4>4 DEF LoopOf, Identical
      <3> QED
          BY <2>2, <3>2, <3>3
    <2>5. worker'.pc # "idle"
        BY <2>1
    <2> QED
        BY <2>3, <2>4, <2>5 DEF LoopInv
  <1>6. CASE WriteTarget /\ ~(Requeue /\ UNCHANGED secret)
    <2> DEFINE new == [worker.read EXCEPT !.owner = worker.c]
    <2>1. /\ SetSecret(PlaceOf[worker.c], Target, new)
          /\ worker' = [worker EXCEPT !.pc = "copy", !.todo = @ \ {worker.name},
                                      !.copied = @ \cup {Target},
                                      !.name = NoName, !.read = NoSecret]
          /\ worker.pc = "write"
        BY <1>6 DEF WriteTarget
    <2>2. /\ worker'.c = worker.c /\ worker'.deploy = worker.deploy
          /\ worker'.target = worker.target /\ worker'.pc = "copy"
          /\ worker'.todo = worker.todo \ {worker.name}
          /\ worker'.copied = worker.copied \cup {Target}
        BY <1>t, <2>1 DEF Worker
    <2>3. /\ worker.c \in Clusters /\ worker.name \in Names
          /\ Target \in Names /\ Target = worker.target[worker.name] /\ Target # NoName
          /\ new \in MaybeSecret /\ new # NoSecret /\ new.owner = worker.c
        BY <2>1 DEF TypeOK, Target, Secret, MaybeSecret
    <2>4. Owner(PlaceOf[c], Target) \in {c, NoCluster, Foreign}
        BY <2>1 DEF SpareInv
    <2>5. AllOwned' = [AllOwned EXCEPT ![c] = @ \cup {Target}]
      <3>1. PICK target \in Names : target = Target
          BY <2>3
      <3>2. PICK content \in MaybeSecret : content = new
          BY <2>3
      <3>3. PICK d \in Clusters : d = worker.c
          BY <2>3
      <3>4. /\ SetSecret(PlaceOf[d], target, content)
            /\ content # NoSecret => content.owner = d
            /\ Owner(PlaceOf[d], target) \in {d, NoCluster, Foreign}
          BY <2>1, <2>3, <2>4, <3>1, <3>2, <3>3
      <3> HIDE DEF new
      <3>5. AllOwned' = [AllOwned EXCEPT ![d] = IF content = NoSecret THEN @ \ {target}
                                                ELSE @ \cup {target}]
          BY <3>4, OwnedWritten
      <3> QED
          BY <2>3, <3>1, <3>2, <3>3, <3>5
    <2>6. Owned(c)' = Owned(c) \cup {Target}
        BY <2>2, <2>3, <2>5 DEF AllOwned
    <2>7. Target \in DemandOf(c, t).may /\ worker.deploy
        BY <2>1, <2>3, DemandFacts DEF LoopInv, LoopOf
    <2>8. Copies!Copy
      <3>1. UNCHANGED CopyPass
          BY <2>1, <2>2, PassRecord, AskedSame, PhaseFacts
      <3>2. CopyPass.phase = "copying" /\ CopyPass.of = c /\ CopyPass.demand = DemandOf(c, t)
          BY <2>1, <2>7, PassRecord, PhaseFacts DEF Asked
      <3> QED
          BY <2>5, <2>7, <3>1, <3>2 DEF Copies!Copy, AllOwned
    <2>9. LoopOf(c, t)'
      <3>1. LoopOf(c, t)
          BY <2>1 DEF LoopInv
      <3>2. DemandOf(c, t)' = DemandOf(c, t)
          BY <2>2 DEF DemandOf, Identical
      <3>3. worker'.copied \subseteq DemandOf(c, t).may
          BY <2>2, <2>7, <3>1 DEF LoopOf
      <3>4. ASSUME NEW n \in Names \ worker'.todo, t[n] # NoName
            PROVE  t[n] \in worker'.copied /\ (~Identical(c, n, t[n]) => t[n] \in Owned(c)')
        <4>1. CASE n = worker.name
            BY <2>2, <2>3, <2>6, <4>1
        <4>2. CASE n # worker.name
            BY <2>2, <2>6, <2>7, <3>1, <3>4, <4>2 DEF LoopOf
        <4> QED
            BY <4>1, <4>2
      <3> QED
          BY <2>2, <2>7, <3>2, <3>3, <3>4 DEF LoopOf, Identical
    <2> QED
        BY <2>2, <2>8, <2>9 DEF LoopInv, Copies!Next
  <1>7. CASE CopyingDone
    <2>1. /\ UNCHANGED secret /\ worker.pc = "copy" /\ worker.todo = {}
          /\ worker' = [worker EXCEPT !.pc = "list"]
        BY <1>7 DEF CopyingDone
    <2>2. /\ worker'.c = worker.c /\ worker'.deploy = worker.deploy /\ worker'.pc = "list"
          /\ worker'.target = worker.target /\ worker'.todo = {}
          /\ worker'.copied = worker.copied
        BY <1>t, <2>1 DEF Worker
    <2>3. LoopOf(c, t) /\ worker.deploy /\ Owned(c)' = Owned(c)
        BY <2>1 DEF LoopInv, LoopOf, Owned, Owner
    <2>4. LoopInv'
        BY <2>1, <2>2, <2>3 DEF LoopInv, LoopOf, DemandOf, Identical
    <2>5. Copies!Turn
      <3>1. DemandOf(c, t).must \subseteq Owned(c)
        <4>1. ASSUME NEW k \in DemandOf(c, t).must
              PROVE  k \in Owned(c)
          <5>1. PICK n \in Names : t[n] # NoName /\ ~Identical(c, n, t[n]) /\ k = t[n]
              BY <4>1, DemandFacts
          <5> QED
              BY <2>1, <2>3, <5>1 DEF LoopOf
        <4> QED
            BY <4>1
      <3>2. /\ CopyPass = [of |-> c, demand |-> DemandOf(c, t), phase |-> "copying"]
            /\ CopyPass' = [of |-> c, demand |-> DemandOf(c, t), phase |-> "pruning"]
          BY <2>1, <2>2, <2>3, PassRecord, AskedSame, PhaseFacts DEF Asked
      <3>3. AllOwned' = AllOwned /\ c \in Clusters
          BY <2>1, OwnedSame DEF TypeOK
      <3>4. AllOwned[c] = Owned(c)
          BY <3>3 DEF AllOwned
      <3>5. Copies!Reached("pruning", DemandOf(c, t), AllOwned[c])
          BY <3>1, <3>4 DEF Copies!Reached
      <3> QED
          BY <3>2, <3>3, <3>5 DEF Copies!Turn, AllOwned
    <2> QED
        BY <2>4, <2>5 DEF Copies!Next

  <1> DEFINE may == IF worker.deploy THEN DemandOf(c, t).may ELSE {}
             must == IF worker.deploy THEN DemandOf(c, t).must ELSE {}
  <1>p. ASSUME worker.pc \in {"list", "prune"}
        PROVE  /\ c \in Clusters /\ worker.todo = {} /\ worker.copied = may
               /\ must \subseteq Owned(c)
    <2>1. LoopOf(c, t) /\ c \in Clusters
        BY <1>p DEF LoopInv, TypeOK
    <2>2. worker.copied \subseteq may /\ worker.todo = {}
        BY <1>p, <2>1 DEF LoopOf
    <2>3. ASSUME NEW k \in may
          PROVE  k \in worker.copied
      <3>1. PICK n \in Names : t[n] # NoName /\ k = t[n]
          BY <2>3, DemandFacts
      <3> QED
          BY <2>1, <2>2, <2>3, <3>1 DEF LoopOf
    <2>4. ASSUME NEW k \in must
          PROVE  k \in Owned(c)
      <3>1. PICK n \in Names : t[n] # NoName /\ ~Identical(c, n, t[n]) /\ k = t[n]
          BY <2>4, DemandFacts
      <3> QED
          BY <2>1, <2>2, <2>4, <3>1 DEF LoopOf
    <2> QED
        BY <2>1, <2>2, <2>3, <2>4
  <1>d. /\ CopyPass.of = c /\ CopyPass.phase = CopyPhase
        /\ CopyPass.demand.may = may /\ CopyPass.demand.must = must
      BY DemandFacts DEF CopyPass, NoDemand
  <1>8. CASE ListSecrets
    <2>1. /\ UNCHANGED secret /\ worker.pc = "list"
          /\ worker' = [worker EXCEPT !.pc = "prune", !.listed = Obsolete]
        BY <1>8 DEF ListSecrets
    <2>2. /\ worker'.c = worker.c /\ worker'.deploy = worker.deploy /\ worker'.pc = "prune"
          /\ worker'.target = worker.target /\ worker'.todo = worker.todo
          /\ worker'.copied = worker.copied /\ worker'.listed = Owned(c) \ worker.copied
        BY <1>t, <2>1 DEF Worker, Obsolete, Owned
    <2>3. LoopOf(c, t) /\ Owned(c)' = Owned(c)
        BY <2>1 DEF LoopInv, Owned, Owner
    <2>4. LoopInv'
        BY <2>1, <2>2, <2>3 DEF LoopInv, LoopOf, DemandOf, Identical
    <2>5. PICK demand : demand = CopyPass.demand
        OBVIOUS
    <2>6. /\ CopyPass = [of |-> c, demand |-> demand, phase |-> "pruning"]
          /\ CopyPass' = [of |-> c, demand |-> demand,
                          phase |-> IF worker'.listed = {} THEN "done" ELSE "pruning"]
        BY <2>1, <2>2, <2>5, PassRecord, AskedSame, PhaseFacts
    <2>7. AllOwned' = AllOwned
        BY <2>1, OwnedSame
    <2>8. CASE worker'.listed = {}
      <3>1. must \subseteq AllOwned'[c] /\ AllOwned'[c] \subseteq may
          BY <1>p, <2>1, <2>2, <2>7, <2>8 DEF AllOwned
      <3>2. Copies!Reached("done", demand, AllOwned'[c])
          BY <1>d, <2>5, <3>1 DEF Copies!Reached
      <3>3. Copies!Prune
          BY <2>6, <2>7, <2>8, <3>2 DEF Copies!Prune, AllOwned
      <3> QED
          BY <2>4, <3>3 DEF Copies!Next
    <2>9. CASE worker'.listed # {}
        BY <2>4, <2>6, <2>7, <2>9
    <2> QED
        BY <2>8, <2>9
  <1>9. ASSUME NEW n \in worker.listed, worker.pc = "prune",
               SetSecret(PlaceOf[worker.c], n, NoSecret),
               worker' = [worker EXCEPT !.listed = @ \ {n}]
        PROVE  goal
    <2>1. /\ worker'.c = worker.c /\ worker'.deploy = worker.deploy /\ worker'.pc = "prune"
          /\ worker'.target = worker.target /\ worker'.todo = worker.todo
          /\ worker'.copied = worker.copied /\ worker'.listed = worker.listed \ {n}
        BY <1>t, <1>9 DEF Worker
    <2>2. LoopOf(c, t) /\ c \in Clusters /\ n \in Names /\ worker.copied = may
        BY <1>t, <1>p, <1>9 DEF LoopInv
    <2>3. n \notin may
        BY <1>9, <2>2 DEF LoopOf
    <2>4. Owner(PlaceOf[c], n) \in {c, NoCluster, Foreign}
        BY <1>9 DEF SpareInv
    <2>5. AllOwned' = [AllOwned EXCEPT ![c] = @ \ {n}]
      <3>1. PICK none \in MaybeSecret : none = NoSecret
          BY DEF MaybeSecret
      <3>2. AllOwned' = [AllOwned EXCEPT ![c] = IF none = NoSecret THEN @ \ {n} ELSE @ \cup {n}]
          BY <1>9, <2>2, <2>4, <3>1, OwnedWritten
      <3> QED
          BY <3>1, <3>2
    <2>6. Owned(c)' = Owned(c) \ {n} /\ AllOwned'[c] = Owned(c) \ {n}
        BY <2>1, <2>2, <2>5 DEF AllOwned
    <2>7. must \subseteq may
        BY DemandFacts
    <2>8. LoopInv'
      <3>1. LoopOf(c, t)'
        <4>1. DemandOf(c, t)' = DemandOf(c, t)
            BY <2>1 DEF DemandOf, Identical
        <4>2. worker.deploy => \A k \in Names \ worker'.todo :
                  t[k] # NoName => /\ t[k] \in worker'.copied
                                   /\ ~Identical(c, k, t[k]) => t[k] \in Owned(c)'
            BY <2>1, <2>2, <2>3, <2>6, DemandFacts DEF LoopOf
        <4>3. Owned(c)' \subseteq worker'.copied \cup worker'.listed
            BY <1>9, <2>1, <2>2, <2>6 DEF LoopOf
        <4> QED
            BY <1>9, <2>1, <2>2, <4>1, <4>2, <4>3 DEF LoopOf, Identical
      <3> QED
          BY <2>1, <3>1 DEF LoopInv
    <2>9. Copies!Prune
      <3>1. PICK demand : demand = CopyPass.demand
          OBVIOUS
      <3>2. /\ CopyPass = [of |-> c, demand |-> demand, phase |-> "pruning"]
            /\ CopyPass' = [of |-> c, demand |-> demand,
                            phase |-> IF worker'.listed = {} THEN "done" ELSE "pruning"]
          BY <1>9, <2>1, <3>1, PassRecord, AskedSame, PhaseFacts
      <3>3. n \in Names \ demand.may
          BY <1>d, <2>2, <2>3, <3>1
      <3>4. ASSUME worker'.listed = {}
            PROVE  Copies!Reached("done", demand, AllOwned'[c])
        <4>1. Owned(c) \subseteq worker.copied \cup worker.listed /\ must \subseteq Owned(c)
            BY <1>p, <1>9, <2>2 DEF LoopOf
        <4>2. must \subseteq AllOwned'[c] /\ AllOwned'[c] \subseteq may
            BY <2>1, <2>2, <2>3, <2>6, <2>7, <3>4, <4>1
        <4> QED
            BY <1>d, <3>1, <4>2 DEF Copies!Reached
      <3>5. AllOwned' = [AllOwned EXCEPT ![CopyPass.of] = @ \ {n}]
          BY <2>5, <3>2
      <3>6. CopyPass.phase = "pruning" /\ CopyPass.demand = demand /\ CopyPass.of = c
          BY <3>2
      <3>7. \/ UNCHANGED CopyPass
            \/ /\ Copies!Reached("done", demand, AllOwned'[c])
               /\ CopyPass' = [CopyPass EXCEPT !.phase = "done"]
          BY <3>2, <3>4
      <3> QED
          BY <3>3, <3>5, <3>6, <3>7 DEF Copies!Prune, AllOwned
    <2> QED
        BY <2>8, <2>9 DEF Copies!Next
  <1>10. ASSUME NEW p \in Places, NEW n \in Names, ChangeSecret(p, n)
         PROVE  goal
    <2>1. AllOwned' = AllOwned
        BY <1>10, OwnedByUsers
    <2>2. UNCHANGED worker
        BY <1>10 DEF ChangeSecret
    <2> QED
        BY <2>1, <2>2, PassUntouched
  <1>11. CASE GetSource \/ CheckTarget
    <2>1. UNCHANGED secret
        BY <1>11, ZenonT(30) DEF GetSource, CheckTarget
    <2> QED
        BY <1>1, <1>5, <1>11, <2>1
  <1>12. CASE PruneSecrets
      BY <1>1, <1>9, <1>12 DEF PruneSecrets
  <1>13. CASE Fail \/ Restart
      BY <1>1, <1>2, <1>13 DEF Fail, Restart
  <1>14. CASE \/ \E n \in Names : DeliverSecretEvent(n)
              \/ DeliverConfigEvent \/ ChangeConfig
              \/ \E d \in Clusters : ChangeCluster(d)
      BY <1>3, <1>14 DEF DeliverSecretEvent, DeliverConfigEvent, ChangeConfig, ChangeCluster
  <1>15. CASE UNCHANGED vars
      BY <1>3, <1>15 DEF vars
  <1> HIDE DEF goal
  <1> QED
      BY <1>2, <1>4, <1>6, <1>7, <1>8, <1>10, <1>11, <1>12, <1>13, <1>14, <1>15
         DEF Next, Step, Users, goal

\* If users leave the copies alone, SecretCopy implements the contract of copying:
\* the copies of a Cluster are changed by its own passes only, which copy what
\* the configuration asks for before they remove what it does not, and one that
\* is done leaves neither more nor less, whatever the passes of other Clusters
\* have done to the namespace in between.
THEOREM CopyingImplemented == ~Drift => (Spec => ImplementsCopying)
  <1> SUFFICES ASSUME ~Drift
               PROVE  Spec => ImplementsCopying
      OBVIOUS
  <1>1. Init => LoopInv /\ Copies!Init
      BY CopiesInit
  <1>2. TypeOK /\ SpareInv /\ LoopInv /\ [Next]_vars
            => LoopInv' /\ [Copies!Next]_<<AllOwned, CopyPass>>
      BY CopiesStep
  <1> QED
      BY <1>1, <1>2, SecretTypeInvariant, SpareInvariant, PTL
         DEF Spec, ImplementsCopying, Copies!Spec, AllOwned

=============================================================================
