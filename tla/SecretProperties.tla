-------------------------- MODULE SecretProperties --------------------------
(***************************************************************************)
(* What copySecrets, removeSecrets and the secret watch promise: properties  *)
(* of SecretCopy.                                                           *)
(***************************************************************************)
EXTENDS SecretCopy

\* The secrets that carry the labels for Cluster c at its place.
Owned(c) == {n \in Names : Owner(PlaceOf[c], n) = c}

\* The sources that the configuration wants copied for c, and really copies:
\* one that is its own copy stays as it is.
Sources(c) == {n \in Names : CopyMap(config)[n] # NoName}

Copied(c) == {n \in Sources(c) : <<PlaceOf[c], CopyMap(config)[n]>> # <<ProviderPlace, n>>}

\* The sources that go where source n goes.
Rivals(c, n) == {m \in Copied(c) : CopyMap(config)[m] = CopyMap(config)[n]}

\* Each copy has the content of its source, of one of them if several go to one
\* target, and there are no other copies.
Current(c) ==
    IF c \in wanted
    THEN /\ \A n \in Copied(c) : secret[ProviderPlace][n] # NoSecret
         /\ \A n \in Copied(c) : \E m \in Rivals(c, n) :
               secret[PlaceOf[c]][CopyMap(config)[n]] =
                   [secret[ProviderPlace][m] EXCEPT !.owner = c]
         /\ Owned(c) \subseteq {CopyMap(config)[n] : n \in Sources(c)}
    ELSE Owned(c) = {}

\* A pass for c cannot succeed: a source is missing, or a target is not managed
\* or has another type.
Blocked(c) ==
    /\ c \in wanted
    /\ \/ \E n \in Sources(c) : secret[ProviderPlace][n] = NoSecret
       \/ \E n \in Copied(c) :
             LET t == CopyMap(config)[n]
             IN  /\ secret[PlaceOf[c]][t] # NoSecret
                 /\ \/ Owner(PlaceOf[c], t) # c
                    \/ secret[PlaceOf[c]][t].type # secret[ProviderPlace][n].type

Quiescent(c) == ~configEvent /\ events = {} /\ c \notin queue /\ worker.c # c

-----------------------------------------------------------------------------
(* Safety. *)

\* A foreign secret that was there when the pass began, and that no user
\* touched since, is neither taken over nor deleted by it: copySecrets and
\* removeSecrets go by the labels.
ForeignSpared ==
    \A n \in spared : worker.pc # "idle" => Owner(PlaceOf[worker.c], n) = Foreign

\* Whatever happens between its calls, a pass never changes or deletes the
\* copies of another Cluster that shares the namespace.
OthersSpared ==
    [][\A c \in Clusters, p \in Places, n \in Names :
          Owner(p, n) = c /\ secret'[p][n] # secret[p][n] /\ worker' # worker
              => worker.c = c]_vars

\* When nothing is pending, the copies of a Cluster are exactly those of the
\* configuration, with the contents of their sources: rotations, changes of
\* the configuration and failed passes in any order all lead to a later pass.
CopiesCurrent == \A c \in Clusters : Quiescent(c) => Current(c)

\* Only a secret that this controller does not manage makes a pass fail.
RefusesForeignOnly ==
    worker.pc = "check" => Owner(PlaceOf[worker.c], Target) \in {worker.c, NoCluster, Foreign}

\* With the targets t, what is asked for Cluster c: a source that is its own copy
\* may be labelled for the Cluster or not.
DemandOf(c, t) ==
    LET asked == {n \in Names : t[n] # NoName}
    IN  [must |-> {t[n] : n \in {m \in asked : ~Identical(c, m, t[m])}},
         may |-> {t[n] : n \in asked}]

NoDemand == [must |-> {}, may |-> {}]

\* The pass is done with the copies when nothing is left that it has listed.
CopyPhase ==
    CASE worker.pc = "idle" -> "none"
      [] worker.pc \in {"copy", "check", "write"} -> "copying"
      [] worker.pc = "prune" /\ worker.listed = {} -> "done"
      [] OTHER -> "pruning"

\* The running pass as the contract of copying sees it.
CopyPass ==
    [of |-> worker.c,
     demand |-> IF worker.deploy THEN DemandOf(worker.c, worker.target) ELSE NoDemand,
     phase |-> CopyPhase]

Copies == INSTANCE CopyContract WITH
    Demands <- [c \in Clusters |-> {DemandOf(c, CopyMap(g)) : g \in Configs} \cup {NoDemand}],
    copies <- [c \in Clusters |-> Owned(c)],
    pass <- CopyPass

\* If users leave the copies alone, the passes of all Clusters, in shared
\* namespaces and in that of the sources, keep the contract of copying that
\* ClusterReconciler keeps: it loses nothing by knowing copies by name only.
ImplementsCopying == Copies!Spec

-----------------------------------------------------------------------------
(* Liveness, of FairSpec. *)

\* When users leave everything alone, the copies of every Cluster get and stay
\* current, unless something that only users can change is in the way.
CopiesConverge == \A c \in Clusters : <>[](Current(c) \/ Blocked(c))

=============================================================================
