----------------------------- MODULE Deployment -----------------------------
(***************************************************************************)
(* What platform-service-dns promises for every Cluster: the life of an     *)
(* external-dns deployment, whoever does the work, in however many passes,  *)
(* and whatever fails in between.                                           *)
(*                                                                         *)
(* First the Cluster is held (the finalizer), then everything else comes.   *)
(* The target cluster is touched only with a granted access, which stays    *)
(* until Flux has uninstalled the chart and the credentials are removed;    *)
(* the Cluster is let go when nothing is left.                              *)
(***************************************************************************)
CONSTANT Clusters

VARIABLE life   \* the deployment of each Cluster

Life == [held: BOOLEAN,            \* the controller's finalizer is there
         access: {"absent", "pending", "granted", "terminating"},
         placed: BOOLEAN,          \* source or secrets on the platform cluster
         credentials: BOOLEAN,     \* secrets on the target cluster
         release: {"absent", "live", "terminating"}]

Nothing == [held |-> FALSE, access |-> "absent", placed |-> FALSE,
            credentials |-> FALSE, release |-> "absent"]

TypeOK == life \in [Clusters -> Life]

Init == life = [c \in Clusters |-> Nothing]

Hold(c) ==
    /\ ~life[c].held
    /\ life' = [life EXCEPT ![c].held = TRUE]

Request(c) ==
    /\ life[c].held /\ life[c].access = "absent"
    /\ life' = [life EXCEPT ![c].access = "pending"]

Grant(c) ==
    /\ life[c].access = "pending"
    /\ life' = [life EXCEPT ![c].access = "granted"]

Place(c) ==
    /\ life[c].held /\ life[c].access = "granted" /\ ~life[c].placed
    /\ life' = [life EXCEPT ![c].placed = TRUE]

Withdraw(c) ==
    /\ life[c].held /\ life[c].placed
    /\ life' = [life EXCEPT ![c].placed = FALSE]

\* The first secret comes to the target cluster or the last one goes.
Furnish(c) ==
    /\ life[c].held /\ life[c].access = "granted"
    /\ life' = [life EXCEPT ![c].credentials = ~@]

Deploy(c) ==
    /\ life[c].held /\ life[c].access = "granted" /\ life[c].release = "absent"
    /\ life' = [life EXCEPT ![c].release = "live"]

Undeploy(c) ==
    /\ life[c].held /\ life[c].release = "live"
    /\ life' = [life EXCEPT ![c].release = "terminating"]

\* Flux uninstalls the chart from the target cluster.
Uninstalled(c) ==
    /\ life[c].access = "granted" /\ life[c].release = "terminating"
    /\ life' = [life EXCEPT ![c].release = "absent"]

\* Nothing is left but perhaps the finalizer and the access.
Cleared(c) == ~life[c].placed /\ ~life[c].credentials /\ life[c].release = "absent"

Revoke(c) ==
    /\ life[c].held /\ Cleared(c) /\ life[c].access \in {"pending", "granted"}
    /\ \E status \in {"absent", "terminating"} :
          life' = [life EXCEPT ![c].access = status]

Revoked(c) ==
    /\ life[c].access = "terminating"
    /\ life' = [life EXCEPT ![c].access = "absent"]

LetGo(c) ==
    /\ life[c].held /\ Cleared(c) /\ life[c].access = "absent"
    /\ life' = [life EXCEPT ![c].held = FALSE]

Next ==
    \E c \in Clusters :
        \/ Hold(c) \/ Request(c) \/ Grant(c) \/ Place(c) \/ Withdraw(c)
        \/ Furnish(c) \/ Deploy(c) \/ Undeploy(c) \/ Uninstalled(c) \/ Revoke(c) \/ Revoked(c) \/ LetGo(c)

Spec == Init /\ [][Next]_life

\* What the contract guarantees at any time: nothing without the finalizer,
\* nothing on the target cluster without the access to take it away.
NothingOrphaned ==
    \A c \in Clusters :
        /\ ~life[c].held => Cleared(c) /\ life[c].access = "absent"
        /\ life[c].credentials \/ life[c].release # "absent"
              => life[c].access = "granted"

=============================================================================
