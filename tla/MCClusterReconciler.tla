------------------------ MODULE MCClusterReconciler ------------------------
(***************************************************************************)
(* Instances of ClusterReconciler for TLC.  "git" selects all purposes and  *)
(* copies s1 to both sites; "oci" does not select p2, uses another kind of  *)
(* source and asks for other copies, so that a change from one to the other *)
(* adds, removes and keeps something everywhere.                            *)
(***************************************************************************)
EXTENDS ClusterProperties

TwoPurposes == {"p1", "p2"}

MCSecrets == {"s1", "s2"}

MCSourceKinds == {"GitRepository", "OCIRepository"}

TwoConfigs == {"git", "oci"}

\* The configuration that does not select everything.
OneConfig == {"oci"}

MCValues == {"v1", "v2"}

MCValuesFor ==
    [g \in Configs |-> [p \in Purposes |->
        IF p = "p1" THEN "v1" ELSE IF g = "git" THEN "v2" ELSE NoValues]]

MCSourceKind == [g \in Configs |-> IF g = "git" THEN "GitRepository" ELSE "OCIRepository"]

MCSecretsToCopy ==
    [platform |-> [g \in Configs |-> IF g = "git" THEN {"s1"} ELSE {"s1", "s2"}],
     target   |-> [g \in Configs |-> IF g = "git" THEN {"s1"} ELSE {"s2"}]]

NoAnnotations == {}

Annotations == {[key |-> k, value |-> v] : k \in AnnotationKeys, v \in Operations}

DnsReconcile == {[key |-> "dnsOp", value |-> "reconcile"]}

\* The behaviours in which no event of a configuration misses a pass.
UnmissedSpec == Init /\ [][Next /\ ~MissesPass]_vars

=============================================================================
