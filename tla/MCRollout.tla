----------------------------- MODULE MCRollout -----------------------------
(***************************************************************************)
(* The instance of Rollout that TLC checks: the configuration "oci" of      *)
(* MCClusterReconciler, which does not select p2.                           *)
(***************************************************************************)
EXTENDS Rollout

MCValuesFor == [g \in Configs |-> [p \in Purposes |-> IF p = "p1" THEN "v1" ELSE NoValues]]

MCSourceKind == [g \in Configs |-> "OCIRepository"]

MCSecretsToCopy == [site \in {"platform", "target"} |-> [g \in Configs |-> {"s1"}]]

NoAnnotations == {}

=============================================================================
