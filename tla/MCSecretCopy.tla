---------------------------- MODULE MCSecretCopy ----------------------------
(***************************************************************************)
(* Instances of SecretCopy for TLC.  Configuration "renamed" copies source   *)
(* "auth" under the name "copy", "plain" copies it under its own name,       *)
(* "both" copies "auth" and "pull" under one name, "none" has no section    *)
(* secretsToCopy; "pull" is an image pull secret.                            *)
(***************************************************************************)
EXTENDS SecretProperties

MCNames == {"auth", "copy", "pull"}

MCPullSecrets == {"pull"}

TwoConfigs == {"renamed", "plain"}

RivalConfigs == {"renamed", "both", "none"}

OneConfig == {"renamed"}

MCHasSection == [g \in Configs |-> g # "none"]

MCTargetName ==
    [g \in Configs |-> [n \in Names |->
        CASE g = "renamed" /\ n = "auth" -> "copy"
          [] g = "both" /\ n \in {"auth", "pull"} -> "copy"
          [] g = "plain" /\ n = "auth" -> "auth"
          [] OTHER -> NoName]]

MCPlaces == {"provider", "ns"}

MCProvider == "provider"

\* All Clusters in one namespace.
SharedPlace == [c \in Clusters |-> "ns"]

\* All but c1 in the namespace of the sources.
ProviderPlaceToo == [c \in Clusters |-> IF c = "c1" THEN "ns" ELSE "provider"]

TwoClusters == {"c1", "c2"}

SourceSecret == [owner |-> Foreign, data |-> "d1", type |-> "t1"]

ProviderSecrets == [n \in Names |-> IF n = "copy" THEN NoSecret ELSE SourceSecret]

NoSecrets == [n \in Names |-> NoSecret]

SourcesAnd(there) == [p \in Places |-> IF p = ProviderPlace THEN ProviderSecrets ELSE there]

\* The sources are there.
SourcesOnly == {SourcesAnd(NoSecrets)}

\* The sources are there, and perhaps a foreign secret under a wanted name.
MCInitialSecrets ==
    {SourcesAnd(there) : there \in {NoSecrets, [NoSecrets EXCEPT !["copy"] = SourceSecret]}}

=============================================================================
