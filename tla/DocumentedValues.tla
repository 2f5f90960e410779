-------------------------- MODULE DocumentedValues --------------------------
(***************************************************************************)
(* The controller with configurations as they are written: the values that  *)
(* ClusterReconciler takes from ValuesFor are those of the entry of         *)
(* externalDNSForPurposes that PurposeSelector finds for the purposes.      *)
(***************************************************************************)
EXTENDS ClusterProperties, DocumentedSelectors

CONSTANTS
    Requirements,   \* Requirements[g]: the requirements in configuration g
    Entries,        \* Entries[g]: the selectors of its entries
    EntryValues     \* EntryValues[g][i]: the Helm values of entry i

\* The values that a pass works with for purposes p.
ValuesOf(g, p) ==
    LET entry == FirstMatch(Requirements[g], Entries[g], p)
    IN  IF entry = NoEntry THEN NoValues ELSE EntryValues[g][entry]

\* A configuration that was read from the API server is a tree.
ASSUME EntriesAssumption ==
    /\ Purposes \subseteq AllPurposes
    /\ Requirements \in [Configs -> [Addresses -> Requirement]]
    /\ Entries \in [Configs -> Seq(Addresses \cup {Nil})]
    /\ \A g \in Configs :
          /\ EntryValues[g] \in [DOMAIN Entries[g] -> Values]
          /\ \A i \in DOMAIN Entries[g] : ~Circular(Requirements[g], Entries[g][i])
    /\ ValuesFor = [g \in Configs |-> [p \in Purposes |-> ValuesOf(g, p)]]

\* The documentation comes all the way to the chart: at rest a Cluster has the
\* values of the first entry whose selector means its purposes, and when there
\* is no such entry, it has nothing (config_types.go: the first matching purpose
\* selector is applied, and no configuration if none matches).
ValuesAsDocumented ==
    \A c \in Clusters :
        Settled(c) /\ ~Ignored(cluster[c]) /\ ~cluster[c].deleting
            => \E entry \in DOMAIN Entries[config] \cup {NoEntry} :
                 /\ IsFirstMeant(Requirements[config], Entries[config],
                                 cluster[c].purpose, entry)
                 /\ IF entry = NoEntry THEN CleanedUp(c)
                    ELSE /\ HasFinalizer(c)
                         /\ release[c].status = "live"
                              => release[c].values = EntryValues[config][entry]

=============================================================================
