----------------------- MODULE DocumentedValuesProofs -----------------------
(***************************************************************************)
(* The documentation of selectors holds of what a deployment ends up with:  *)
(* the convergence of passes and the meaning of selectors put together.     *)
(***************************************************************************)
EXTENDS DocumentedValues, ConvergenceProofs, SelectorProofs

\* The entry that the loop finds is the documented one, and its values are
\* those of the configuration.
LEMMA EntryForPurposes ==
    ASSUME NEW g \in Configs, NEW p \in Purposes
    PROVE  \E entry \in DOMAIN Entries[g] \cup {NoEntry} :
              /\ IsFirstMeant(Requirements[g], Entries[g], p, entry)
              /\ entry = NoEntry => ValuesFor[g][p] = NoValues
              /\ entry # NoEntry => /\ ValuesFor[g][p] = EntryValues[g][entry]
                                    /\ ValuesFor[g][p] # NoValues
  <1>1. PICK entry : entry = FirstMatch(Requirements[g], Entries[g], p)
      OBVIOUS
  <1>2. /\ Requirements[g] \in [Addresses -> Requirement]
        /\ Entries[g] \in Seq(Addresses \cup {Nil})
        /\ p \in AllPurposes
        /\ \A i \in DOMAIN Entries[g] : ~Circular(Requirements[g], Entries[g][i])
        /\ EntryValues[g] \in [DOMAIN Entries[g] -> Values]
      BY EntriesAssumption
  <1>3. IsFirstMeant(Requirements[g], Entries[g], p, entry)
      BY <1>1, <1>2, FirstMatchIsFirstMeant
  <1>4. entry \in DOMAIN Entries[g] \cup {NoEntry}
      BY <1>3 DEF IsFirstMeant
  <1>5. ValuesFor[g][p] = IF entry = NoEntry THEN NoValues ELSE EntryValues[g][entry]
      BY <1>1, EntriesAssumption DEF ValuesOf
  <1>6. NoValues \notin Values
      BY SentinelsAssumption
  <1> QED
      BY <1>2, <1>3, <1>4, <1>5, <1>6

LEMMA ConvergedAsDocumented == TypeOK /\ Converged => ValuesAsDocumented
  <1> SUFFICES ASSUME TypeOK, Converged, NEW c \in Clusters,
                      Settled(c), ~Ignored(cluster[c]), ~cluster[c].deleting
               PROVE  \E entry \in DOMAIN Entries[config] \cup {NoEntry} :
                         /\ IsFirstMeant(Requirements[config], Entries[config],
                                         cluster[c].purpose, entry)
                         /\ IF entry = NoEntry THEN CleanedUp(c)
                            ELSE /\ HasFinalizer(c)
                                 /\ release[c].status = "live"
                                      => release[c].values = EntryValues[config][entry]
      BY DEF ValuesAsDocumented
  <1>1. config \in Configs /\ cluster[c].purpose \in Purposes
      BY DEF TypeOK, Settled, Exists, ClusterObject
  <1>2. AgreesWith(config, c)
      BY DEF Converged
  <1>3. WantedBy(config, c) <=> ValuesFor[config][cluster[c].purpose] # NoValues
      BY DEF WantedBy, Selected
  <1>4. PICK entry \in DOMAIN Entries[config] \cup {NoEntry} :
            /\ IsFirstMeant(Requirements[config], Entries[config], cluster[c].purpose, entry)
            /\ entry = NoEntry => ValuesFor[config][cluster[c].purpose] = NoValues
            /\ entry # NoEntry =>
                 /\ ValuesFor[config][cluster[c].purpose] = EntryValues[config][entry]
                 /\ ValuesFor[config][cluster[c].purpose] # NoValues
      BY <1>1, EntryForPurposes
  <1>5. entry = NoEntry => CleanedUp(c)
      BY <1>2, <1>3, <1>4 DEF AgreesWith
  <1>6. entry # NoEntry =>
            /\ HasFinalizer(c)
            /\ release[c].status = "live" => release[c].values = EntryValues[config][entry]
      BY <1>2, <1>3, <1>4 DEF AgreesWith, DeployedFor
  <1> QED
      BY <1>4, <1>5, <1>6

\* As long as the configuration does not change, a Cluster at rest has the
\* values that the documentation of its selectors promises, whatever edits of
\* the Cluster, failures and restarts led there.
THEOREM ValuesAsDocumentedInvariant ==
    ~TerminatingReady
        => \A g \in Configs : Spec /\ [](config \in {g, NoConfig}) => []ValuesAsDocumented
  <1> SUFFICES ASSUME ~TerminatingReady, NEW g \in Configs
               PROVE  Spec /\ [](config \in {g, NoConfig}) => []ValuesAsDocumented
      OBVIOUS
  <1>1. Spec /\ [](config \in {g, NoConfig}) => []Converged
      BY ConvergedInvariant
  <1> QED
      BY <1>1, TypeInvariant, ConvergedAsDocumented, PTL

=============================================================================
