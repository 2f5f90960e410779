----------------------- MODULE SelectorMeaningProofs -----------------------
(***************************************************************************)
(* The choice of an entry is right for every configuration: the lemmas of   *)
(* SelectorProofs in the states of SelectorMeaning.                         *)
(***************************************************************************)
EXTENDS SelectorMeaning, SelectorProofs

\* What the invariants need of the state: the types of the API package, and that
\* the choice is the one of the loop.
ChoiceInv ==
    /\ req \in [Addresses -> Requirement]
    /\ entries \in Seq(Addresses \cup {Nil})
    /\ purposes \in AllPurposes
    /\ chosen # Undecided => chosen = FirstMatch(req, entries, purposes)

LEMMA ChoiceInvariant == Spec => []ChoiceInv
  <1>1. Init => ChoiceInv
      BY ConfigurationsAssumption DEF Init, ChoiceInv, AllPurposes
  <1>2. ChoiceInv /\ [Choose]_vars => ChoiceInv'
      BY DEF Choose, vars, ChoiceInv, AllPurposes
  <1> QED
      BY <1>1, <1>2, PTL DEF Spec

LEMMA ChoiceAsMeant == ChoiceInv => FirstMatchDecides
  BY FirstMatchIsFirstMeant DEF ChoiceInv, FirstMatchDecides

\* The entry that decides is the first whose selector means the purposes of
\* the Cluster, for every configuration without circular selectors (the loop
\* of reconcile over externalDNSForPurposes, and requirementMatches).
THEOREM FirstMatchDecidesInvariant == Spec => []FirstMatchDecides
  BY ChoiceInvariant, ChoiceAsMeant, PTL

\* requirementMatches panics only over a requirement that contains itself: it
\* is enough that it forgets what it has seen when a call ends.
THEOREM PanicsOnlyIfCircularInvariant == Spec => []PanicsOnlyIfCircular
  <1>1. ChoiceInv => PanicsOnlyIfCircular
      <2> SUFFICES ASSUME ChoiceInv, \A i \in DOMAIN entries : ~Circular(req, entries[i])
                   PROVE  chosen # Panicked
          BY DEF PanicsOnlyIfCircular
      <2>1. PICK n \in Nat : DOMAIN entries = 1 .. n
          BY DEF ChoiceInv
      <2>2. chosen = Undecided \/ chosen \in DOMAIN entries \/ chosen = NoEntry
          BY ChoiceAsMeant DEF FirstMatchDecides, IsFirstMeant
      <2> QED
          BY <2>1, <2>2 DEF Undecided, Panicked, NoEntry
  <1> QED
      BY <1>1, ChoiceInvariant, PTL

=============================================================================
