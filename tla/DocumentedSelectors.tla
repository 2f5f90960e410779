------------------------ MODULE DocumentedSelectors ------------------------
(***************************************************************************)
(* What the documentation says a selector means, as the set of the purposes *)
(* that it selects: no evaluation order and no memory of what was seen.     *)
(***************************************************************************)
EXTENDS PurposeSelector

\* Of several fields the first in this order counts.
Precedence == <<"name", "not", "and", "or">>

CountingField(r) ==
    LET set == {i \in DOMAIN Precedence : r[Precedence[i]] # Empty[Precedence[i]]}
    IN  IF set = {} THEN "none" ELSE Precedence[Min(set)]

KidsOf(req, r) ==
    CASE CountingField(req[r]) = "not" -> {req[r].not}
      [] CountingField(req[r]) = "and" -> {req[r].and[i] : i \in DOMAIN req[r].and}
      [] CountingField(req[r]) = "or"  -> {req[r].or[i] : i \in DOMAIN req[r].or}
      [] OTHER -> {}

\* What is inside requirement s at any depth: the least set that has what s
\* contains and what its members contain.
Inside(req, s) ==
    {r \in Addresses : \A set \in SUBSET Addresses :
        KidsOf(req, s) \subseteq set /\ (\A k \in set : KidsOf(req, k) \subseteq set) => r \in set}

\* Selector s is or has inside a requirement that contains itself.
Circular(req, s) == s # Nil /\ \E r \in {s} \cup Inside(req, s) : r \in Inside(req, r)

AllPurposes == SUBSET PurposeNames

\* What a requirement means, by what those that it contains mean.
MeaningBy(req, meaning, s) ==
    LET field == CountingField(req[s])
        kids == {meaning[k] : k \in KidsOf(req, s)}
    IN  CASE field = "name" -> {p \in AllPurposes : req[s].name \in p}
          [] field = "not"  -> AllPurposes \ UNION kids
          [] field = "and"  -> {p \in AllPurposes : \A k \in kids : p \in k}
          [] field = "or"   -> UNION kids
          [] field = "none" -> AllPurposes

WellFounded(req) == {s \in Addresses : ~Circular(req, s)}

Meaning(req, s) ==
    LET meaning[r \in WellFounded(req)] == MeaningBy(req, meaning, r)
    IN  IF s = Nil THEN AllPurposes ELSE meaning[s]

\* The entry that decides according to the documentation: the first whose
\* selector means the purposes, or none.
IsFirstMeant(req, entries, purposes, entry) ==
    \/ /\ entry \in DOMAIN entries
       /\ purposes \in Meaning(req, entries[entry])
       /\ \A i \in 1 .. entry - 1 : purposes \notin Meaning(req, entries[i])
    \/ /\ entry = NoEntry
       /\ \A i \in DOMAIN entries : purposes \notin Meaning(req, entries[i])

=============================================================================
