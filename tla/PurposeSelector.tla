--------------------------- MODULE PurposeSelector ---------------------------
(***************************************************************************)
(* Purpose selectors of a DNSServiceConfig and the choice of the entry of   *)
(* externalDNSForPurposes that decides about a Cluster.                     *)
(*                                                                         *)
(* A selector is a requirement with requirements inside.  They are Go       *)
(* structs at addresses, so req maps addresses to requirements: what is     *)
(* read from the API server is a tree, what a caller of the API package     *)
(* builds may share requirements or be circular.                            *)
(***************************************************************************)
EXTENDS Integers, Sequences, FiniteSets, FiniteSetsExt

CONSTANTS
    PurposeNames,   \* purposes and the names in selectors
    Addresses,
    Nil,            \* the nil pointer
    NoName          \* the empty name

\* An object is finite, and no requirement is at the address nil.
ASSUME AddressesAssumption == IsFiniteSet(Addresses) /\ Nil \notin Addresses

Requirement == [name: PurposeNames \cup {NoName}, not: Addresses \cup {Nil},
                and: Seq(Addresses), or: Seq(Addresses)]

Empty == [name |-> NoName, not |-> Nil, and |-> <<>>, or |-> <<>>]

\* Mutant: the lists come before the negation.
ListsFirst(r) ==
    IF r.name # NoName THEN "name"
    ELSE IF r.and # <<>> THEN "and"
    ELSE IF r.or # <<>> THEN "or"
    ELSE IF r.not # Nil THEN "not"
    ELSE "none"

\* Only one field of a requirement is evaluated.
Field(r) ==
    IF r.name # NoName THEN "name"
    ELSE IF r.not # Nil THEN "not"
    ELSE IF r.and # <<>> THEN "and"
    ELSE IF r.or # <<>> THEN "or"
    ELSE "none"

Negation == [match |-> "no", no |-> "match", panic |-> "panic"]

\* Mutant: requirements stay seen when their evaluation is over.
SeenWithSiblings(seen, kids, i) == seen \cup {kids[j] : j \in 1 .. i - 1}

\* The seen requirements when kid i is evaluated: those of its siblings have
\* been deleted again.
SeenAt(seen, kids, i) == seen

\* The result of a list is that of the first kid that ends the loop.
FirstOf(results, stop, otherwise) ==
    LET ends == {i \in DOMAIN results : results[i] \in {stop, "panic"}}
    IN  IF ends = {} THEN otherwise ELSE results[Min(ends)]

\* The arguments of a call: a pointer and the requirements seen on the way to it.
Calls == (Addresses \cup {Nil}) \X SUBSET Addresses

\* The result of a call, by those of the calls that it makes.
Result(req, purposes, results, call) ==
    LET r == call[1]
        seen == call[2] \cup {r}
        field == Field(req[r])
        each(kids) == [i \in DOMAIN kids |-> results[<<kids[i], SeenAt(seen, kids, i)>>]]
    IN  IF r = Nil THEN "match"
        ELSE IF r \in call[2] THEN "panic"
        ELSE CASE field = "name" -> IF req[r].name \in purposes THEN "match" ELSE "no"
               [] field = "not"  -> Negation[results[<<req[r].not, seen>>]]
               [] field = "and"  -> FirstOf(each(req[r].and), "no", "match")
               [] field = "or"   -> FirstOf(each(req[r].or), "match", "no")
               [] field = "none" -> "match"

\* The results of all calls, for one configuration and one set of purposes.
requirementMatches(req, purposes) ==
    LET results[call \in Calls] == Result(req, purposes, results, call)
    IN  results

Matches(req, selector, purposes) == requirementMatches(req, purposes)[<<selector, {}>>]

NoEntry == 0

Panicked == -1

\* Mutant: the loop goes on after a match.
LastMatch(req, entries, purposes) ==
    LET hits == {i \in DOMAIN entries : Matches(req, entries[i], purposes) # "no"}
    IN  IF hits = {} THEN NoEntry
        ELSE IF Matches(req, entries[Min(hits)], purposes) = "panic" THEN Panicked
        ELSE Max(hits)

\* The loop of reconcile: the index of the entry that decides, NoEntry if no
\* selector matches, and Panicked when the evaluation panics before.
FirstMatch(req, entries, purposes) ==
    LET hits == {i \in DOMAIN entries : Matches(req, entries[i], purposes) # "no"}
    IN  IF hits = {} THEN NoEntry
        ELSE IF Matches(req, entries[Min(hits)], purposes) = "panic" THEN Panicked
        ELSE Min(hits)

=============================================================================
