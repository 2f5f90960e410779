--------------------------- MODULE SelectorMeaning ---------------------------
(***************************************************************************)
(* The choice of an entry of externalDNSForPurposes, once for every         *)
(* configuration and every set of purposes of a Cluster, compared with what *)
(* the documentation says that selectors mean.                              *)
(***************************************************************************)
EXTENDS DocumentedSelectors

CONSTANTS
    Selectors,      \* the maps req that are considered
    EntryLists      \* the lists of selectors of entries, addresses or Nil

\* What the types of the API package allow.
ASSUME ConfigurationsAssumption ==
    /\ Selectors \subseteq [Addresses -> Requirement]
    /\ EntryLists \subseteq Seq(Addresses \cup {Nil})

VARIABLES
    req, entries,   \* the configuration
    purposes,       \* spec.purposes of the Cluster
    chosen          \* the entry that decides, Undecided before

Undecided == -2

vars == <<req, entries, purposes, chosen>>

Init ==
    /\ req \in Selectors
    /\ entries \in EntryLists
    /\ purposes \in SUBSET PurposeNames
    /\ chosen = Undecided

Choose ==
    /\ chosen = Undecided
    /\ chosen' = FirstMatch(req, entries, purposes)
    /\ UNCHANGED <<req, entries, purposes>>

Spec == Init /\ [][Choose]_vars

-----------------------------------------------------------------------------

\* The entry that decides is the first whose selector means the purposes of
\* the Cluster, whatever way requirements are nested or shared (DNSServiceConfig
\* docs: the first mapping where the selector matches decides).
FirstMatchDecides ==
    (\A i \in DOMAIN entries : ~Circular(req, entries[i])) /\ chosen # Undecided
        => IsFirstMeant(req, entries, purposes, chosen)

\* A pass panics only over a selector that contains itself: one that uses the
\* same requirement twice is evaluated.
PanicsOnlyIfCircular ==
    chosen = Panicked => \E i \in DOMAIN entries : Circular(req, entries[i])

=============================================================================
