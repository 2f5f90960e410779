------------------------- MODULE MCDocumentedValues -------------------------
(***************************************************************************)
(* Instances of DocumentedValues for TLC, with the selector of example 3 of *)
(* the documentation: either foo or bar but not both.                       *)
(***************************************************************************)
EXTENDS MCClusterReconciler, DocumentedValues

DocNames == {"foo", "bar"}

\* The purposes of a Cluster as a set of names.
DocPurposes == SUBSET DocNames

DocAddresses == 1 .. 8

Xor ==
    << [Empty EXCEPT !.and = <<2, 5>>],
       [Empty EXCEPT !.or = <<3, 4>>],
       [Empty EXCEPT !.name = "foo"],
       [Empty EXCEPT !.name = "bar"],
       [Empty EXCEPT !.not = 6],
       [Empty EXCEPT !.and = <<7, 8>>],
       [Empty EXCEPT !.name = "foo"],
       [Empty EXCEPT !.name = "bar"] >>

DocRequirements == [g \in Configs |-> Xor]

\* Two entries: the example, and bar.
DocEntries == [g \in Configs |-> <<1, 4>>]

DocEntryValues == [g \in Configs |-> <<"v1", "v2">>]

DocValuesFor == [g \in Configs |-> [p \in Purposes |-> ValuesOf(g, p)]]

=============================================================================
