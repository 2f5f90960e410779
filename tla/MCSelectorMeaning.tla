------------------------- MODULE MCSelectorMeaning -------------------------
(***************************************************************************)
(* All selectors made of three requirements with one field each, trees,     *)
(* shared and circular ones, and all that set several fields at the top.    *)
(***************************************************************************)
EXTENDS SelectorMeaning

Lists == Addresses \X Addresses

Leaves == {[Empty EXCEPT !.name = n] : n \in PurposeNames \cup {NoName}}

OneField == Leaves \cup {[Empty EXCEPT !.not = a] : a \in Addresses}
                   \cup {[Empty EXCEPT !.and = l] : l \in Lists}
                   \cup {[Empty EXCEPT !.or = l] : l \in Lists}

AnyField == [name: {NoName, "foo"}, not: {Nil, 2}, and: {<<>>, <<2>>, <<3, 2>>},
             or: {<<>>, <<3>>, <<2, 3>>}]

MCSelectors == [Addresses -> OneField]
               \cup {[a \in Addresses |-> IF a = 1 THEN top ELSE leaves[a]] :
                        top \in AnyField, leaves \in [Addresses -> Leaves]}

\* Two entries, the second with any selector inside the first or none at all.
MCEntryLists == {<<1, 2>>, <<1, Nil>>}

=============================================================================
