---------------------------- MODULE MCProductPages ----------------------------
(***************************************************************************)
(* Small instances of ProductPages for TLC.                                *)
(***************************************************************************)
EXTENDS ProductPages, TLC

\* No filter, each column alone, both.
EveryFilter == {f \in Filter : f.status \in {None, "active"}}

ActiveOnly == {[category |-> None, status |-> "active"]}

\* Page sizes below, at and above the limits.
EveryPageSize == -1 .. MaxPageSize + 1

OnePageSize == {1}

MCStamps == 1 .. Cardinality(Products)

Interchangeable == Permutations(Products) \cup Permutations(Categories)
=============================================================================
