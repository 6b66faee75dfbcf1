-------------------------------- MODULE Listing --------------------------------
(***************************************************************************)
(* What a query with ORDER BY created_at DESC and a LIMIT may return.      *)
(***************************************************************************)
EXTENDS Integers, FiniteSets

\* Mutant: the order is ascending.
Oldest(S, M, n, at) ==
  /\ S \subseteq M
  /\ Cardinality(S) <= n
  /\ Cardinality(S) < n => S = M
  /\ \A x \in S, y \in M \ S : at[x] <= at[y]

\* S are n rows of M, or all of them if there are fewer, and no other row has a
\* greater stamp; where stamps tie, which rows are taken is open.
Newest(S, M, n, at) ==
  /\ S \subseteq M
  /\ Cardinality(S) <= n
  /\ Cardinality(S) < n => S = M
  /\ \A x \in S, y \in M \ S : at[x] >= at[y]
================================================================================
