---------------------------- MODULE MCCommandReplies ----------------------------
(***************************************************************************)
(* Small instances of CommandReplies for TLC.                              *)
(***************************************************************************)
EXTENDS CommandReplies, TLC

MCTexts == {"", "a"}
MCEmptyText == ""

OneCreate ==
  {[op |-> "create",
    arg |-> [name |-> "a", description |-> "a", category |-> "a", basePrice |-> 1]]}

\* An update that could be applied again and again, one that a second attempt finds
\* done and that ends the others, and one that ends the process.
RetriedRequests ==
  {[op |-> "price", arg |-> 2], [op |-> "archive", arg |-> None],
   [op |-> "applyDiscount", arg |-> [percent |-> NaN, start |-> 0, end |-> 1]]}

Interchangeable ==
  Permutations(Products) \cup Permutations(Workers) \cup Permutations(Clients)
=================================================================================
