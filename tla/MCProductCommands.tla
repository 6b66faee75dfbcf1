--------------------------- MODULE MCProductCommands ---------------------------
(***************************************************************************)
(* Small instances of ProductCommands for TLC: which requests the clients  *)
(* of a run send.                                                          *)
(***************************************************************************)
EXTENDS ProductCommands, TLC

\* A new product at the given price.
New(price) ==
  [op |-> "create",
   arg |-> [name |-> "a", description |-> "a", category |-> "a", basePrice |-> price]]

Plain(op) == [op |-> op, arg |-> None]

Discount(percent, start, end) ==
  [op |-> "applyDiscount", arg |-> [percent |-> percent, start |-> start, end |-> end]]

Price(price) == [op |-> "price", arg |-> price]

Rename(name, description, category) ==
  [op |-> "update",
   arg |-> [name |-> name, description |-> description, category |-> category]]

MCTexts == {"", "a", "b"}
MCEmptyText == ""

OneCreate == {New(1)}

\* Creations with every kind of input, with the ones validation refuses.
AllCreates ==
  {New(1), New(0), New(None), New(3)}
    \cup {[op |-> "create",
           arg |-> [name |-> n, description |-> "", category |-> c, basePrice |-> 1]] :
            n \in {"", "a"}, c \in {"", "b"}}

\* The life of a product, its discount (95 is stored as 100; the second is never
\* valid, the third no number) and its price (one that cannot be stored, one that
\* is no price).
LifecycleRequests ==
  {Plain("activate"), Plain("deactivate"), Plain("removeDiscount"), Plain("archive"),
   Discount(95, 0, 2), Discount(10, 2, 2), Discount(NaN, 0, 2),
   Price(2), Price(3), Price(0)}

\* Every operation, and partial changes of the texts, one of them refused after a
\* setter has changed the copy.
EveryRequest ==
  {Plain("activate"), Plain("deactivate"), Plain("removeDiscount"), Plain("archive"),
   Discount(14, 0, 2), Price(2),
   Rename("b", None, "b"), Rename(None, "", None), Rename("b", None, "")}

Interchangeable == Permutations(Products) \cup Permutations(Workers)
================================================================================
