------------------------------ MODULE ProductTable ------------------------------
(***************************************************************************)
(* The table products as ListProducts sees it: the two columns it filters  *)
(* by and the one it orders by.  What the commands may do to them is all   *)
(* the read side knows of the command side; ProductCommands is shown to    *)
(* implement it.                                                           *)
(***************************************************************************)
EXTENDS Listing

CONSTANTS
  Products,     \* product ids
  Categories,
  Stamps,       \* commit timestamps
  None

VARIABLE products   \* the columns of each product, or None

Stati == {"inactive", "active", "archived"}

Row == [category : Categories, status : Stati, createdAt : Stamps]

ASSUME TableAssumption ==
  /\ IsFiniteSet(Products)
  /\ Stamps \subseteq Nat
  /\ None \notin Row /\ None \notin Categories /\ None \notin Stati

Stored == {p \in Products : products[p] # None}

TableInit == products = [p \in Products |-> None]

\* created_at is the commit timestamp of the creation and is never written again.
Create(p) ==
  /\ p \notin Stored
  /\ \E c \in Categories, at \in Stamps :
       /\ \A q \in Stored : products[q].createdAt < at
       /\ products' = [products EXCEPT
            ![p] = [category |-> c, status |-> "inactive", createdAt |-> at]]

Change(p, from, row) ==
  /\ p \in Stored
  /\ products[p].status \in from
  /\ products' = [products EXCEPT ![p] = row]

Activate(p) == Change(p, {"inactive"}, [products[p] EXCEPT !.status = "active"])
Deactivate(p) == Change(p, {"active"}, [products[p] EXCEPT !.status = "inactive"])
Archive(p) == Change(p, {"inactive", "active"}, [products[p] EXCEPT !.status = "archived"])

Recategorise(p) ==
  \E c \in Categories :
    Change(p, {"inactive", "active"}, [products[p] EXCEPT !.category = c])

Command(p) ==
  Create(p) \/ Activate(p) \/ Deactivate(p) \/ Archive(p) \/ Recategorise(p)

TableSpec == TableInit /\ [][\E p \in Products : Command(p)]_products
================================================================================
