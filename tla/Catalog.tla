-------------------------------- MODULE Catalog --------------------------------
(***************************************************************************)
(* What the command side of the service promises: one product catalog in   *)
(* which every command takes effect at one instant, on the product as it   *)
(* is at that instant.  The stored row is the WHOLE aggregate the domain   *)
(* method returned, one version up and a new discount rounded as its       *)
(* column holds it, and the same instant adds the events of the method to  *)
(* the outbox and, for a price, the record of the change to the price      *)
(* history.  ProductCommands is shown to implement it.                     *)
(***************************************************************************)
EXTENDS Product

CONSTANTS
  Products,         \* product ids (uuids)
  CreateRequests,   \* the CreateProduct requests clients send
  UpdateRequests,   \* the requests on an existing product clients send
  Times             \* readings of the clock

VARIABLES
  rows,       \* the products table: a row, or None, for each id
  outbox,     \* the outbox_events table
  history,    \* the price_history table
  commitTs    \* the timestamp of the last commit

vars == << rows, outbox, history, commitTs >>

Init ==
  /\ rows = [p \in Products |-> None]
  /\ outbox = {}
  /\ history = {}
  /\ commitTs = 0

Create(p, r, now) ==
  LET done == NewProduct(r.arg)
  IN  /\ rows[p] = None
      /\ ValidCreate(r)
      /\ done.err = "nil"
      /\ rows' = [rows EXCEPT ![p] = done.after]
      /\ commitTs' = commitTs + 1
      /\ outbox' = outbox \cup OutboxRows(p, commitTs', done.events)
      /\ history' = history
           \cup {HistoryRow(commitTs', PriceRecord(p, None, r.arg.basePrice, now))}

Stored(old, after) ==
  [after EXCEPT !.version = old.version + 1,
                !.discount = IF @ = old.discount THEN @ ELSE InColumn(@)]

Update(p, r, now, changedAt) ==
  LET done == Execute(r, rows[p], now)
  IN  /\ rows[p] # None
      /\ ValidUpdate(r)
      /\ done.err = "nil"
      /\ rows' = [rows EXCEPT ![p] = Stored(rows[p], done.after)]
      /\ commitTs' = commitTs + 1
      /\ outbox' = outbox \cup OutboxRows(p, commitTs', done.events)
      /\ IF r.op = "price"
         THEN history' = history
                \cup {HistoryRow(commitTs',
                                 PriceRecord(p, rows[p].basePrice, r.arg, changedAt))}
         ELSE UNCHANGED history

Next ==
  \E p \in Products, now \in Times :
    \/ \E r \in CreateRequests : Create(p, r, now)
    \/ \E r \in UpdateRequests, changedAt \in Times : Update(p, r, now, changedAt)

Spec == Init /\ [][Next]_vars
================================================================================
