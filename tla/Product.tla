-------------------------------- MODULE Product --------------------------------
(***************************************************************************)
(* The Product aggregate of internal/app/product/domain: its fields, what  *)
(* each domain method accepts, changes and emits, and how the repository   *)
(* merges the changed columns into the stored row.  Constant level only:   *)
(* the modules with state apply these operators.                           *)
(*                                                                         *)
(* Money is an integer here (its sign and its storage limit are what the   *)
(* methods test), a text is a member of Texts, a time is a natural number. *)
(* A percentage is a float64: an integer number of a unit so small that    *)
(* every float64 from 0 to 100 and every 10^-9 is a multiple of it, or NaN.*)
(***************************************************************************)
EXTENDS Integers, Sequences

CONSTANTS
  Texts,                \* names, descriptions and categories
  EmptyText,            \* the empty string
  None,                 \* nil, SQL NULL, an optional field left out
  MaxStorablePrice,     \* the largest price IsSafeForStorage lets through
  MaxDiscountDuration,  \* two years, in the model's unit of time
  Hundred,              \* the percentage 100, in the model's unit of percentages
  ColumnUnit,           \* 10^-9 in that unit: NUMERIC holds multiples of it
  NaN                   \* the float64 that is no number

ASSUME TextsAssumption == EmptyText \in Texts
ASSUME LimitsAssumption == MaxStorablePrice \in Nat /\ MaxDiscountDuration \in Nat
ASSUME PercentAssumption ==
  /\ Hundred \in Nat /\ ColumnUnit \in Nat \ {0}
  /\ \E n \in 0 .. Hundred : Hundred = n * ColumnUnit
  /\ NaN \notin Int

Statuses == {"inactive", "active", "archived"}

DiscountInput == [percent : Int, start : Int, end : Int]

(***************************************************************************)
(* NewDiscount: the checks a discount passes when it is requested, and     *)
(* again whenever the row that holds it is loaded.  The UTC check cannot   *)
(* fail: the transport converts every date with AsTime.  NaN is neither    *)
(* below 0 nor above 100 and passes the first check; if the period is      *)
(* right, too, NewDiscount then panics, as SetFloat64 makes no Rat of NaN. *)
(***************************************************************************)
ValidPeriod(d) == d.start < d.end /\ d.end - d.start <= MaxDiscountDuration

ValidDiscount(d) == d.percent \in 0 .. Hundred /\ ValidPeriod(d)

NewDiscountPanics(d) == d.percent = NaN /\ ValidPeriod(d)

Aggregate ==
  [name : Texts, description : Texts, category : Texts,
   basePrice : Int,
   discount : DiscountInput \cup {None},
   status : Statuses,
   archivedAt : Nat \cup {None},
   version : Nat]

ASSUME NoneAssumption ==
  None \notin Aggregate /\ None \notin Nat /\ None \notin DiscountInput

--------------------------------------------------------------------------------
(***************************************************************************)
(* What a client asks for.                                                 *)
(***************************************************************************)
Patch == [name : Texts \cup {None}, description : Texts \cup {None},
          category : Texts \cup {None}]

CreateInput ==
  [name : Texts, description : Texts, category : Texts, basePrice : Int \cup {None}]

DiscountRequest == [percent : Int \cup {NaN}, start : Int, end : Int]

CreateRequest == [op : {"create"}, arg : CreateInput]

UpdateRequest ==
  [op : {"update"}, arg : Patch]
    \cup [op : {"price"}, arg : Int \cup {None}]
    \cup [op : {"applyDiscount"}, arg : DiscountRequest]
    \cup [op : {"activate", "deactivate", "removeDiscount", "archive"}, arg : {None}]

\* The request checks of the transport and of the use cases' validate methods:
\* a request that fails them is answered at once and touches nothing.
ValidCreate(r) ==
  /\ r.arg.name # EmptyText
  /\ r.arg.category # EmptyText
  /\ r.arg.basePrice # None /\ r.arg.basePrice > 0

ValidUpdate(r) ==
  /\ r.op = "update" =>
       r.arg.name # None \/ r.arg.description # None \/ r.arg.category # None
  /\ r.op = "price" => r.arg # None /\ r.arg > 0
  /\ r.op = "applyDiscount" => r.arg.percent \in (0 .. Hundred) \cup {NaN}

--------------------------------------------------------------------------------
(***************************************************************************)
(* Domain methods.  Each answers an error and leaves the aggregate alone,  *)
(* or changes it, marks fields dirty and records events.                   *)
(***************************************************************************)
Event(type, body) == [type |-> type, body |-> body]

EventTypes ==
  {"product.created", "product.updated", "product.price.changed",
   "product.activated", "product.deactivated", "product.discount.applied",
   "product.discount.removed", "product.archived"}

Details(p) == [name |-> p.name, description |-> p.description, category |-> p.category]

DetailsBody == [name : Texts, description : Texts, category : Texts]

\* An event as json.Marshal stores it.  A price in it is lost: Money has no
\* exported field, so it becomes {}.
Events == [type : EventTypes, body : DetailsBody \cup DiscountInput \cup {None}]

Columns ==
  {"name", "description", "category", "basePrice", "discount", "status", "archivedAt"}

\* What a domain method that accepts leaves behind: the aggregate, the columns
\* its ChangeTracker holds, the events it recorded.
Outcome ==
  [err : {"nil"}, after : Aggregate, dirty : SUBSET Columns, events : Seq(Events)]

Reject(p, err) == [err |-> err, after |-> p, dirty |-> {}, events |-> << >>]

Accept(p, dirty, events) ==
  [err |-> "nil", after |-> p, dirty |-> dirty, events |-> events]

NewProduct(input) ==
  LET p == [name |-> input.name, description |-> input.description,
            category |-> input.category, basePrice |-> input.basePrice,
            discount |-> None, status |-> "inactive", archivedAt |-> None, version |-> 0]
  IN  IF input.name = EmptyText THEN Reject(p, "ErrEmptyName")
      ELSE IF input.category = EmptyText THEN Reject(p, "ErrInvalidCategory")
      ELSE IF input.basePrice <= 0 THEN Reject(p, "ErrInvalidPrice")
      ELSE Accept(p, {"name", "description", "category", "basePrice", "status"},
                  << Event("product.created", Details(p)) >>)

\* The texts a request names over those of the aggregate.
Merged(p, patch) ==
  LET Pick(new, old) == IF new = None THEN old ELSE new
  IN  [p EXCEPT !.name = Pick(patch.name, @), !.category = Pick(patch.category, @),
                !.description = Pick(patch.description, @)]

\* Mutant: MarkUpdated runs first, so the event describes the old texts.
UpdateDetailsEventFirst(p, patch) ==
  IF p.status = "archived" \/ EmptyText \in {patch.name, patch.category}
  THEN Reject(p, "ErrCannotModifyArchived")
  ELSE Accept(Merged(p, patch), {"name", "description", "category"},
              << Event("product.updated", Details(p)) >>)

\* SetName, SetDescription and SetCategory on the fields the request names,
\* in that order, then one MarkUpdated for all of them.
UpdateDetails(p, patch) ==
  LET after == Merged(p, patch)
      dirty == (IF patch.name # None THEN {"name"} ELSE {})
                 \cup (IF patch.description # None THEN {"description"} ELSE {})
                 \cup (IF patch.category # None THEN {"category"} ELSE {})
  IN  IF p.status = "archived" THEN Reject(p, "ErrCannotModifyArchived")
      ELSE IF patch.name = EmptyText THEN Reject(p, "ErrEmptyName")
      ELSE IF patch.category = EmptyText THEN Reject(p, "ErrInvalidCategory")
      ELSE Accept(after, dirty, << Event("product.updated", Details(after)) >>)

SetBasePrice(p, price) ==
  IF p.status = "archived" THEN Reject(p, "ErrCannotModifyArchived")
  ELSE IF price <= 0 THEN Reject(p, "ErrInvalidPrice")
  ELSE Accept([p EXCEPT !.basePrice = price], {"basePrice"},
              << Event("product.price.changed", None) >>)

\* The discount already there blocks a new one even when it has expired.
ApplyDiscount(p, d) ==
  CASE p.status = "archived" -> Reject(p, "ErrCannotModifyArchived")
    [] p.status = "inactive" -> Reject(p, "ErrCannotApplyToInactive")
    [] OTHER ->
         IF p.discount # None THEN Reject(p, "ErrDiscountAlreadyActive")
         ELSE Accept([p EXCEPT !.discount = d], {"discount"},
                     << Event("product.discount.applied", d) >>)

\* Nothing checks that there is a discount to remove.
RemoveDiscount(p) ==
  IF p.status = "archived" THEN Reject(p, "ErrCannotModifyArchived")
  ELSE Accept([p EXCEPT !.discount = None], {"discount"},
              << Event("product.discount.removed", None) >>)

Activate(p) ==
  CASE p.status = "archived" -> Reject(p, "ErrCannotModifyArchived")
    [] p.status = "active" -> Reject(p, "ErrAlreadyActive")
    [] OTHER -> Accept([p EXCEPT !.status = "active"], {"status"},
                       << Event("product.activated", None) >>)

\* Mutant: checkNotArchived is forgotten.
DeactivateArchived(p) ==
  IF p.status = "inactive" THEN Reject(p, "ErrAlreadyInactive")
  ELSE Accept([p EXCEPT !.status = "inactive"], {"status"},
              << Event("product.deactivated", None) >>)

\* A discount survives deactivation.
Deactivate(p) ==
  CASE p.status = "archived" -> Reject(p, "ErrCannotModifyArchived")
    [] p.status = "inactive" -> Reject(p, "ErrAlreadyInactive")
    [] OTHER -> Accept([p EXCEPT !.status = "inactive"], {"status"},
                       << Event("product.deactivated", None) >>)

\* Mutant: the discount is cleared in the aggregate, its column is not marked.
ArchiveDiscountClean(p, now) ==
  IF p.status = "archived" THEN Reject(p, "ErrAlreadyArchived")
  ELSE Accept([p EXCEPT !.discount = None, !.status = "archived", !.archivedAt = now],
              {"status", "archivedAt"},
              << Event("product.discount.removed", None), Event("product.archived", None) >>)

Archive(p, now) ==
  LET hadDiscount == p.discount # None
  IN  IF p.status = "archived" THEN Reject(p, "ErrAlreadyArchived")
      ELSE Accept([p EXCEPT !.discount = None, !.status = "archived", !.archivedAt = now],
                  {"status", "archivedAt"} \cup (IF hadDiscount THEN {"discount"} ELSE {}),
                  IF hadDiscount
                  THEN << Event("product.discount.removed", None), Event("product.archived", None) >>
                  ELSE << Event("product.archived", None) >>)

\* Mutant: the use case builds the discount without NewDiscount's checks.
ExecuteUnchecked(r, p, now) ==
  CASE r.op = "update" -> UpdateDetails(p, r.arg)
    [] r.op = "price" -> SetBasePrice(p, r.arg)
    [] r.op = "applyDiscount" -> ApplyDiscount(p, r.arg)
    [] r.op = "removeDiscount" -> RemoveDiscount(p)
    [] r.op = "activate" -> Activate(p)
    [] r.op = "deactivate" -> Deactivate(p)
    [] r.op = "archive" -> Archive(p, now)

\* The domain part of each use case's Execute on a loaded aggregate.
Execute(r, p, now) ==
  CASE r.op = "update" -> UpdateDetails(p, r.arg)
    [] r.op = "price" -> SetBasePrice(p, r.arg)
    [] r.op = "applyDiscount" ->
         IF ValidDiscount(r.arg) THEN ApplyDiscount(p, r.arg)
         ELSE Reject(p, "ErrInvalidDiscount")
    [] r.op = "removeDiscount" -> RemoveDiscount(p)
    [] r.op = "activate" -> Activate(p)
    [] r.op = "deactivate" -> Deactivate(p)
    [] r.op = "archive" -> Archive(p, now)

--------------------------------------------------------------------------------
(***************************************************************************)
(* Persistence.  The percentage of a discount becomes a NUMERIC: it is     *)
(* rounded to nine decimals, halves up.  What becomes of it on the way     *)
(* back into a float64 is left to Pricing; no method reads the number.     *)
(***************************************************************************)
InColumn(d) ==
  IF d = None THEN None
  ELSE [d EXCEPT !.percent = ((2 * @ + ColumnUnit) \div (2 * ColumnUnit)) * ColumnUnit]

\* Mutant: the version is written as it was loaded.
UpdateMutSameVersion(row, after, dirty) ==
  [after EXCEPT !.discount = IF "discount" \in dirty THEN InColumn(@) ELSE row.discount]

\* UpdateMut writes the dirty columns of the aggregate and the LOADED version
\* plus one, so the stored row keeps its other columns.
UpdateMut(row, after, dirty) ==
  [name |-> IF "name" \in dirty THEN after.name ELSE row.name,
   description |-> IF "description" \in dirty THEN after.description ELSE row.description,
   category |-> IF "category" \in dirty THEN after.category ELSE row.category,
   basePrice |-> IF "basePrice" \in dirty THEN after.basePrice ELSE row.basePrice,
   discount |-> IF "discount" \in dirty THEN InColumn(after.discount) ELSE row.discount,
   status |-> IF "status" \in dirty THEN after.status ELSE row.status,
   archivedAt |-> IF "archivedAt" \in dirty THEN after.archivedAt ELSE row.archivedAt,
   version |-> after.version + 1]

\* IsSafeForStorage, tested for every price a mutation writes.
Storable(price) == price <= MaxStorablePrice

\* dataToDomain: the discount of a stored row is validated again on every load.
Loadable(row) == row.discount # None => ValidDiscount(row.discount)

(***************************************************************************)
(* The rows one commit adds to outbox_events and price_history.  The       *)
(* outbox keeps the commit timestamp of an event and not its place among   *)
(* the events of its commit.  `at' stands for the commit timestamp; in     *)
(* price_history, which has no such column, for the random history_id.     *)
(***************************************************************************)
OutboxRows(id, at, events) ==
  {[product |-> id, at |-> at, event |-> events[i]] : i \in DOMAIN events}

\* Mutant: the old price is read after the change.
PriceRecordLate(id, old, new, changedAt) ==
  [product |-> id, oldPrice |-> IF old = None THEN None ELSE new, newPrice |-> new,
   changedAt |-> changedAt]

PriceRecord(id, old, new, changedAt) ==
  [product |-> id, oldPrice |-> old, newPrice |-> new, changedAt |-> changedAt]

HistoryRow(at, record) ==
  [at |-> at, product |-> record.product, oldPrice |-> record.oldPrice,
   newPrice |-> record.newPrice, changedAt |-> record.changedAt]
================================================================================
