---------------------------- MODULE ProductCommands ----------------------------
(***************************************************************************)
(* The command side of the service: the use-case interactors, each serving *)
(* one call in a goroutine of its own, against the products, outbox_events *)
(* and price_history tables of Spanner.  A call loads the aggregate with a *)
(* strong read, runs the domain method on its copy, builds a plan of       *)
(* mutations and commits it in a transaction of its own, which compares    *)
(* the row's version with the version the CLIENT sent.  Other calls run    *)
(* between any two of these steps.                                         *)
(***************************************************************************)
EXTENDS Product, FiniteSets

CONSTANTS
  Products,         \* product ids (uuids)
  Workers,          \* goroutines serving calls
  CreateRequests,   \* the CreateProduct requests clients send
  UpdateRequests,   \* the requests on an existing product clients send
  MaxLead,          \* how far the version of a request may be ahead of the row
  MaxVersion,       \* bound: clients leave a product alone at this version
  MaxTime           \* bound: the clock stops here

ASSUME RequestsAssumption ==
  CreateRequests \subseteq CreateRequest /\ UpdateRequests \subseteq UpdateRequest
ASSUME BoundsAssumption == MaxLead \in Nat /\ MaxVersion \in Nat /\ MaxTime \in Nat

\* A call: the request, the product it is about and the version it expects.
Request == [body : CreateRequest \cup UpdateRequest, id : Products, version : Nat]

Record == [product : Products, oldPrice : Int \cup {None}, newPrice : Int, changedAt : Nat]

ASSUME NoneIsNoCall == None \notin Request /\ None \notin Outcome /\ None \notin Record

VARIABLES
  rows,       \* the products table: a row, or None, for each id
  outbox,     \* the outbox_events table
  history,    \* the price_history table
  commitTs,   \* the timestamp of the last commit
  clock,      \* what clock.Now() answers
  pc,         \* how far the call of each worker has come
  request,    \* its request, with the target id and the expected version
  product,    \* the aggregate GetByID returned to it
  outcome,    \* what the domain method made of that aggregate
  record      \* the price record its plan inserts, or None

tables == << rows, outbox, history, commitTs >>
session == << pc, request, product, outcome, record >>
vars == << tables, clock, session >>

Init ==
  /\ rows = [p \in Products |-> None]
  /\ outbox = {}
  /\ history = {}
  /\ commitTs = 0
  /\ clock = 0
  /\ pc = [w \in Workers |-> "idle"]
  /\ request = [w \in Workers |-> None]
  /\ product = [w \in Workers |-> None]
  /\ outcome = [w \in Workers |-> None]
  /\ record = [w \in Workers |-> None]

\* The call returns, with a result or with an error: the worker forgets it.
Answer(w) ==
  /\ pc' = [pc EXCEPT ![w] = "idle"]
  /\ request' = [request EXCEPT ![w] = None]
  /\ product' = [product EXCEPT ![w] = None]
  /\ outcome' = [outcome EXCEPT ![w] = None]
  /\ record' = [record EXCEPT ![w] = None]

--------------------------------------------------------------------------------
(***************************************************************************)
(* CreateProduct up to its commit.  Nothing is read; the uuid is fresh.    *)
(***************************************************************************)
InFlight(p) == \E w \in Workers : request[w] # None /\ request[w].id = p

StartCreate(w) ==
  /\ pc[w] = "idle"
  /\ \E r \in CreateRequests, p \in Products :
       /\ ValidCreate(r)
       /\ NewProduct(r.arg).err = "nil"
       /\ Storable(r.arg.basePrice)
       /\ rows[p] = None /\ ~InFlight(p)
       /\ request' = [request EXCEPT ![w] = [body |-> r, id |-> p, version |-> 0]]
       /\ outcome' = [outcome EXCEPT ![w] = NewProduct(r.arg)]
       /\ record' = [record EXCEPT ![w] = PriceRecord(p, None, r.arg.basePrice, clock)]
       /\ pc' = [pc EXCEPT ![w] = "planned"]
  /\ UNCHANGED << tables, clock, product >>

(***************************************************************************)
(* A request on an existing product arrives.  Its version is one that the  *)
(* product has had or, when MaxLead > 0, one the client reckons it will    *)
(* have.  A version left out is the version 0 (GetVersion of the proto).   *)
(***************************************************************************)
Reached(p) == IF rows[p] = None THEN 0 ELSE rows[p].version

Receive(w) ==
  /\ pc[w] = "idle"
  /\ \E r \in UpdateRequests, p \in Products :
       /\ ValidUpdate(r)
       /\ Reached(p) < MaxVersion
       /\ \E v \in 0 .. Reached(p) + MaxLead :
            request' = [request EXCEPT ![w] = [body |-> r, id |-> p, version |-> v]]
  /\ pc' = [pc EXCEPT ![w] = "received"]
  /\ UNCHANGED << tables, clock, product, outcome, record >>

\* GetByID: not found, not loadable, or the row as a fresh aggregate.
Load(w) ==
  /\ pc[w] = "received"
  /\ LET row == rows[request[w].id]
     IN  IF row # None /\ Loadable(row)
         THEN /\ product' = [product EXCEPT ![w] = row]
              /\ pc' = [pc EXCEPT ![w] = "loaded"]
              /\ UNCHANGED << request, outcome, record >>
         ELSE Answer(w)
  /\ UNCHANGED << tables, clock >>

\* NewDiscount panics on the percentage of the request; nothing recovers.
Panics(w) ==
  request[w].body.op = "applyDiscount" /\ NewDiscountPanics(request[w].body.arg)

\* The domain method runs on the loaded aggregate, at the time it reads.
Mutate(w) ==
  /\ pc[w] = "loaded"
  /\ ~Panics(w)
  /\ LET done == Execute(request[w].body, product[w], clock)
     IN  IF done.err = "nil"
         THEN /\ outcome' = [outcome EXCEPT ![w] = done]
              /\ pc' = [pc EXCEPT ![w] = "mutated"]
              /\ UNCHANGED << request, product, record >>
         ELSE Answer(w)
  /\ UNCHANGED << tables, clock >>

\* The plan: the dirty columns, a price record (which reads the clock again
\* and the old price from before the change) and the events.
Plan(w) ==
  /\ pc[w] = "mutated"
  /\ IF request[w].body.op = "price" /\ ~Storable(request[w].body.arg)
     THEN Answer(w)
     ELSE /\ record' = [record EXCEPT ![w] =
               IF request[w].body.op = "price"
               THEN PriceRecord(request[w].id, product[w].basePrice,
                                request[w].body.arg, clock)
               ELSE None]
          /\ pc' = [pc EXCEPT ![w] = "planned"]
          /\ UNCHANGED << request, product, outcome >>
  /\ UNCHANGED << tables, clock >>

--------------------------------------------------------------------------------
(***************************************************************************)
(* The commit.  Apply writes a new product unconditionally;                *)
(* ApplyWithVersionCheck compares the stored version with the request's.   *)
(***************************************************************************)
\* Mutant: the plan is applied without comparing versions.
NoVersionCheck(w) == request[w] # None

\* Mutant: a row that has moved past the request's version passes, too.
VersionCheckLoose(w) ==
  request[w].body.op # "create" => rows[request[w].id].version >= request[w].version

VersionCheck(w) ==
  request[w].body.op # "create" => rows[request[w].id].version = request[w].version

Written(w) ==
  IF request[w].body.op = "create" THEN outcome[w].after
  ELSE UpdateMut(rows[request[w].id], outcome[w].after, outcome[w].dirty)

\* The transaction takes effect, whether or not its reply reaches the client.
Commit(w) ==
  /\ pc[w] = "planned"
  /\ VersionCheck(w)
  /\ rows' = [rows EXCEPT ![request[w].id] = Written(w)]
  /\ commitTs' = commitTs + 1
  /\ outbox' = outbox \cup OutboxRows(request[w].id, commitTs', outcome[w].events)
  /\ history' = IF record[w] = None THEN history
                ELSE history \cup {HistoryRow(commitTs', record[w])}
  /\ Answer(w)
  /\ UNCHANGED clock

\* Mutant: instead of failing, the call takes over the version of the row and
\* applies the same plan again.
ConflictRetries(w) ==
  /\ pc[w] = "planned"
  /\ ~VersionCheck(w)
  /\ request' = [request EXCEPT ![w].version = rows[request[w].id].version]
  /\ UNCHANGED << tables, clock, pc, product, outcome, record >>

\* The version check fails: the call returns the conflict.
Conflict(w) ==
  /\ pc[w] = "planned"
  /\ ~VersionCheck(w)
  /\ Answer(w)
  /\ UNCHANGED << tables, clock >>

\* Mutant: the row and the rest of the plan are written in two transactions, and
\* the second one fails.
FailHalfWay(w) ==
  /\ pc[w] = "planned"
  /\ VersionCheck(w)
  /\ rows' = [rows EXCEPT ![request[w].id] = Written(w)]
  /\ Answer(w)
  /\ UNCHANGED << outbox, history, commitTs, clock >>

\* A read or the commit fails in Spanner, or the deadline of the call passes.
Fail(w) ==
  /\ pc[w] \in {"received", "planned"}
  /\ Answer(w)
  /\ UNCHANGED << tables, clock >>

\* The server stops and starts again; the calls in flight are gone.
Crash ==
  /\ \E w \in Workers : pc[w] # "idle"
  /\ pc' = [w \in Workers |-> "idle"]
  /\ request' = [w \in Workers |-> None]
  /\ product' = [w \in Workers |-> None]
  /\ outcome' = [w \in Workers |-> None]
  /\ record' = [w \in Workers |-> None]
  /\ UNCHANGED << tables, clock >>

\* A panic in one call ends the process, and with it all the others.
Panic(w) == pc[w] = "loaded" /\ Panics(w) /\ Crash

Tick ==
  /\ clock < MaxTime
  /\ clock' = clock + 1
  /\ UNCHANGED << tables, session >>

\* The clients have no more calls to make: not a deadlock.
Rest ==
  /\ \A p \in Products : rows[p] # None /\ Reached(p) >= MaxVersion
  /\ \A w \in Workers : pc[w] = "idle"
  /\ UNCHANGED vars

Step(w) == Load(w) \/ Mutate(w) \/ Plan(w) \/ Commit(w) \/ Conflict(w)

Next ==
  \/ \E w \in Workers : StartCreate(w) \/ Receive(w) \/ Step(w) \/ Fail(w) \/ Panic(w)
  \/ Crash
  \/ Tick
  \/ Rest

Spec == Init /\ [][Next]_vars

--------------------------------------------------------------------------------
(***************************************************************************)
(* Properties                                                              *)
(***************************************************************************)
OutboxRow == [product : Products, at : Nat, event : Events]

PriceRow ==
  [at : Nat, product : Products, oldPrice : Int \cup {None}, newPrice : Int,
   changedAt : Nat]

\* The columns and the fields of a call in flight hold values of their types.
TypeOK ==
  /\ rows \in [Products -> Aggregate \cup {None}]
  /\ outbox \subseteq OutboxRow
  /\ history \subseteq PriceRow
  /\ commitTs \in Nat
  /\ clock \in Nat
  /\ pc \in [Workers -> {"idle", "received", "loaded", "mutated", "planned"}]
  /\ request \in [Workers -> Request \cup {None}]
  /\ product \in [Workers -> Aggregate \cup {None}]
  /\ outcome \in [Workers -> Outcome \cup {None}]
  /\ record \in [Workers -> Record \cup {None}]

Busy(w) == pc[w] # "idle"
Creates(w) == Busy(w) /\ request[w].body.op = "create"
Updates(w) == Busy(w) /\ request[w].body.op # "create"
HasLoaded(w) == Updates(w) /\ pc[w] \in {"loaded", "mutated", "planned"}

\* What a worker holds at each step of its call.
WellFormed(w) ==
  /\ pc[w] = "idle" <=> request[w] = None
  /\ Busy(w) => request[w].body \in (CreateRequests \cup UpdateRequests)
  /\ Creates(w) =>
       /\ pc[w] = "planned"
       /\ ValidCreate(request[w].body)
       /\ outcome[w] = NewProduct(request[w].body.arg)
       /\ \E t \in 0 .. clock :
            record[w] = PriceRecord(request[w].id, None, request[w].body.arg.basePrice, t)
  /\ Updates(w) => ValidUpdate(request[w].body)
  /\ HasLoaded(w) => product[w] # None /\ rows[request[w].id] # None
  /\ HasLoaded(w) /\ pc[w] # "loaded" =>
       /\ \E t \in 0 .. clock : outcome[w] = Execute(request[w].body, product[w], t)
       /\ outcome[w].err = "nil"
  /\ HasLoaded(w) /\ pc[w] = "planned" =>
       IF request[w].body.op = "price"
       THEN \E t \in 0 .. clock :
              record[w] = PriceRecord(request[w].id, product[w].basePrice,
                                      request[w].body.arg, t)
       ELSE record[w] = None

CallsAreWellFormed == \A w \in Workers : WellFormed(w)

\* An id is created once: no row and no second creation under the id of a
\* creation in flight.
IdsAreFresh ==
  \A w \in Workers : Creates(w) =>
    /\ rows[request[w].id] = None
    /\ \A v \in Workers : Creates(v) /\ request[v].id = request[w].id => v = w

\* The order behind optimistic locking: the version a client sent is at most
\* the version its call loaded, which is at most the version of the row; and
\* while the row still has the loaded version it is the loaded aggregate.
Ordered(w) ==
  /\ Updates(w) => request[w].version <= Reached(request[w].id)
  /\ HasLoaded(w) =>
       LET row == rows[request[w].id]
       IN  /\ request[w].version <= product[w].version
           /\ product[w].version <= row.version
           /\ product[w].version = row.version => product[w] = row

VersionsAreOrdered == \A w \in Workers : Ordered(w)

IInv == TypeOK /\ CallsAreWellFormed /\ IdsAreFresh /\ VersionsAreOrdered

\* An update the version check lets through was computed from the very row it
\* overwrites: no committed change is lost, none is decided on stale state.
\* (ApplyWithVersionCheck checks the version of the request, and the plan
\* writes the version of the aggregate it loaded plus one.)
NoLostUpdate ==
  \A w \in Workers :
    pc[w] = "planned" /\ Updates(w) /\ VersionCheck(w) =>
      product[w] = rows[request[w].id]

\* The version of a product counts its commits: every commit, and no failed
\* call, left exactly one batch of events under a timestamp of its own.
VersionCountsCommits ==
  \A p \in Products : rows[p] # None =>
    Cardinality({e.at : e \in {x \in outbox : x.product = p}}) = rows[p].version + 1

\* Archive clears the discount and stamps the row, and no later commit undoes
\* half of it.
ArchivedIsConsistent ==
  \A p \in Products : rows[p] # None =>
    /\ rows[p].status = "archived" <=> rows[p].archivedAt # None
    /\ rows[p].status = "archived" => rows[p].discount = None

\* Whatever is stored can be loaded again: no commit leaves a row that GetByID
\* refuses, which would make the product unreachable for every command.
StoredRowsLoad ==
  \A p \in Products : rows[p] # None =>
    Loadable(rows[p]) /\ rows[p].basePrice \in 1 .. MaxStorablePrice

HistoryOf(p) == {h \in history : h.product = p}
Latest(S) == CHOOSE h \in S : \A g \in S : g.at <= h.at
Before(S, at) == {h \in S : h.at < at}

\* The price history of a product is a chain: it begins without an old price,
\* each record's old price is the new price of the record committed before it,
\* and the last new price is the price of the row.
PriceHistoryIsChain ==
  \A p \in Products :
    LET H == HistoryOf(p)
    IN  /\ rows[p] = None <=> H = {}
        /\ rows[p] # None => Latest(H).newPrice = rows[p].basePrice
        /\ \A h \in H :
             h.oldPrice = IF Before(H, h.at) = {} THEN None
                          ELSE Latest(Before(H, h.at)).newPrice

\* Records of one product are stamped in the order they were committed, so
\* reading them by changed_at (GetByProductID) never shows a later change first.
PriceHistoryInTime ==
  \A g, h \in history :
    g.product = h.product /\ g.at < h.at => g.changedAt <= h.changedAt

EventsOf(p, types) == {e \in outbox : e.product = p /\ e.event.type \in types}

StatusAfter(type) ==
  CASE type = "product.created" -> "inactive"
    [] type = "product.activated" -> "active"
    [] type = "product.deactivated" -> "inactive"
    [] type = "product.archived" -> "archived"

\* A consumer that replays a product's events in commit order ends with the
\* status, the texts and the discount of the row: no event is missing, none is
\* left over from a call that failed, none describes a state that never was.  The
\* percentage it learns is the one the client sent; the row holds it rounded to
\* the decimals of its column, and by no other amount.
OutboxReplaysRow ==
  \A p \in Products : rows[p] # None =>
    LET lifecycle == Latest(EventsOf(p, {"product.created", "product.activated",
                                         "product.deactivated", "product.archived"}))
        discount == Latest(EventsOf(p, {"product.created", "product.discount.applied",
                                        "product.discount.removed"}))
        details == Latest(EventsOf(p, {"product.created", "product.updated"}))
    IN  /\ rows[p].status = StatusAfter(lifecycle.event.type)
        /\ rows[p].discount = IF discount.event.type = "product.discount.applied"
                              THEN InColumn(discount.event.body) ELSE None
        /\ Details(rows[p]) = details.event.body

--------------------------------------------------------------------------------
\* Every commit on a product moves its version by exactly one.
VersionStep ==
  [][\A p \in Products :
       rows[p] # None /\ rows'[p] # rows[p] => rows'[p].version = rows[p].version + 1]_vars

\* Archiving is for good: no call, not even one that loaded the product before
\* it was archived, changes an archived product.
ArchivedIsFinal ==
  [][\A p \in Products :
       rows[p] # None /\ rows[p].status = "archived" => rows'[p] = rows[p]]_vars

\* A discount arrives only on a product that is active at that very moment,
\* and replaces no other discount.
DiscountOnActiveOnly ==
  [][\A p \in Products :
       rows[p] # None /\ rows'[p].discount \notin {None, rows[p].discount} =>
         rows[p].status = "active" /\ rows[p].discount = None]_vars

\* The command side implements the atomic catalog, table by table.
Abstract == INSTANCE Catalog WITH Times <- 0 .. MaxTime
ImplementsCatalog == Abstract!Spec

\* A product as ListProducts filters and orders it; created_at is the commit
\* timestamp of its creation.
CreatedAt(p) ==
  (CHOOSE e \in outbox : e.product = p /\ e.event.type = "product.created").at

Listed(p) ==
  IF rows[p] = None THEN None
  ELSE [category |-> rows[p].category, status |-> rows[p].status, createdAt |-> CreatedAt(p)]

\* What the read side takes for granted of the command side: products only appear
\* as the newest, inactive, and an archived one keeps its status and category.
Table == INSTANCE ProductTable WITH
  Categories <- Texts,
  Stamps <- 1 .. Cardinality(Products) * (MaxVersion + 1),
  products <- [p \in Products |-> Listed(p)]
ImplementsTable == Table!TableSpec
================================================================================
