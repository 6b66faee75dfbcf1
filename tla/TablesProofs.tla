------------------------------ MODULE TablesProofs ------------------------------
(***************************************************************************)
(* What the tables hold, whatever calls have interleaved: rows that can be *)
(* loaded, a price history without a gap, an outbox that tells the rows.   *)
(* Optimistic locking gives the argument: a commit writes what a domain    *)
(* method made of the row itself, so what every method keeps between a row *)
(* and its records, the commits keep between the tables.  The last part    *)
(* derives what ListProducts takes for granted of the table products.      *)
(***************************************************************************)
EXTENDS ProductCommandsProofs, FiniteSetTheorems

--------------------------------------------------------------------------------
(***************************************************************************)
(* What a row is like.  A commit writes what a domain method made of the   *)
(* row itself, so what the methods keep, the table keeps.                  *)
(***************************************************************************)
RowOK(row) ==
  /\ row.status = "archived" <=> row.archivedAt # None
  /\ row.status = "archived" => row.discount = None
  /\ Loadable(row)
  /\ row.basePrice \in 1 .. MaxStorablePrice

\* The storage limit is tested when the plan is made, not by the domain methods.
PriceFits(r) ==
  IF r.op = "create" THEN Storable(r.arg.basePrice) ELSE r.op = "price" => Storable(r.arg)

PlannedPricesFit ==
  \A w \in Workers : pc[w] = "planned" => PriceFits(request[w].body)

RowsInv == PlannedPricesFit /\ \A p \in Products : rows[p] # None => RowOK(rows[p])

\* What a domain method makes of a row, and when it gives it a discount.
LEMMA ExecuteKeepsRow ==
  ASSUME NEW r \in UpdateRequest, ValidUpdate(r), PriceFits(r), NEW now \in Nat,
         NEW p \in Aggregate, RowOK(p), Execute(r, p, now).err = "nil"
  PROVE  LET after == Execute(r, p, now).after
         IN  /\ RowOK(after)
             /\ after.discount \notin {None, p.discount} =>
                  p.status = "active" /\ p.discount = None
<1> USE NoneAssumption DEF RowOK, Loadable, Accept, Reject, Aggregate, Statuses
<1>1. CASE r.op = "update"
  BY <1>1 DEF Execute, UpdateDetails, Merged
<1>2. CASE r.op = "price"
  <2>1. r.arg \in 1 .. MaxStorablePrice
    BY <1>2, LimitsAssumption DEF ValidUpdate, PriceFits, Storable, UpdateRequest
  <2>2. QED
    BY <1>2, <2>1 DEF Execute, SetBasePrice
<1>3. CASE r.op = "applyDiscount"
  <2>1. ValidDiscount(r.arg)
    BY <1>3 DEF Execute
  <2>2. r.arg \in DiscountInput
    BY <1>3, <2>1, ValidDiscountTyped DEF UpdateRequest
  <2>3. QED
    BY <1>3, <2>1, <2>2 DEF Execute, ApplyDiscount
<1>4. CASE r.op = "removeDiscount"
  BY <1>4 DEF Execute, RemoveDiscount
<1>5. CASE r.op = "activate"
  BY <1>5 DEF Execute, Activate
<1>6. CASE r.op = "deactivate"
  BY <1>6 DEF Execute, Deactivate
<1>7. CASE r.op = "archive"
  BY <1>7 DEF Execute, Archive
<1>8. QED
  BY <1>1, <1>2, <1>3, <1>4, <1>5, <1>6, <1>7 DEF UpdateRequest

\* The column rounds no percentage out of the range NewDiscount accepts: 100 has
\* no more decimals than it.
LEMMA InColumnValid ==
  ASSUME NEW d \in DiscountInput, ValidDiscount(d)
  PROVE  ValidDiscount(InColumn(d))
<1>1. PICK p \in 0 .. Hundred, u \in Nat \ {0}, n \in Nat :
        p = d.percent /\ u = ColumnUnit /\ Hundred = n * u
  <2>1. PICK n \in 0 .. Hundred : Hundred = n * ColumnUnit
    BY PercentAssumption
  <2>2. d.percent \in 0 .. Hundred /\ ColumnUnit \in Nat \ {0} /\ n \in Nat
    BY PercentAssumption DEF ValidDiscount
  <2>3. QED
    BY <2>1, <2>2
<1> DEFINE q == (2 * p + u) \div (2 * u)
<1>2. PICK k \in Int, i \in 0 .. 2 * u - 1 : q = k /\ 2 * p + u = (2 * u) * k + i
  <2>1. PICK a \in Int, b \in Nat \ {0} : a = 2 * p + u /\ b = 2 * u /\ q = a \div b
    OBVIOUS
  <2>2. a \div b \in Int /\ a % b \in 0 .. b - 1 /\ a = b * (a \div b) + (a % b)
    OBVIOUS
  <2>3. PICK i \in Int : i = a % b
    BY <2>2
  <2>4. QED
    BY <2>1, <2>2, <2>3
<1>3. k >= 0
  BY <1>2
<1>4. k <= n
  <2>1. ASSUME k >= n + 1 PROVE FALSE
    <3>1. (2 * u) * k >= (2 * u) * (n + 1)
      BY <2>1
    <3>2. p <= n * u
      BY <1>1
    <3>3. QED
      BY <1>2, <3>1, <3>2
  <2>2. QED
    BY <2>1
<1>5. q * u \in 0 .. Hundred
  <2>1. k * u >= 0 /\ k * u <= n * u
    BY <1>3, <1>4
  <2>2. q * u = k * u
    BY <1>2
  <2>3. QED
    BY <1>1, <2>1, <2>2
<1>6. InColumn(d) = [d EXCEPT !.percent = q * u]
  BY <1>1, NoneAssumption DEF InColumn, DiscountInput
<1> HIDE DEF q
<1>7. InColumn(d).percent = q * u /\ InColumn(d).start = d.start /\ InColumn(d).end = d.end
  BY <1>6 DEF DiscountInput
<1>8. QED
  BY <1>5, <1>7 DEF ValidDiscount, ValidPeriod

\* The row a commit writes.
LEMMA CommittedRow ==
  ASSUME CallsOK, VersionsAreOrdered, RowsInv,
         NEW w \in Workers, pc[w] = "planned", VersionCheck(w)
  PROVE  LET row == rows[request[w].id]
         IN  /\ RowOK(Written(w))
             /\ row # None /\ Written(w).discount \notin {None, row.discount} =>
                  row.status = "active" /\ row.discount = None
<1> DEFINE row == rows[request[w].id]
<1>1. CASE Creates(w)
  <2>1. /\ row = None /\ Written(w) = NewProduct(request[w].body.arg).after
        /\ request[w].body \in CreateRequest /\ ValidCreate(request[w].body)
    BY <1>1, CommittedCreate, RequestsAssumption
  <2>2. request[w].body.arg.basePrice \in 1 .. MaxStorablePrice
    BY <1>1, <2>1, LimitsAssumption
       DEF RowsInv, PlannedPricesFit, PriceFits, Storable, Creates, ValidCreate,
           CreateRequest, CreateInput
  <2>3. NewProduct(request[w].body.arg).after =
          [name |-> request[w].body.arg.name, description |-> request[w].body.arg.description,
           category |-> request[w].body.arg.category,
           basePrice |-> request[w].body.arg.basePrice,
           discount |-> None, status |-> "inactive", archivedAt |-> None, version |-> 0]
    BY DEF NewProduct, Accept, Reject
  <2>4. QED
    BY <2>1, <2>2, <2>3 DEF RowOK, Loadable
<1>2. CASE Updates(w)
  <2>1. HasLoaded(w)
    BY <1>2 DEF HasLoaded
  <2>2. /\ request[w].body \in UpdateRequest /\ ValidUpdate(request[w].body)
        /\ request[w].id \in Products /\ row # None
    BY <1>2, <2>1, LoadedCall, PlannedCall
       DEF Request, CallsOK, CallsAreWellFormed, WellFormed
  <2>3. PICK t \in 0 .. clock :
          /\ row \in Aggregate
          /\ outcome[w] = Execute(request[w].body, row, t)
          /\ outcome[w].err = "nil"
          /\ Written(w) = Whole(row, outcome[w].after)
    BY <1>2, CommittedUpdate
  <2>4. PriceFits(request[w].body) /\ RowOK(row)
    BY <2>2 DEF RowsInv, PlannedPricesFit
  <2>5. /\ RowOK(outcome[w].after)
        /\ outcome[w].after.discount \notin {None, row.discount} =>
             row.status = "active" /\ row.discount = None
    BY <2>2, <2>3, <2>4, ExecuteKeepsRow DEF CallsOK, TypeOK
  <2>6. outcome[w].after \in Aggregate
    BY PlannedCall DEF Outcome
  <2>7. /\ Written(w).discount = IF outcome[w].after.discount \in {None, row.discount}
                                 THEN outcome[w].after.discount
                                 ELSE InColumn(outcome[w].after.discount)
        /\ Written(w).status = outcome[w].after.status
        /\ Written(w).archivedAt = outcome[w].after.archivedAt
        /\ Written(w).basePrice = outcome[w].after.basePrice
    BY <2>3, <2>6, WholeRow
  <2>8. Loadable(Written(w))
    <3>1. CASE outcome[w].after.discount \in {None, row.discount}
      BY <2>5, <2>7, <3>1 DEF RowOK, Loadable
    <3>2. CASE outcome[w].after.discount \notin {None, row.discount}
      <4>1. outcome[w].after.discount \in DiscountInput /\ ValidDiscount(outcome[w].after.discount)
        BY <2>5, <2>6, <3>2 DEF RowOK, Loadable, Aggregate
      <4>2. QED
        BY <2>7, <3>2, <4>1, InColumnValid DEF Loadable
    <3>3. QED
      BY <3>1, <3>2
  <2>9. QED
    BY <2>5, <2>7, <2>8 DEF RowOK
<1>3. QED
  BY <1>1, <1>2, PlannedCall

\* A plan that was built has a price the column can hold.
LEMMA NextPricesFit == CallsOK /\ PlannedPricesFit /\ [Next]_vars => PlannedPricesFit'
<1> SUFFICES ASSUME CallsOK, PlannedPricesFit, [Next]_vars PROVE PlannedPricesFit'
  OBVIOUS
<1>0. pc \in [Workers -> {"idle", "received", "loaded", "mutated", "planned"}]
      /\ request \in [Workers -> Request \cup {None}]
  BY DEF CallsOK, TypeOK
<1>1. ASSUME NEW w \in Workers, Answer(w) PROVE PlannedPricesFit'
  BY <1>0, <1>1 DEF Answer, PlannedPricesFit
<1>2. ASSUME NEW w \in Workers, StartCreate(w) PROVE PlannedPricesFit'
  <2>1. PICK r \in CreateRequests, p \in Products :
          /\ Storable(r.arg.basePrice)
          /\ request' = [request EXCEPT ![w] = [body |-> r, id |-> p, version |-> 0]]
          /\ pc' = [pc EXCEPT ![w] = "planned"]
    BY <1>2 DEF StartCreate
  <2>2. r.op = "create"
    BY RequestsAssumption DEF CreateRequest
  <2>3. QED
    BY <1>0, <2>1, <2>2 DEF PlannedPricesFit, PriceFits
<1>3. ASSUME NEW w \in Workers, Receive(w) PROVE PlannedPricesFit'
  <2>1. /\ pc' = [pc EXCEPT ![w] = "received"]
        /\ \A v \in Workers \ {w} : request'[v] = request[v]
    BY <1>0, <1>3 DEF Receive
  <2>2. QED
    BY <1>0, <2>1 DEF PlannedPricesFit
<1>4. ASSUME NEW w \in Workers, Load(w) \/ Mutate(w), ~Answer(w) PROVE PlannedPricesFit'
  BY <1>0, <1>4 DEF Load, Mutate, PlannedPricesFit
<1>5. ASSUME NEW w \in Workers, Plan(w), ~Answer(w) PROVE PlannedPricesFit'
  <2>1. /\ pc[w] = "mutated" /\ pc' = [pc EXCEPT ![w] = "planned"] /\ UNCHANGED request
        /\ request[w].body.op = "price" => Storable(request[w].body.arg)
    BY <1>5 DEF Plan
  <2>2. request[w].body.op # "create"
    BY <2>1 DEF CallsOK, CallsAreWellFormed, WellFormed, Creates, Busy
  <2>3. QED
    BY <1>0, <2>1, <2>2 DEF PlannedPricesFit, PriceFits
<1>6. ASSUME NEW w \in Workers, Commit(w) \/ Conflict(w) \/ Fail(w) PROVE PlannedPricesFit'
  BY <1>1, <1>6 DEF Commit, Conflict, Fail
<1>7. CASE Crash
  BY <1>7 DEF Crash, PlannedPricesFit
<1>8. CASE Tick \/ Rest \/ UNCHANGED vars
  BY <1>8 DEF Tick, Rest, vars, session, PlannedPricesFit
<1>9. QED
  BY <1>1, <1>2, <1>3, <1>4, <1>5, <1>6, <1>7, <1>8 DEF Next, Step, Panic

\* The rows stay as GetByID accepts them.
LEMMA RowsStayOK == IInv /\ RowsInv /\ [Next]_vars => RowsInv'
<1> SUFFICES ASSUME IInv, RowsInv, [Next]_vars PROVE RowsInv'
  OBVIOUS
<1>1. CallsOK /\ VersionsAreOrdered /\ rows \in [Products -> Aggregate \cup {None}]
  BY DEF IInv, CallsOK, TypeOK
<1>2. PlannedPricesFit'
  BY <1>1, NextPricesFit DEF RowsInv
<1>3. ASSUME NEW p \in Products, rows'[p] # None PROVE RowOK(rows'[p])
  <2>1. CASE rows'[p] = rows[p]
    BY <1>3, <2>1 DEF RowsInv
  <2>2. CASE rows'[p] # rows[p]
    <3>1. PICK w \in Workers :
            /\ pc[w] = "planned" /\ VersionCheck(w)
            /\ rows' = [rows EXCEPT ![request[w].id] = Written(w)]
      BY <1>1, <2>2, OnlyCommitsWrite
    <3>2. rows'[p] = Written(w)
      BY <1>1, <2>2, <3>1
    <3>3. QED
      BY <1>1, <3>1, <3>2, CommittedRow
  <2>3. QED
    BY <2>1, <2>2
<1>4. QED
  BY <1>2, <1>3 DEF RowsInv

\* The rows are always as GetByID accepts them.
LEMMA RowsInvariant ==
  ASSUME MaxLead = 0
  PROVE  Spec => [](IInv /\ RowsInv)
<1>1. Init => RowsInv
  BY DEF Init, RowsInv, PlannedPricesFit
<1>2. QED
  BY <1>1, VersionsOrdered, RowsStayOK, PTL DEF Spec

\* No commit, however the calls interleave, leaves a row that GetByID refuses, or a
\* price beyond what the columns hold.
THEOREM RowsAlwaysLoad ==
  ASSUME MaxLead = 0
  PROVE  Spec => []StoredRowsLoad
<1>1. RowsInv => StoredRowsLoad
  BY DEF RowsInv, RowOK, StoredRowsLoad
<1>2. QED
  BY <1>1, RowsInvariant, PTL

\* No commit leaves a product half archived.
THEOREM ArchivedConsistently ==
  ASSUME MaxLead = 0
  PROVE  Spec => []ArchivedIsConsistent
<1>1. RowsInv => ArchivedIsConsistent
  BY DEF RowsInv, RowOK, ArchivedIsConsistent
<1>2. QED
  BY <1>1, RowsInvariant, PTL

\* A discount is given to active products without one only, although the call that
\* gives it decided on a copy.
THEOREM DiscountsOnActive ==
  ASSUME MaxLead = 0
  PROVE  Spec => DiscountOnActiveOnly
<1> DEFINE Given ==
      \A p \in Products :
        rows[p] # None /\ rows'[p].discount \notin {None, rows[p].discount} =>
          rows[p].status = "active" /\ rows[p].discount = None
<1>1. IInv /\ RowsInv /\ [Next]_vars => Given
  <2> SUFFICES ASSUME IInv, RowsInv, [Next]_vars, NEW p \in Products,
                      rows[p] # None, rows'[p].discount \notin {None, rows[p].discount}
               PROVE  rows[p].status = "active" /\ rows[p].discount = None
    OBVIOUS
  <2>1. CallsOK /\ VersionsAreOrdered /\ rows \in [Products -> Aggregate \cup {None}]
    BY DEF IInv, CallsOK, TypeOK
  <2>2. PICK w \in Workers :
          /\ pc[w] = "planned" /\ VersionCheck(w)
          /\ rows' = [rows EXCEPT ![request[w].id] = Written(w)]
    BY <2>1, OnlyCommitsWrite
  <2>3. request[w].id = p /\ rows'[p] = Written(w)
    BY <2>1, <2>2
  <2>4. QED
    BY <2>1, <2>2, <2>3, CommittedRow
<1>2. IInv /\ RowsInv /\ [Next]_vars => [Given]_vars
  BY <1>1
<1>3. QED
  BY <1>2, RowsInvariant, PTL DEF Spec, DiscountOnActiveOnly

--------------------------------------------------------------------------------
(***************************************************************************)
(* The price history.  The record of a call that will pass the check was   *)
(* made from the row, and after every record of its product.               *)
(***************************************************************************)
IsLatest(h, S) == h \in S /\ \A g \in S : g.at <= h.at

\* The price a row starts with, or keeps, or gets.
LEMMA PriceOfExecute ==
  ASSUME NEW r \in UpdateRequest, NEW now \in Nat, NEW p \in Aggregate,
         Execute(r, p, now).err = "nil"
  PROVE  Execute(r, p, now).after.basePrice = IF r.op = "price" THEN r.arg ELSE p.basePrice
<1> USE DEF Accept, Reject, Aggregate
<1>1. CASE r.op = "update"
  BY <1>1 DEF Execute, UpdateDetails, Merged
<1>2. CASE r.op = "price"
  BY <1>2 DEF Execute, SetBasePrice
<1>3. CASE r.op = "applyDiscount"
  BY <1>3 DEF Execute, ApplyDiscount
<1>4. CASE r.op = "removeDiscount"
  BY <1>4 DEF Execute, RemoveDiscount
<1>5. CASE r.op = "activate"
  BY <1>5 DEF Execute, Activate
<1>6. CASE r.op = "deactivate"
  BY <1>6 DEF Execute, Deactivate
<1>7. CASE r.op = "archive"
  BY <1>7 DEF Execute, Archive
<1>8. QED
  BY <1>1, <1>2, <1>3, <1>4, <1>5, <1>6, <1>7 DEF UpdateRequest

RecordsArePast ==
  \A h \in history : h.at <= commitTs /\ h.changedAt <= clock /\ rows[h.product] # None

\* Two records are never of one commit.
RecordsDiffer == \A g, h \in history : g.at = h.at => g = h

PlannedRecordsAreLater ==
  \A w \in Workers :
    pc[w] = "planned" /\ request[w].body.op = "price"
      /\ product[w].version = rows[request[w].id].version
    => \A h \in HistoryOf(request[w].id) : h.changedAt <= record[w].changedAt

\* PriceHistoryIsChain with the latest record named, not chosen.
Chained(p) ==
  /\ rows[p] # None =>
       \E h \in history : IsLatest(h, HistoryOf(p)) /\ h.newPrice = rows[p].basePrice
  /\ \A h \in HistoryOf(p) :
       \/ Before(HistoryOf(p), h.at) = {} /\ h.oldPrice = None
       \/ \E g \in history :
            IsLatest(g, Before(HistoryOf(p), h.at)) /\ h.oldPrice = g.newPrice

HistoryInv ==
  /\ RecordsArePast
  /\ RecordsDiffer
  /\ PlannedRecordsAreLater
  /\ PriceHistoryInTime
  /\ \A p \in Products : Chained(p)

\* A step that commits nothing, and lets nobody plan.
LEMMA NoRecordStep ==
  ASSUME HistoryInv, CallsOK, UNCHANGED tables, clock' \in Nat, clock <= clock',
         \A w \in Workers :
           pc'[w] = "planned" /\ request'[w].body.op = "price" =>
             /\ pc[w] = "planned" /\ request'[w] = request[w]
             /\ product'[w] = product[w] /\ record'[w] = record[w]
  PROVE  HistoryInv'
<1>1. RecordsArePast'
  BY DEF HistoryInv, RecordsArePast, tables, CallsOK, TypeOK, PriceRow
<1>2. PlannedRecordsAreLater'
  BY DEF HistoryInv, PlannedRecordsAreLater, HistoryOf, tables
<1>3. QED
  BY <1>1, <1>2
     DEF HistoryInv, RecordsDiffer, PriceHistoryInTime, Chained, HistoryOf, Before, tables

\* An answer that writes nothing adds no record.
LEMMA AnswerKeepsHistory ==
  ASSUME HistoryInv, CallsOK, NEW w \in Workers, Answer(w), UNCHANGED << tables, clock >>
  PROVE  HistoryInv'
<1>1. /\ pc'[w] = "idle"
      /\ \A v \in Workers \ {w} :
           /\ pc'[v] = pc[v] /\ request'[v] = request[v]
           /\ product'[v] = product[v] /\ record'[v] = record[v]
  BY DEF Answer, CallsOK, TypeOK
<1>2. QED
  BY <1>1, NoRecordStep DEF CallsOK, TypeOK

\* The price record reads the clock when it is made.
LEMMA PlanKeepsHistory ==
  ASSUME HistoryInv, CallsOK, NEW w \in Workers, Plan(w)
  PROVE  HistoryInv'
<1> SUFFICES ASSUME ~Answer(w) PROVE HistoryInv'
  BY AnswerKeepsHistory DEF Plan
<1>1. /\ UNCHANGED << tables, clock, request, product >>
      /\ pc' = [pc EXCEPT ![w] = "planned"]
      /\ record' = [record EXCEPT ![w] =
           IF request[w].body.op = "price"
           THEN PriceRecord(request[w].id, product[w].basePrice, request[w].body.arg, clock)
           ELSE None]
  BY DEF Plan
<1>2. \A v \in Workers \ {w} : pc'[v] = pc[v] /\ record'[v] = record[v]
  BY <1>1 DEF CallsOK, TypeOK
<1>3. request[w].body.op = "price" => record'[w].changedAt = clock
  BY <1>1 DEF CallsOK, TypeOK, PriceRecord
<1>4. PlannedRecordsAreLater'
  <2> SUFFICES ASSUME NEW v \in Workers, pc'[v] = "planned", request[v].body.op = "price",
                      product[v].version = rows[request[v].id].version,
                      NEW h \in HistoryOf(request[v].id)
               PROVE  h.changedAt <= record'[v].changedAt
    BY <1>1 DEF PlannedRecordsAreLater, HistoryOf, tables
  <2>1. CASE v = w
    BY <1>3, <2>1 DEF HistoryInv, RecordsArePast, HistoryOf
  <2>2. CASE v # w
    BY <1>2, <2>2 DEF HistoryInv, PlannedRecordsAreLater
  <2>3. QED
    BY <2>1, <2>2
<1>5. QED
  BY <1>1, <1>4
     DEF HistoryInv, RecordsArePast, RecordsDiffer, PriceHistoryInTime, Chained, HistoryOf,
         Before, tables

\* What a commit puts into the history: nothing, or the record of its call, which
\* comes after all others, and starts from the price of the row.
LEMMA CommittedRecord ==
  ASSUME CallsOK, VersionsAreOrdered, HistoryInv,
         NEW w \in Workers, pc[w] = "planned", VersionCheck(w)
  PROVE  LET id == request[w].id
         IN  \/ /\ record[w] = None /\ rows[id] # None
                /\ Written(w).basePrice = rows[id].basePrice
             \/ \E t \in 0 .. clock :
                  /\ record[w] = [product |-> id, changedAt |-> t,
                                  oldPrice |-> IF rows[id] = None THEN None
                                               ELSE rows[id].basePrice,
                                  newPrice |-> Written(w).basePrice]
                  /\ \A h \in HistoryOf(id) : h.changedAt <= t
<1> DEFINE id == request[w].id
<1>1. CASE Creates(w)
  <2>1. /\ rows[id] = None /\ Written(w) = NewProduct(request[w].body.arg).after
        /\ request[w].body \in CreateRequest /\ ValidCreate(request[w].body)
    BY <1>1, CommittedCreate, RequestsAssumption
  <2>2. PICK t \in 0 .. clock :
          record[w] = PriceRecord(id, None, request[w].body.arg.basePrice, t)
    BY <1>1 DEF CallsOK, CallsAreWellFormed, WellFormed
  <2>3. Written(w).basePrice = request[w].body.arg.basePrice
    BY <2>1, NewProductAccepted
  <2>4. HistoryOf(id) = {}
    BY <2>1 DEF HistoryInv, RecordsArePast, HistoryOf
  <2>5. QED
    BY <2>1, <2>2, <2>3, <2>4 DEF PriceRecord
<1>2. CASE Updates(w)
  <2>1. HasLoaded(w)
    BY <1>2 DEF HasLoaded
  <2>2. /\ request[w].body \in UpdateRequest /\ rows[id] # None
        /\ product[w] = rows[id]
    BY <1>2, <2>1, LoadedCall, CheckedUpdate DEF CallsOK, CallsAreWellFormed, WellFormed
  <2>3. PICK t \in 0 .. clock :
          /\ rows[id] \in Aggregate
          /\ outcome[w] = Execute(request[w].body, rows[id], t)
          /\ outcome[w].err = "nil"
          /\ Written(w) = Whole(rows[id], outcome[w].after)
    BY <1>2, CommittedUpdate
  <2>4. Written(w).basePrice = IF request[w].body.op = "price" THEN request[w].body.arg
                               ELSE rows[id].basePrice
    <3>1. t \in Nat
      BY DEF CallsOK, TypeOK
    <3>2. outcome[w].after.basePrice = IF request[w].body.op = "price" THEN request[w].body.arg
                                       ELSE rows[id].basePrice
      BY <2>2, <2>3, <3>1, PriceOfExecute
    <3>3. outcome[w].after \in Aggregate
      BY PlannedCall DEF Outcome
    <3>4. QED
      BY <2>3, <3>2, <3>3, WholeRow
  <2>5. CASE request[w].body.op # "price"
    BY <1>2, <2>1, <2>2, <2>4, <2>5 DEF CallsOK, CallsAreWellFormed, WellFormed
  <2>6. CASE request[w].body.op = "price"
    <3>1. PICK u \in 0 .. clock :
            record[w] = PriceRecord(id, product[w].basePrice, request[w].body.arg, u)
      BY <2>1, <2>6 DEF CallsOK, CallsAreWellFormed, WellFormed
    <3>2. \A h \in HistoryOf(id) : h.changedAt <= record[w].changedAt
      BY <2>2, <2>6 DEF HistoryInv, PlannedRecordsAreLater
    <3>3. QED
      BY <2>2, <2>4, <2>6, <3>1, <3>2 DEF PriceRecord
  <2>7. QED
    BY <2>5, <2>6
<1>3. QED
  BY <1>1, <1>2, PlannedCall

\* A planned call on the product that was written has lost its race.
LEMMA OvertakenPlans ==
  ASSUME CallsOK, VersionsAreOrdered, NEW w \in Workers, Commit(w),
         NEW v \in Workers, v # w, pc[v] = "planned", request[v].body.op = "price",
         request[v].id = request[w].id
  PROVE  product[v].version # rows'[request[w].id].version
<1> DEFINE id == request[w].id
<1>1. /\ pc[w] = "planned" /\ VersionCheck(w) /\ rows' = [rows EXCEPT ![id] = Written(w)]
      /\ id \in Products
  BY PlannedCall DEF Commit, Request
<1>2. Updates(v) /\ HasLoaded(v)
  BY PlannedCall DEF Creates
<1>3. rows[id] # None /\ product[v] \in Aggregate /\ product[v].version <= rows[id].version
  BY <1>2, LoadedCall
     DEF CallsOK, CallsAreWellFormed, WellFormed, VersionsAreOrdered, Ordered
<1>4. rows[id] \in Aggregate /\ Written(w).version = rows[id].version + 1
  BY <1>1, <1>3, CommittedVersion
<1>5. rows'[id] = Written(w)
  BY <1>1 DEF CallsOK, TypeOK
<1>6. QED
  BY <1>3, <1>4, <1>5 DEF Aggregate

\* A commit adds its record at the end of the chain of its product.
LEMMA CommitKeepsHistory ==
  ASSUME HistoryInv, CallsOK, VersionsAreOrdered, NEW w \in Workers, Commit(w)
  PROVE  HistoryInv'
<1>0. PICK id \in Products : id = request[w].id
  BY PlannedCall DEF Commit, Request
<1> DEFINE new == HistoryRow(commitTs + 1, record[w])
<1>1. /\ pc[w] = "planned" /\ VersionCheck(w) /\ Answer(w) /\ UNCHANGED clock
      /\ rows' = [rows EXCEPT ![id] = Written(w)]
      /\ commitTs' = commitTs + 1
      /\ history' = IF record[w] = None THEN history ELSE history \cup {new}
      /\ Written(w) # None /\ Written(w) \in Aggregate
  BY <1>0, PlannedCall, NoneAssumption DEF Commit
<1>2. /\ commitTs \in Nat /\ clock \in Nat
      /\ \A h \in history : h.at \in Nat /\ h.changedAt \in Nat /\ h.product \in Products
      /\ \A h \in history : h.at <= commitTs /\ h.changedAt <= clock
      /\ rows'[id] = Written(w)
      /\ \A p \in Products : p # id => rows'[p] = rows[p]
      /\ \A v \in Workers \ {w} : pc'[v] = pc[v] /\ request'[v] = request[v]
                                  /\ product'[v] = product[v] /\ record'[v] = record[v]
      /\ pc'[w] = "idle"
  BY <1>1 DEF CallsOK, TypeOK, PriceRow, HistoryInv, RecordsArePast, Answer
<1> HIDE DEF new
<1>3. ASSUME NEW v \in Workers, pc'[v] = "planned", request'[v].body.op = "price",
             product'[v].version = rows'[request'[v].id].version
      PROVE  /\ pc[v] = "planned" /\ request'[v] = request[v]
             /\ product'[v] = product[v] /\ record'[v] = record[v]
             /\ request[v].id # id /\ request[v].id \in Products
             /\ rows'[request[v].id] = rows[request[v].id]
  <2>1. /\ v # w /\ pc[v] = "planned" /\ request'[v] = request[v]
        /\ product'[v] = product[v] /\ record'[v] = record[v]
    BY <1>2, <1>3
  <2>2. request[v].id # id
    BY <1>0, <1>3, <2>1, OvertakenPlans
  <2>3. request[v].id \in Products
    BY <2>1, PlannedCall DEF Request
  <2>4. QED
    BY <1>2, <2>1, <2>2, <2>3
<1>4. CASE record[w] = None
  <2>1. /\ rows[id] # None /\ Written(w).basePrice = rows[id].basePrice
        /\ UNCHANGED history
    <3>1. ASSUME NEW t \in 0 .. clock,
                 record[w] = [product |-> id, changedAt |-> t,
                              oldPrice |-> IF rows[id] = None THEN None ELSE rows[id].basePrice,
                              newPrice |-> Written(w).basePrice]
          PROVE  FALSE
      <4>1. rows[id] \in Aggregate \cup {None}
        BY DEF CallsOK, TypeOK
      <4>2. record[w] \in Record
        BY <1>1, <1>2, <3>1, <4>1 DEF Record, Aggregate
      <4>3. QED
        BY <1>4, <4>2, NoneIsNoCall
    <3>2. QED
      BY <1>0, <1>1, <1>4, <3>1, CommittedRecord
  <2>2. RecordsArePast'
    BY <1>1, <1>2, <2>1 DEF HistoryInv, RecordsArePast
  <2>3. PlannedRecordsAreLater'
    BY <1>3, <2>1 DEF HistoryInv, PlannedRecordsAreLater, HistoryOf
  <2>4. ASSUME NEW p \in Products PROVE Chained(p)'
    <3>1. rows'[p] # None => rows[p] # None /\ rows'[p].basePrice = rows[p].basePrice
      BY <1>2, <2>1
    <3>2. Chained(p)
      BY DEF HistoryInv
    <3>3. QED
      BY <2>1, <3>1, <3>2 DEF Chained, HistoryOf, Before, IsLatest
  <2>5. QED
    BY <2>1, <2>2, <2>3, <2>4 DEF HistoryInv, RecordsDiffer, PriceHistoryInTime
<1>5. CASE record[w] # None
  <2>1. PICK t \in 0 .. clock :
          /\ record[w] = [product |-> id, changedAt |-> t,
                          oldPrice |-> IF rows[id] = None THEN None ELSE rows[id].basePrice,
                          newPrice |-> Written(w).basePrice]
          /\ \A h \in HistoryOf(id) : h.changedAt <= t
    BY <1>0, <1>1, <1>5, CommittedRecord
  <2>2. /\ new.at = commitTs + 1 /\ new.product = id /\ new.changedAt = t
        /\ new.oldPrice = IF rows[id] = None THEN None ELSE rows[id].basePrice
        /\ new.newPrice = Written(w).basePrice
    BY <2>1 DEF new, HistoryRow
  <2>3. history' = history \cup {new} /\ \A h \in history : h.at < new.at
    BY <1>1, <1>2, <1>5, <2>2
  <2>4. /\ HistoryOf(id)' = HistoryOf(id) \cup {new}
        /\ \A p \in Products : p # id => HistoryOf(p)' = HistoryOf(p)
    BY <2>2, <2>3 DEF HistoryOf
  <2>5. RecordsArePast'
    BY <1>1, <1>2, <2>2, <2>3 DEF HistoryInv, RecordsArePast
  <2>6. RecordsDiffer'
    BY <1>2, <2>2, <2>3 DEF HistoryInv, RecordsDiffer
  <2>7. PriceHistoryInTime'
    <3> SUFFICES ASSUME NEW g \in history', NEW h \in history',
                        g.product = h.product, g.at < h.at
                 PROVE  g.changedAt <= h.changedAt
      BY DEF PriceHistoryInTime
    <3>1. CASE g \in history /\ h \in history
      BY <3>1 DEF HistoryInv, PriceHistoryInTime
    <3>2. CASE g \in history /\ h = new
      BY <2>1, <2>2, <3>2 DEF HistoryOf
    <3>3. CASE g = new
      BY <1>2, <2>2, <2>3, <3>3
    <3>4. QED
      BY <2>3, <3>1, <3>2, <3>3
  <2>8. PlannedRecordsAreLater'
    <3> SUFFICES ASSUME NEW v \in Workers, pc'[v] = "planned",
                        request'[v].body.op = "price",
                        product'[v].version = rows'[request'[v].id].version,
                        NEW h \in history', h.product = request'[v].id
                 PROVE  h.changedAt <= record'[v].changedAt
      BY DEF PlannedRecordsAreLater, HistoryOf
    <3>1. h \in HistoryOf(request[v].id)
      BY <1>3, <2>2, <2>3 DEF HistoryOf
    <3>2. QED
      BY <1>3, <3>1 DEF HistoryInv, PlannedRecordsAreLater
  <2>9. ASSUME NEW p \in Products PROVE Chained(p)'
    <3>1. CASE p # id
      <4>1. /\ HistoryOf(p)' = HistoryOf(p) /\ rows'[p] = rows[p]
            /\ history \subseteq history'
        BY <1>2, <2>3, <2>4, <3>1
      <4>2. Chained(p)
        BY DEF HistoryInv
      <4>3. QED
        BY <4>1, <4>2 DEF Chained, IsLatest, Before
    <3>2. CASE p = id
      <4> DEFINE H == HistoryOf(id)
      <4>1. H \subseteq history /\ \A h \in H : h.at < new.at
        BY <2>3 DEF HistoryOf
      <4>2. IsLatest(new, H \cup {new})
        BY <1>2, <2>2, <4>1 DEF IsLatest
      <4>3. \E h \in history' : IsLatest(h, HistoryOf(id)') /\ h.newPrice = rows'[id].basePrice
        BY <1>2, <2>2, <2>3, <2>4, <4>2
      <4>4. Before(H \cup {new}, new.at) = H
        BY <1>2, <2>2, <4>1 DEF Before
      <4>5. \A h \in H : Before(H \cup {new}, h.at) = Before(H, h.at)
        BY <1>2, <2>2, <4>1 DEF Before
      <4>6. Chained(id)
        BY <1>1 DEF HistoryInv
      <4>7. \/ H = {} /\ new.oldPrice = None
            \/ \E g \in history : IsLatest(g, H) /\ new.oldPrice = g.newPrice
        <5>1. CASE rows[id] = None
          BY <2>2, <5>1 DEF HistoryInv, RecordsArePast, HistoryOf
        <5>2. CASE rows[id] # None
          BY <2>2, <4>6, <5>2 DEF Chained
        <5>3. QED
          BY <5>1, <5>2
      <4> HIDE DEF H
      <4>8. \A h \in H \cup {new} :
              \/ Before(H \cup {new}, h.at) = {} /\ h.oldPrice = None
              \/ \E g \in history' :
                   IsLatest(g, Before(H \cup {new}, h.at)) /\ h.oldPrice = g.newPrice
        <5>1. \A h \in H :
                \/ Before(H, h.at) = {} /\ h.oldPrice = None
                \/ \E g \in history : IsLatest(g, Before(H, h.at)) /\ h.oldPrice = g.newPrice
          BY <4>6 DEF Chained, H
        <5>2. QED
          BY <2>3, <4>4, <4>5, <4>7, <5>1
      <4>9. HistoryOf(id)' = H \cup {new}
        BY <2>4 DEF H
      <4>10. Chained(id)'
        BY <4>3, <4>8, <4>9 DEF Chained
      <4>11. QED
        BY <3>2, <4>10
    <3>3. QED
      BY <3>1, <3>2
  <2>10. QED
    BY <2>5, <2>6, <2>7, <2>8, <2>9 DEF HistoryInv
<1>6. QED
  BY <1>4, <1>5

\* Every step keeps the chains.
LEMMA HistoryStep == IInv /\ HistoryInv /\ [Next]_vars => HistoryInv'
<1> SUFFICES ASSUME IInv, HistoryInv, [Next]_vars PROVE HistoryInv'
  OBVIOUS
<1>1. CallsOK /\ VersionsAreOrdered /\ clock \in Nat
  BY DEF IInv, CallsOK, TypeOK
<1>2. /\ pc \in [Workers -> {"idle", "received", "loaded", "mutated", "planned"}]
      /\ request \in [Workers -> Request \cup {None}]
      /\ record \in [Workers -> Record \cup {None}]
      /\ product \in [Workers -> Aggregate \cup {None}]
  BY DEF IInv, TypeOK
<1>3. ASSUME NEW w \in Workers, StartCreate(w) PROVE HistoryInv'
  <2>1. PICK r \in CreateRequests, p \in Products :
          request' = [request EXCEPT ![w] = [body |-> r, id |-> p, version |-> 0]]
    BY <1>3 DEF StartCreate
  <2>2. request'[w].body.op # "price"
    BY <1>2, <2>1, RequestsAssumption DEF CreateRequest
  <2>3. /\ UNCHANGED << tables, clock >>
        /\ \A v \in Workers \ {w} :
             /\ pc'[v] = pc[v] /\ request'[v] = request[v]
             /\ product'[v] = product[v] /\ record'[v] = record[v]
    BY <1>2, <1>3 DEF StartCreate
  <2>4. QED
    BY <1>1, <2>2, <2>3, NoRecordStep
<1>4. ASSUME NEW w \in Workers, Receive(w) \/ Load(w) \/ Mutate(w), ~Answer(w)
      PROVE  HistoryInv'
  <2>1. /\ UNCHANGED << tables, clock >> /\ pc'[w] # "planned"
        /\ \A v \in Workers \ {w} :
             /\ pc'[v] = pc[v] /\ request'[v] = request[v]
             /\ product'[v] = product[v] /\ record'[v] = record[v]
    BY <1>2, <1>4 DEF Receive, Load, Mutate
  <2>2. QED
    BY <1>1, <2>1, NoRecordStep
<1>5. ASSUME NEW w \in Workers,
             \/ Receive(w) \/ Load(w) \/ Mutate(w) \/ Conflict(w) \/ Fail(w)
      PROVE  HistoryInv'
  <2>1. CASE Answer(w)
    BY <1>1, <1>5, <2>1, AnswerKeepsHistory DEF Receive, Load, Mutate, Conflict, Fail
  <2>2. CASE ~Answer(w)
    BY <1>4, <1>5, <2>2 DEF Conflict, Fail
  <2>3. QED
    BY <2>1, <2>2
<1>6. CASE Crash
  BY <1>1, <1>6, NoRecordStep DEF Crash
<1>7. CASE Tick
  BY <1>1, <1>7, NoRecordStep DEF Tick, session
<1>8. CASE Rest \/ UNCHANGED vars
  BY <1>1, <1>8, NoRecordStep DEF Rest, vars, session
<1>9. QED
  BY <1>1, <1>3, <1>5, <1>6, <1>7, <1>8, PlanKeepsHistory, CommitKeepsHistory
  DEF Next, Step, Panic

\* The chains are always whole and in time.
LEMMA HistoryInvariant ==
  ASSUME MaxLead = 0
  PROVE  Spec => [](IInv /\ HistoryInv)
<1>1. Init => HistoryInv
  BY DEF Init, HistoryInv, RecordsArePast, RecordsDiffer, PlannedRecordsAreLater,
         PriceHistoryInTime, Chained, HistoryOf
<1>2. QED
  BY <1>1, VersionsOrdered, HistoryStep, PTL DEF Spec

\* The price history of a product is one chain without a gap, from the price it was
\* created with to the price of the row.
THEOREM HistoryChained ==
  ASSUME MaxLead = 0
  PROVE  Spec => []PriceHistoryIsChain
<1>1. IInv /\ HistoryInv => PriceHistoryIsChain
  <2> SUFFICES ASSUME IInv, HistoryInv, NEW p \in Products
               PROVE  /\ rows[p] = None <=> HistoryOf(p) = {}
                      /\ rows[p] # None => Latest(HistoryOf(p)).newPrice = rows[p].basePrice
                      /\ \A h \in HistoryOf(p) :
                           h.oldPrice = IF Before(HistoryOf(p), h.at) = {} THEN None
                                        ELSE Latest(Before(HistoryOf(p), h.at)).newPrice
    BY DEF PriceHistoryIsChain
  <2>1. \A h \in history : h.at \in Nat
    BY DEF IInv, TypeOK, PriceRow
  <2>2. ASSUME NEW S \in SUBSET history, NEW h, IsLatest(h, S) PROVE Latest(S) = h
    <3>1. \A g \in S : (\A x \in S : x.at <= g.at) => g = h
      BY <2>1, <2>2 DEF IsLatest, HistoryInv, RecordsDiffer
    <3>2. QED
      BY <2>2, <3>1 DEF IsLatest, Latest
  <2>3. Chained(p) /\ HistoryOf(p) \subseteq history
    BY DEF HistoryInv, HistoryOf
  <2>4. \A n : Before(HistoryOf(p), n) \subseteq history
    BY <2>3 DEF Before
  <2>5. rows[p] = None => HistoryOf(p) = {}
    BY DEF HistoryInv, RecordsArePast, HistoryOf
  <2>6. rows[p] # None => HistoryOf(p) # {} /\ Latest(HistoryOf(p)).newPrice = rows[p].basePrice
    <3>1. rows[p] # None =>
            \E h \in history : IsLatest(h, HistoryOf(p)) /\ h.newPrice = rows[p].basePrice
      BY <2>3 DEF Chained
    <3>2. QED
      BY <2>2, <2>3, <3>1 DEF IsLatest
  <2>7. ASSUME NEW h \in HistoryOf(p)
        PROVE  h.oldPrice = IF Before(HistoryOf(p), h.at) = {} THEN None
                            ELSE Latest(Before(HistoryOf(p), h.at)).newPrice
    <3>1. CASE Before(HistoryOf(p), h.at) = {}
      BY <2>3, <2>7, <3>1 DEF Chained, IsLatest
    <3>2. CASE Before(HistoryOf(p), h.at) # {}
      <4>1. PICK g \in history :
              IsLatest(g, Before(HistoryOf(p), h.at)) /\ h.oldPrice = g.newPrice
        BY <2>3, <2>7, <3>2 DEF Chained
      <4>2. Latest(Before(HistoryOf(p), h.at)) = g
        BY <2>2, <2>4, <4>1
      <4>3. QED
        BY <3>2, <4>1, <4>2
    <3>3. QED
      BY <3>1, <3>2
  <2>8. QED
    BY <2>5, <2>6, <2>7
<1>2. QED
  BY <1>1, HistoryInvariant, PTL

\* Sorted by changed_at, the records of a product are in the order of their commits.
THEOREM HistoryOrdered ==
  ASSUME MaxLead = 0
  PROVE  Spec => []PriceHistoryInTime
<1>1. HistoryInv => PriceHistoryInTime
  BY DEF HistoryInv
<1>2. QED
  BY <1>1, HistoryInvariant, PTL

--------------------------------------------------------------------------------
(***************************************************************************)
(* The outbox.  Every event of a commit describes the row the commit       *)
(* leaves, and what no event of it is about stays as it was.               *)
(***************************************************************************)
StatusTypes ==
  {"product.created", "product.activated", "product.deactivated", "product.archived"}
DiscountTypes ==
  {"product.created", "product.discount.applied", "product.discount.removed"}
DetailsTypes == {"product.created", "product.updated"}

Groups == {StatusTypes, DiscountTypes, DetailsTypes}

\* What a consumer that follows one group of events takes from an event of it.
Tells(T, event, row) ==
  /\ T = StatusTypes => row.status = StatusAfter(event.type)
  /\ T = DiscountTypes =>
       row.discount = IF event.type = "product.discount.applied"
                      THEN InColumn(event.body) ELSE None
  /\ T = DetailsTypes => Details(row) = event.body

\* What the event says of the aggregate the method left of p, before it is written.
Says(T, event, p, after) ==
  /\ T = StatusTypes => after.status = StatusAfter(event.type)
  /\ T = DiscountTypes =>
       IF event.type = "product.discount.applied"
       THEN after.discount = event.body /\ after.discount # p.discount
       ELSE after.discount = None
  /\ T = DetailsTypes => Details(after) = event.body

Same(T, row, after) ==
  /\ T = StatusTypes => after.status = row.status
  /\ T = DiscountTypes => after.discount = row.discount
  /\ T = DetailsTypes => Details(after) = Details(row)

\* The sequence of one event.
LEMMA OneEvent ==
  ASSUME NEW e
  PROVE  DOMAIN << e >> = {1} /\ << e >>[1] = e
OBVIOUS

\* An accepted method leaves at least one event, and its events say what it did.
Reported(p, done) ==
  /\ 1 \in DOMAIN done.events
  /\ \A T \in Groups :
       /\ \A i \in DOMAIN done.events :
            done.events[i].type \in T => Says(T, done.events[i], p, done.after)
       /\ (\A i \in DOMAIN done.events : done.events[i].type \notin T) =>
            Same(T, p, done.after)

\* A method with one event reports its change if the event tells the fields it is about.
LEMMA OneEventReported ==
  ASSUME NEW p, NEW after, NEW dirty, NEW event,
         \A T \in Groups : IF event.type \in T THEN Says(T, event, p, after)
                           ELSE Same(T, p, after)
  PROVE  Reported(p, Accept(after, dirty, << event >>))
<1>1. Accept(after, dirty, << event >>).events = << event >>
      /\ Accept(after, dirty, << event >>).after = after
  BY DEF Accept
<1>2. DOMAIN << event >> = {1} /\ << event >>[1] = event
  BY OneEvent
<1>3. QED
  BY <1>1, <1>2 DEF Reported

\* The events of every domain method report exactly what it changed.
LEMMA ExecuteReported ==
  ASSUME NEW r \in UpdateRequest, NEW now \in Nat, NEW p \in Aggregate,
         Execute(r, p, now).err = "nil"
  PROVE  Reported(p, Execute(r, p, now))
<1> USE DEF Reject
<1>1. CASE r.op = "update"
  <2> DEFINE after == Merged(p, r.arg)
             dirty == (IF r.arg.name # None THEN {"name"} ELSE {})
                        \cup (IF r.arg.description # None THEN {"description"} ELSE {})
                        \cup (IF r.arg.category # None THEN {"category"} ELSE {})
             event == Event("product.updated", Details(after))
  <2>1. Execute(r, p, now) = Accept(after, dirty, << event >>)
    BY <1>1 DEF Execute, UpdateDetails
  <2>2. after.status = p.status /\ after.discount = p.discount
    BY DEF Merged, Aggregate
  <2>3. event.type = "product.updated" /\ event.body = Details(after)
    BY DEF Event
  <2> HIDE DEF after, dirty, event
  <2>4. \A T \in Groups : IF event.type \in T THEN Says(T, event, p, after) ELSE Same(T, p, after)
    BY <2>2, <2>3 DEF Groups, StatusTypes, DiscountTypes, DetailsTypes, Says, Same
  <2>5. QED
    BY <2>1, <2>4, OneEventReported
<1>2. CASE r.op = "price"
  <2> DEFINE after == [p EXCEPT !.basePrice = r.arg]
             event == Event("product.price.changed", None)
  <2>1. Execute(r, p, now) = Accept(after, {"basePrice"}, << event >>)
    BY <1>2 DEF Execute, SetBasePrice
  <2>2. after.status = p.status /\ after.discount = p.discount /\ Details(after) = Details(p)
    BY DEF Aggregate, Details
  <2>3. event.type = "product.price.changed"
    BY DEF Event
  <2> HIDE DEF after, event
  <2>4. \A T \in Groups : IF event.type \in T THEN Says(T, event, p, after) ELSE Same(T, p, after)
    BY <2>2, <2>3 DEF Groups, StatusTypes, DiscountTypes, DetailsTypes, Says, Same
  <2>5. QED
    BY <2>1, <2>4, OneEventReported
<1>3. CASE r.op = "applyDiscount"
  <2> DEFINE after == [p EXCEPT !.discount = r.arg]
             event == Event("product.discount.applied", r.arg)
  <2>1. Execute(r, p, now) = Accept(after, {"discount"}, << event >>)
        /\ p.discount = None /\ ValidDiscount(r.arg)
    BY <1>3 DEF Execute, ApplyDiscount, Aggregate, Statuses
  <2>2. after.status = p.status /\ after.discount = r.arg /\ Details(after) = Details(p)
    BY DEF Aggregate, Details
  <2>3. r.arg # p.discount
    BY <1>3, <2>1, ValidDiscountTyped, NoneAssumption DEF UpdateRequest
  <2>4. event.type = "product.discount.applied" /\ event.body = r.arg
    BY DEF Event
  <2> HIDE DEF after, event
  <2>5. \A T \in Groups : IF event.type \in T THEN Says(T, event, p, after) ELSE Same(T, p, after)
    BY <2>3, <2>2, <2>4 DEF Groups, StatusTypes, DiscountTypes, DetailsTypes, Says, Same
  <2>6. QED
    BY <2>1, <2>5, OneEventReported
<1>4. CASE r.op = "removeDiscount"
  <2> DEFINE after == [p EXCEPT !.discount = None]
             event == Event("product.discount.removed", None)
  <2>1. Execute(r, p, now) = Accept(after, {"discount"}, << event >>)
    BY <1>4 DEF Execute, RemoveDiscount
  <2>2. after.status = p.status /\ after.discount = None /\ Details(after) = Details(p)
    BY DEF Aggregate, Details
  <2>3. event.type = "product.discount.removed"
    BY DEF Event
  <2> HIDE DEF after, event
  <2>4. \A T \in Groups : IF event.type \in T THEN Says(T, event, p, after) ELSE Same(T, p, after)
    BY <2>2, <2>3 DEF Groups, StatusTypes, DiscountTypes, DetailsTypes, Says, Same
  <2>5. QED
    BY <2>1, <2>4, OneEventReported
<1>5. CASE r.op \in {"activate", "deactivate"}
  <2> DEFINE Type(status) == IF status = "active" THEN "product.activated" ELSE "product.deactivated"
  <2>1. PICK status \in {"active", "inactive"} :
          Execute(r, p, now)
            = Accept([p EXCEPT !.status = status], {"status"}, << Event(Type(status), None) >>)
    <3>1. CASE r.op = "activate"
      <4>1. Execute(r, p, now) = Accept([p EXCEPT !.status = "active"], {"status"},
                                        << Event("product.activated", None) >>)
        BY <3>1 DEF Execute, Activate, Aggregate, Statuses
      <4>2. Type("active") = "product.activated"
        OBVIOUS
      <4>3. QED
        BY <4>1, <4>2
    <3>2. CASE r.op = "deactivate"
      <4>1. Execute(r, p, now) = Accept([p EXCEPT !.status = "inactive"], {"status"},
                                        << Event("product.deactivated", None) >>)
        BY <3>2 DEF Execute, Deactivate, Aggregate, Statuses
      <4>2. Type("inactive") = "product.deactivated"
        OBVIOUS
      <4>3. QED
        BY <4>1, <4>2
    <3>3. QED
      BY <1>5, <3>1, <3>2
  <2> DEFINE after == [p EXCEPT !.status = status]
             event == Event(Type(status), None)
  <2>2. after.status = status /\ after.discount = p.discount /\ Details(after) = Details(p)
    BY DEF Aggregate, Details
  <2>3. event.type = IF status = "active" THEN "product.activated" ELSE "product.deactivated"
    BY DEF Event
  <2>4. Execute(r, p, now) = Accept(after, {"status"}, << event >>)
    BY <2>1
  <2> HIDE DEF after, event
  <2>5. \A T \in Groups : IF event.type \in T THEN Says(T, event, p, after) ELSE Same(T, p, after)
    BY <2>1, <2>2, <2>3
       DEF Groups, StatusTypes, DiscountTypes, DetailsTypes, Says, Same, StatusAfter
  <2>6. QED
    BY <2>4, <2>5, OneEventReported
<1>6. CASE r.op = "archive"
  <2> DEFINE after == [p EXCEPT !.discount = None, !.status = "archived", !.archivedAt = now]
             removed == Event("product.discount.removed", None)
             archived == Event("product.archived", None)
  <2>1. after.status = "archived" /\ after.discount = None /\ Details(after) = Details(p)
    BY DEF Aggregate, Details
  <2>2. removed.type = "product.discount.removed" /\ archived.type = "product.archived"
    BY DEF Event
  <2>3. CASE p.discount = None
    <3>1. Execute(r, p, now) = Accept(after, {"status", "archivedAt"}, << archived >>)
      BY <1>6, <2>3 DEF Execute, Archive
    <3> HIDE DEF after, removed, archived
    <3>2. \A T \in Groups :
            IF archived.type \in T THEN Says(T, archived, p, after) ELSE Same(T, p, after)
      BY <2>1, <2>2, <2>3
         DEF Groups, StatusTypes, DiscountTypes, DetailsTypes, Says, Same, StatusAfter
    <3>3. QED
      BY <3>1, <3>2, OneEventReported
  <2>4. CASE p.discount # None
    <3> DEFINE both == << removed, archived >>
    <3>1. Execute(r, p, now) = Accept(after, {"status", "archivedAt", "discount"}, both)
      BY <1>6, <2>4 DEF Execute, Archive
    <3>2. DOMAIN both = {1, 2} /\ both[1] = removed /\ both[2] = archived
      OBVIOUS
    <3>3. Execute(r, p, now).events = both /\ Execute(r, p, now).after = after
      BY <3>1 DEF Accept
    <3> HIDE DEF after, removed, archived, both
    <3>4. ASSUME NEW T \in Groups
          PROVE  /\ removed.type \in T => Says(T, removed, p, after)
                 /\ archived.type \in T => Says(T, archived, p, after)
                 /\ removed.type \notin T /\ archived.type \notin T => Same(T, p, after)
      BY <2>1, <2>2
         DEF Groups, StatusTypes, DiscountTypes, DetailsTypes, Says, Same, StatusAfter
    <3>5. QED
      BY <3>2, <3>3, <3>4 DEF Reported
  <2>5. QED
    BY <2>3, <2>4
<1>7. QED
  BY <1>1, <1>2, <1>3, <1>4, <1>5, <1>6 DEF UpdateRequest

\* Once it is written, the row is what the events of the method tell: rounding in
\* the column is the same for the row and for who follows the events.
LEMMA WrittenAsReported ==
  ASSUME NEW p, NEW after \in Aggregate, NEW T
  PROVE  /\ \A e : Says(T, e, p, after) => Tells(T, e, Whole(p, after))
         /\ Same(T, p, after) => Same(T, p, Whole(p, after))
<1> DEFINE row == Whole(p, after)
<1>1. /\ row.status = after.status
      /\ row.discount = IF after.discount \in {None, p.discount} THEN after.discount
                        ELSE InColumn(after.discount)
      /\ Details(row) = Details(after)
  BY WholeRow DEF Details
<1>2. after.discount = None => InColumn(after.discount) = None
  BY DEF InColumn
<1> HIDE DEF row
<1>3. Same(T, p, after) => Same(T, p, row)
  BY <1>1 DEF Same
<1>4. ASSUME NEW e, Says(T, e, p, after) PROVE Tells(T, e, row)
  <2>1. CASE e.type = "product.discount.applied"
    BY <1>1, <1>2, <1>4, <2>1 DEF Says, Tells
  <2>2. CASE e.type # "product.discount.applied"
    BY <1>1, <1>4, <2>2 DEF Says, Tells
  <2>3. QED
    BY <2>1, <2>2
<1>5. QED
  BY <1>3, <1>4 DEF row

\* A new product has one event, which tells everything about it.
LEMMA CreateReported ==
  ASSUME NEW r \in CreateRequest, ValidCreate(r), NEW p
  PROVE  /\ 1 \in DOMAIN NewProduct(r.arg).events
         /\ \A T \in Groups, i \in DOMAIN NewProduct(r.arg).events :
              /\ NewProduct(r.arg).events[i].type \in T
              /\ Tells(T, NewProduct(r.arg).events[i], NewProduct(r.arg).after)
<1> DEFINE new == NewProduct(r.arg)
           event == Event("product.created", Details(new.after))
<1>1. new.events = << event >> /\ new.after.status = "inactive" /\ new.after.discount = None
  BY DEF NewProduct, Accept, Reject, ValidCreate, CreateRequest, CreateInput
<1>2. event.type = "product.created" /\ event.body = Details(new.after)
  BY DEF Event
<1>3. DOMAIN << event >> = {1} /\ << event >>[1] = event
  BY OneEvent
<1> HIDE DEF new, event
<1>4. \A T \in Groups : event.type \in T /\ Tells(T, event, new.after)
  BY <1>1, <1>2 DEF Groups, StatusTypes, DiscountTypes, DetailsTypes, Tells, StatusAfter
<1>5. 1 \in DOMAIN new.events
      /\ \A T \in Groups, i \in DOMAIN new.events :
           new.events[i].type \in T /\ Tells(T, new.events[i], new.after)
  BY <1>1, <1>3, <1>4
<1>6. QED
  BY <1>5 DEF new

\* The events a commit adds: there are some, they describe the row it writes, and
\* on a group none of them is about, the row stays as it was.
LEMMA CommittedEvents ==
  ASSUME CallsOK, VersionsAreOrdered, NEW w \in Workers, pc[w] = "planned", VersionCheck(w)
  PROVE  LET row == rows[request[w].id]
             events == outcome[w].events
         IN  /\ 1 \in DOMAIN events
             /\ \A T \in Groups :
                  /\ \A i \in DOMAIN events :
                       events[i].type \in T => Tells(T, events[i], Written(w))
                  /\ (\A i \in DOMAIN events : events[i].type \notin T) =>
                       row # None /\ Same(T, row, Written(w))
<1> DEFINE row == rows[request[w].id]
<1>1. CASE Creates(w)
  BY <1>1, CommittedCreate, RequestsAssumption, CreateReported
<1>2. CASE Updates(w)
  <2>1. HasLoaded(w)
    BY <1>2 DEF HasLoaded
  <2>2. request[w].body \in UpdateRequest /\ row # None
    BY <1>2, <2>1, LoadedCall DEF CallsOK, CallsAreWellFormed, WellFormed
  <2>3. PICK t \in 0 .. clock :
          /\ row \in Aggregate
          /\ outcome[w] = Execute(request[w].body, row, t)
          /\ outcome[w].err = "nil"
          /\ Written(w) = Whole(row, outcome[w].after)
    BY <1>2, CommittedUpdate
  <2>4. t \in Nat /\ outcome[w].after \in Aggregate
    BY PlannedCall DEF Outcome, CallsOK, TypeOK
  <2>5. Reported(row, outcome[w])
    BY <2>2, <2>3, <2>4, ExecuteReported
  <2>6. /\ \A T, e : Says(T, e, row, outcome[w].after) => Tells(T, e, Written(w))
        /\ \A T : Same(T, row, outcome[w].after) => Same(T, row, Written(w))
    BY <2>3, <2>4, WrittenAsReported
  <2>7. QED
    BY <2>2, <2>5, <2>6 DEF Reported
<1>3. QED
  BY <1>1, <1>2, PlannedCall

--------------------------------------------------------------------------------
EventsArePast == \A e \in outbox : e.at <= commitTs /\ rows[e.product] # None

\* Among the events of a group the latest exist and tell the row.
Told(p) ==
  \A T \in Groups :
    /\ \E e \in outbox : IsLatest(e, EventsOf(p, T))
    /\ \A e \in outbox : IsLatest(e, EventsOf(p, T)) => Tells(T, e.event, rows[p])

Stamps(p) == {e.at : e \in {x \in outbox : x.product = p}}

Counted(p) == IsFiniteSet(Stamps(p)) /\ Cardinality(Stamps(p)) = rows[p].version + 1

OutboxInv ==
  EventsArePast /\ \A p \in Products : rows[p] # None => Told(p) /\ Counted(p)

\* The rows of a commit carry its product, its timestamp, and its events.
LEMMA OutboxRowsOf ==
  ASSUME NEW id, NEW at, NEW events
  PROVE  /\ \A e \in OutboxRows(id, at, events) :
              e.product = id /\ e.at = at /\ \E i \in DOMAIN events : e.event = events[i]
         /\ \A i \in DOMAIN events :
              \E e \in OutboxRows(id, at, events) : e.event = events[i]
<1> DEFINE Row(i) == [product |-> id, at |-> at, event |-> events[i]]
<1>1. \A i \in DOMAIN events :
        Row(i).product = id /\ Row(i).at = at /\ Row(i).event = events[i]
  OBVIOUS
<1>2. OutboxRows(id, at, events) = {Row(i) : i \in DOMAIN events}
  BY DEF OutboxRows
<1> HIDE DEF Row
<1>3. QED
  BY <1>1, <1>2

\* A commit leaves events that tell the row it writes.
LEMMA CommitKeepsOutbox ==
  ASSUME OutboxInv, CallsOK, VersionsAreOrdered, NEW w \in Workers, Commit(w)
  PROVE  OutboxInv'
<1>0. PICK id \in Products : id = request[w].id
  BY PlannedCall DEF Commit, Request
<1> DEFINE events == outcome[w].events
           at == commitTs + 1
           Added == OutboxRows(id, at, events)
<1>1. /\ pc[w] = "planned" /\ VersionCheck(w)
      /\ rows' = [rows EXCEPT ![id] = Written(w)] /\ commitTs' = commitTs + 1
      /\ outbox' = outbox \cup Added
      /\ Written(w) # None
  BY <1>0, PlannedCall, NoneAssumption DEF Commit
<1>2. /\ rows'[id] = Written(w)
      /\ \A p \in Products : p # id => rows'[p] = rows[p]
      /\ commitTs \in Nat
      /\ \A e \in outbox : e.at \in Nat /\ e.at <= commitTs /\ e.product \in Products
      /\ \A e \in outbox : e.at < at /\ rows[e.product] # None
  BY <1>1 DEF CallsOK, TypeOK, OutboxRow, OutboxInv, EventsArePast
<1>3. /\ \A e \in Added :
           e.product = id /\ e.at = at /\ \E i \in DOMAIN events : e.event = events[i]
      /\ \A i \in DOMAIN events : \E e \in Added : e.event = events[i]
  BY OutboxRowsOf
<1> HIDE DEF Added
<1>4. /\ 1 \in DOMAIN events
      /\ \A T \in Groups :
           /\ \A i \in DOMAIN events : events[i].type \in T => Tells(T, events[i], Written(w))
           /\ (\A i \in DOMAIN events : events[i].type \notin T) =>
                rows[id] # None /\ Same(T, rows[id], Written(w))
  BY <1>0, <1>1, CommittedEvents
<1> HIDE DEF events, at
<1>5. EventsArePast'
  BY <1>1, <1>2, <1>3 DEF EventsArePast, at
<1>6. ASSUME NEW p \in Products, p # id, rows'[p] # None PROVE Told(p)' /\ Counted(p)'
  <2>1. Told(p) /\ Counted(p)
    BY <1>2, <1>6 DEF OutboxInv
  <2>2. \A T : EventsOf(p, T)' = EventsOf(p, T)
    BY <1>1, <1>3, <1>6 DEF EventsOf
  <2>3. {x \in outbox' : x.product = p} = {x \in outbox : x.product = p}
    BY <1>1, <1>3, <1>6
  <2>4. Stamps(p)' = Stamps(p)
    BY <2>3 DEF Stamps
  <2>5. \A T, e : IsLatest(e, EventsOf(p, T)) => e \in outbox
    BY DEF IsLatest, EventsOf
  <2>6. QED
    BY <1>1, <1>2, <1>6, <2>1, <2>2, <2>4, <2>5 DEF Told, Counted
<1>7. Told(id)'
  <2> SUFFICES ASSUME NEW T \in Groups
               PROVE  /\ \E e \in outbox' : IsLatest(e, EventsOf(id, T)')
                      /\ \A e \in outbox' :
                           IsLatest(e, EventsOf(id, T)') => Tells(T, e.event, rows'[id])
    BY DEF Told, IsLatest
  <2> DEFINE E == EventsOf(id, T)  N == {e \in Added : e.event.type \in T}
  <2>1. EventsOf(id, T)' = E \cup N /\ E \subseteq outbox /\ N \subseteq outbox'
    BY <1>1, <1>3 DEF EventsOf
  <2>2. CASE N = {}
    <3>1. rows[id] # None /\ Same(T, rows[id], Written(w))
      BY <1>3, <1>4, <2>2
    <3>2. \A e : Tells(T, e, rows[id]) => Tells(T, e, Written(w))
      BY <3>1 DEF Tells, Same
    <3>3. Told(id)
      BY <3>1 DEF OutboxInv
    <3>4. EventsOf(id, T)' = EventsOf(id, T)
      BY <2>1, <2>2
    <3>5. /\ \E e \in outbox : IsLatest(e, EventsOf(id, T))
          /\ \A e \in outbox : IsLatest(e, EventsOf(id, T)) => Tells(T, e.event, rows[id])
          /\ \A e : IsLatest(e, EventsOf(id, T)) => e \in outbox
      BY <3>3 DEF Told, IsLatest, EventsOf
    <3>6. QED
      BY <1>1, <1>2, <3>2, <3>4, <3>5
  <2>3. CASE N # {}
    <3> HIDE DEF E
    <3>1. PICK n \in N : TRUE
      BY <2>3
    <3>2. \A e \in E : e.at < at
      BY <1>2, <2>1
    <3>3. \A e \in N : e.at = at
      BY <1>3
    <3>4. at \in Nat /\ \A e \in E : e.at \in Nat
      BY <1>2, <2>1 DEF at
    <3>5. IsLatest(n, E \cup N)
      BY <3>1, <3>2, <3>3, <3>4 DEF IsLatest
    <3>6. ASSUME NEW e, IsLatest(e, E \cup N) PROVE e \in N
      BY <3>1, <3>2, <3>3, <3>4, <3>6 DEF IsLatest
    <3>7. \A e \in N : Tells(T, e.event, Written(w))
      BY <1>3, <1>4
    <3>8. QED
      BY <1>2, <2>1, <3>1, <3>5, <3>6, <3>7
  <2>4. QED
    BY <2>2, <2>3
<1>8. Counted(id)'
  <2>1. Stamps(id)' = Stamps(id) \cup {at}
    <3>1. {x \in outbox' : x.product = id} = {x \in outbox : x.product = id} \cup Added
      BY <1>1, <1>3
    <3>2. \E e \in Added : TRUE
      BY <1>3, <1>4
    <3>3. QED
      BY <1>3, <3>1, <3>2 DEF Stamps
  <2>2. at \notin Stamps(id)
    BY <1>2 DEF Stamps
  <2>3. CASE rows[id] = None
    <3>1. Stamps(id) = {}
      BY <1>2, <2>3 DEF Stamps
    <3>2. Written(w).version = 0
      BY <1>0, <1>1, <2>3, CommittedVersion
    <3>3. IsFiniteSet(Stamps(id)) /\ Cardinality(Stamps(id)) = 0
      BY <3>1, FS_EmptySet
    <3>4. IsFiniteSet(Stamps(id) \cup {at}) /\ Cardinality(Stamps(id) \cup {at}) = 0 + 1
      BY <2>2, <3>3, FS_AddElement
    <3>5. QED
      BY <1>2, <2>1, <3>2, <3>4 DEF Counted
  <2>4. CASE rows[id] # None
    <3>1. IsFiniteSet(Stamps(id)) /\ Cardinality(Stamps(id)) = rows[id].version + 1
      BY <2>4 DEF OutboxInv, Counted
    <3>2. Written(w).version = rows[id].version + 1
      BY <1>0, <1>1, <2>4, CommittedVersion
    <3>3. IsFiniteSet(Stamps(id) \cup {at})
          /\ Cardinality(Stamps(id) \cup {at}) = Cardinality(Stamps(id)) + 1
      BY <2>2, <3>1, FS_AddElement
    <3>4. QED
      BY <1>2, <2>1, <3>1, <3>2, <3>3 DEF Counted
  <2>5. QED
    BY <2>3, <2>4
<1>9. QED
  BY <1>5, <1>6, <1>7, <1>8 DEF OutboxInv

\* The steps that commit nothing.
LEMMA TablesRest ==
  ASSUME [Next]_vars, ~(\E w \in Workers : Commit(w))
  PROVE  UNCHANGED tables
<1>1. ASSUME NEW w \in Workers,
             \/ StartCreate(w) \/ Receive(w) \/ Load(w) \/ Mutate(w) \/ Plan(w)
             \/ Conflict(w) \/ Fail(w)
      PROVE  UNCHANGED tables
  BY <1>1 DEF StartCreate, Receive, Load, Mutate, Plan, Conflict, Fail
<1>2. Crash \/ Tick \/ Rest \/ UNCHANGED vars => UNCHANGED tables
  BY DEF Crash, Tick, Rest, vars
<1>3. QED
  BY <1>1, <1>2 DEF Next, Step, Panic

\* Only a commit adds events.
LEMMA OutboxStep == IInv /\ OutboxInv /\ [Next]_vars => OutboxInv'
<1> SUFFICES ASSUME IInv, OutboxInv, [Next]_vars PROVE OutboxInv'
  OBVIOUS
<1>1. CallsOK /\ VersionsAreOrdered
  BY DEF IInv, CallsOK
<1>2. CASE UNCHANGED tables
  BY <1>2 DEF tables, OutboxInv, EventsArePast, Told, Counted, Stamps, EventsOf, IsLatest
<1>3. QED
  BY <1>1, <1>2, TablesRest, CommitKeepsOutbox

\* The last events of each kind tell the row.
LEMMA OutboxInvariant ==
  ASSUME MaxLead = 0
  PROVE  Spec => [](IInv /\ OutboxInv)
<1>1. Init => OutboxInv
  BY DEF Init, OutboxInv, EventsArePast
<1>2. QED
  BY <1>1, VersionsOrdered, OutboxStep, PTL DEF Spec

\* A consumer that follows the outbox in the order of commits arrives at the status
\* and the texts of the row, and at a discount that the column rounded into the row's.
THEOREM OutboxTellsRows ==
  ASSUME MaxLead = 0
  PROVE  Spec => []OutboxReplaysRow
<1>1. OutboxInv => OutboxReplaysRow
  <2> SUFFICES ASSUME OutboxInv, NEW p \in Products, rows[p] # None
               PROVE  /\ rows[p].status =
                           StatusAfter(Latest(EventsOf(p, StatusTypes)).event.type)
                      /\ rows[p].discount =
                           IF Latest(EventsOf(p, DiscountTypes)).event.type
                                = "product.discount.applied"
                           THEN InColumn(Latest(EventsOf(p, DiscountTypes)).event.body) ELSE None
                      /\ Details(rows[p]) = Latest(EventsOf(p, DetailsTypes)).event.body
    BY DEF OutboxReplaysRow, StatusTypes, DiscountTypes, DetailsTypes
  <2>1. ASSUME NEW T \in Groups PROVE Tells(T, Latest(EventsOf(p, T)).event, rows[p])
    <3>1. /\ \E e \in outbox : IsLatest(e, EventsOf(p, T))
          /\ \A e \in outbox : IsLatest(e, EventsOf(p, T)) => Tells(T, e.event, rows[p])
      BY DEF OutboxInv, Told
    <3>2. EventsOf(p, T) \subseteq outbox
      BY DEF EventsOf
    <3>3. IsLatest(Latest(EventsOf(p, T)), EventsOf(p, T))
      BY <3>1 DEF IsLatest, Latest
    <3>4. QED
      BY <3>1, <3>2, <3>3 DEF IsLatest
  <2>2. StatusTypes \in Groups /\ DiscountTypes \in Groups /\ DetailsTypes \in Groups
    BY DEF Groups
  <2> HIDE DEF StatusTypes, DiscountTypes, DetailsTypes
  <2>3. QED
    BY <2>1, <2>2 DEF Tells
<1>2. QED
  BY <1>1, OutboxInvariant, PTL

\* The version of a product is the number of its commits, less its creation: every
\* commit left its events, under a timestamp of its own.
THEOREM VersionsCounted ==
  ASSUME MaxLead = 0
  PROVE  Spec => []VersionCountsCommits
<1>1. OutboxInv => VersionCountsCommits
  BY DEF OutboxInv, Counted, Stamps, VersionCountsCommits
<1>2. QED
  BY <1>1, OutboxInvariant, PTL

--------------------------------------------------------------------------------
(***************************************************************************)
(* The table products as ListProducts sees it.  Its created_at is the      *)
(* commit timestamp of the creation, and the abstract table has only so    *)
(* many stamps: every commit is one version of one product, so there are   *)
(* no more commits than products times versions.                           *)
(***************************************************************************)

\* n numbers that belong to members of P, at most m to each, are at most |P| * m:
\* a number is told by its owner and how many of the owner's are smaller.
LEMMA OwnersTimesShare ==
  ASSUME NEW P, IsFiniteSet(P), NEW n \in Nat, NEW m \in Nat, NEW owner \in [1 .. n -> P],
         \A p \in P : Cardinality({t \in 1 .. n : owner[t] = p}) <= m
  PROVE  n <= Cardinality(P) * m
<1> DEFINE of(p) == {t \in 1 .. n : owner[t] = p}
           below(t) == {s \in of(owner[t]) : s < t}
           ranks == 0 .. m - 1
           f == [t \in 1 .. n |-> << owner[t], Cardinality(below(t)) >>]
<1>1. IsFiniteSet(1 .. n) /\ Cardinality(1 .. n) = n
  BY FS_Interval
<1>2. \A p \in P : IsFiniteSet(of(p)) /\ Cardinality(of(p)) \in Nat /\ Cardinality(of(p)) <= m
  BY <1>1, FS_Subset, FS_CardinalityType
<1>3. \A t \in 1 .. n : owner[t] \in P /\ t \in of(owner[t])
  OBVIOUS
<1>4. ASSUME NEW t \in 1 .. n, NEW S \in SUBSET of(owner[t]), t \notin S
      PROVE  /\ IsFiniteSet(S) /\ Cardinality(S) \in Nat
             /\ IsFiniteSet(S \cup {t}) /\ Cardinality(S \cup {t}) = Cardinality(S) + 1
  <2>1. IsFiniteSet(S)
    <3>1. IsFiniteSet(of(owner[t]))
      BY <1>2, <1>3
    <3> HIDE DEF of
    <3>2. QED
      BY <3>1, FS_Subset
  <2>2. QED
    BY <1>4, <2>1, FS_CardinalityType, FS_AddElement
<1>5. ASSUME NEW t \in 1 .. n
      PROVE  Cardinality(below(t)) \in ranks
  <2>1. below(t) \subseteq of(owner[t]) /\ t \notin below(t)
    OBVIOUS
  <2>2. /\ Cardinality(below(t)) \in Nat /\ IsFiniteSet(below(t) \cup {t})
        /\ Cardinality(below(t) \cup {t}) = Cardinality(below(t)) + 1
    BY <1>4, <2>1
  <2>3. below(t) \cup {t} \subseteq of(owner[t])
    BY <1>3, <2>1
  <2>4. Cardinality(below(t) \cup {t}) <= Cardinality(of(owner[t]))
    BY <1>2, <1>3, <2>3, FS_Subset
  <2> HIDE DEF below, of
  <2>5. QED
    BY <1>2, <1>3, <2>2, <2>4
<1>6. ASSUME NEW t \in 1 .. n, NEW u \in 1 .. n, owner[t] = owner[u], t < u
      PROVE  Cardinality(below(t)) # Cardinality(below(u))
  <2>1. below(t) \subseteq of(owner[t]) /\ t \notin below(t)
    OBVIOUS
  <2>2. /\ Cardinality(below(t)) \in Nat
        /\ Cardinality(below(t) \cup {t}) = Cardinality(below(t)) + 1
    BY <1>4, <2>1
  <2>3. below(t) \cup {t} \subseteq below(u) /\ u \notin below(u)
    BY <1>3, <1>6
  <2>4. IsFiniteSet(below(u)) /\ Cardinality(below(u)) \in Nat
    BY <1>4, <2>3
  <2>5. Cardinality(below(t) \cup {t}) <= Cardinality(below(u))
    BY <2>3, <2>4, FS_Subset
  <2> HIDE DEF below
  <2>6. QED
    BY <2>2, <2>4, <2>5
<1>7. f \in [1 .. n -> P \X ranks]
  <2> HIDE DEF below, ranks
  <2>1. \A t \in 1 .. n : << owner[t], Cardinality(below(t)) >> \in P \X ranks
    BY <1>3, <1>5
  <2>2. QED
    BY <2>1
<1>8. \A t, u \in 1 .. n : f[t] = f[u] => t = u
  <2> SUFFICES ASSUME NEW t \in 1 .. n, NEW u \in 1 .. n, f[t] = f[u], t # u PROVE FALSE
    OBVIOUS
  <2> HIDE DEF below
  <2>1. owner[t] = owner[u] /\ Cardinality(below(t)) = Cardinality(below(u))
    OBVIOUS
  <2>2. t < u \/ u < t
    OBVIOUS
  <2>3. QED
    BY <1>6, <2>1, <2>2
<1> HIDE DEF f
<1>9. f \in Injection(1 .. n, P \X ranks)
  BY <1>7, <1>8 DEF Injection, IsInjective
<1>10. IsFiniteSet(ranks) /\ Cardinality(ranks) = m
  <2>1. 0 \in Int /\ m - 1 \in Int
    OBVIOUS
  <2>2. /\ IsFiniteSet(0 .. m - 1)
        /\ Cardinality(0 .. m - 1) = IF 0 > m - 1 THEN 0 ELSE (m - 1) - 0 + 1
    BY <2>1, FS_Interval
  <2>3. QED
    BY <2>2
<1> HIDE DEF ranks
<1>11. IsFiniteSet(P \X ranks) /\ Cardinality(P \X ranks) = Cardinality(P) * Cardinality(ranks)
  BY <1>10, FS_Product
<1>12. Cardinality(1 .. n) <= Cardinality(P \X ranks)
  BY <1>9, <1>11, FS_Injection
<1>13. QED
  BY <1>1, <1>10, <1>11, <1>12

--------------------------------------------------------------------------------
\* The clients leave a product alone at the last version.
VersionsBounded ==
  /\ \A w \in Workers : Updates(w) => request[w].version < MaxVersion
  /\ \A p \in Products : rows[p] # None => rows[p].version <= MaxVersion

\* Every commit left events, under a stamp of its own and about one product.
StampsOwned ==
  /\ \A e \in outbox : e.at \in 1 .. commitTs
  /\ \A t \in 1 .. commitTs : \E e \in outbox : e.at = t
  /\ \A e, f \in outbox : e.at = f.at => e.product = f.product

\* The event of p's creation in an outbox, and no other stamp for it.
Creation(events, p, c) ==
  /\ c \in events /\ c.product = p /\ c.event.type = "product.created"
  /\ \A e \in events : e.product = p /\ e.event.type = "product.created" => e.at = c.at

CreatedOnce ==
  \A p \in Products : rows[p] # None => \E c \in outbox : Creation(outbox, p, c)

StampInv == VersionsBounded /\ StampsOwned /\ CreatedOnce

\* While nothing is written, only a request that arrives can carry a new version.
LEMMA VersionsStayBounded ==
  ASSUME MaxLead = 0, CallsOK, VersionsAreOrdered, VersionsBounded, [Next]_vars
  PROVE  VersionsBounded'
<1>1. /\ pc \in [Workers -> {"idle", "received", "loaded", "mutated", "planned"}]
      /\ request \in [Workers -> Request \cup {None}]
      /\ rows \in [Products -> Aggregate \cup {None}]
  BY DEF CallsOK, TypeOK
<1>2. ASSUME NEW w \in Workers, Updates(w)'
      PROVE  request'[w].version < MaxVersion
  <2>1. CASE Updates(w) /\ request'[w] = request[w]
    BY <2>1 DEF VersionsBounded
  <2>2. ASSUME NEW v \in Workers, StartCreate(v)
        PROVE  request'[w].version < MaxVersion
    <3>1. PICK r \in CreateRequests, p \in Products :
            /\ request' = [request EXCEPT ![v] = [body |-> r, id |-> p, version |-> 0]]
            /\ pc' = [pc EXCEPT ![v] = "planned"]
      BY <2>2 DEF StartCreate
    <3>2. r.op = "create"
      BY RequestsAssumption DEF CreateRequest
    <3>3. w # v
      BY <1>1, <1>2, <3>1, <3>2 DEF Updates
    <3>4. request'[w] = request[w] /\ pc'[w] = pc[w]
      BY <1>1, <3>1, <3>3
    <3>5. QED
      BY <1>2, <2>1, <3>4 DEF Updates, Busy
  <2>3. ASSUME NEW v \in Workers, Receive(v)
        PROVE  request'[w].version < MaxVersion
    <3>1. PICK r \in UpdateRequests, p \in Products :
            /\ Reached(p) < MaxVersion
            /\ \E n \in 0 .. Reached(p) + MaxLead :
                 request' = [request EXCEPT ![v] = [body |-> r, id |-> p, version |-> n]]
      BY <2>3 DEF Receive
    <3>2. PICK n \in 0 .. Reached(p) + MaxLead :
            request' = [request EXCEPT ![v] = [body |-> r, id |-> p, version |-> n]]
      BY <3>1
    <3>3. pc' = [pc EXCEPT ![v] = "received"]
      BY <2>3 DEF Receive
    <3>4. Reached(p) \in Nat
      BY <1>1 DEF Reached, Aggregate
    <3>5. CASE w = v
      BY <1>1, <3>1, <3>2, <3>4, <3>5, BoundsAssumption
    <3>6. CASE w # v
      BY <1>1, <1>2, <2>1, <3>2, <3>3, <3>6 DEF Updates, Busy
    <3>7. QED
      BY <3>5, <3>6
  <2>4. ASSUME NEW v \in Workers, Answer(v)
        PROVE  request'[w].version < MaxVersion
    BY <1>1, <1>2, <2>1, <2>4 DEF Answer, Updates, Busy
  <2>5. ASSUME NEW v \in Workers, Load(v) \/ Mutate(v) \/ Plan(v), ~Answer(v)
        PROVE  request'[w].version < MaxVersion
    <3>1. UNCHANGED request /\ pc[v] # "idle" /\ \A u \in Workers \ {v} : pc'[u] = pc[u]
      BY <1>1, <2>5 DEF Load, Mutate, Plan
    <3>2. Updates(w)
      BY <1>2, <3>1 DEF Updates, Busy
    <3>3. QED
      BY <2>1, <3>1, <3>2
  <2>6. CASE Crash
    BY <1>2, <2>6 DEF Crash, Updates, Busy
  <2>7. CASE Tick \/ Rest \/ UNCHANGED vars
    BY <1>2, <2>1, <2>7 DEF Tick, Rest, vars, session, Updates, Busy
  <2>8. QED
    BY <2>2, <2>3, <2>4, <2>5, <2>6, <2>7 DEF Next, Step, Panic, Commit, Conflict, Fail
<1>3. ASSUME NEW p \in Products, rows'[p] # None
      PROVE  rows'[p].version <= MaxVersion
  <2>1. CASE rows'[p] = rows[p]
    BY <1>3, <2>1 DEF VersionsBounded
  <2>2. CASE rows'[p] # rows[p]
    <3>1. PICK w \in Workers :
            /\ pc[w] = "planned" /\ VersionCheck(w)
            /\ request[w].id \in Products
            /\ rows' = [rows EXCEPT ![request[w].id] = Written(w)]
      BY <2>2, OnlyCommitsWrite
    <3>2. p = request[w].id /\ rows'[p] = Written(w)
      BY <1>1, <2>2, <3>1
    <3>3. CASE Creates(w)
      BY <3>2, <3>3, CommittedCreate, BoundsAssumption
    <3>4. CASE Updates(w)
      <4>1. request[w].version < MaxVersion /\ rows[p].version = request[w].version
        BY <3>1, <3>2, <3>4 DEF VersionsBounded, VersionCheck, Updates
      <4>2. rows[p] \in Aggregate /\ rows[p] # None
        BY <3>1, <3>2, <3>4, CommittedUpdate, NoneAssumption
      <4>3. Written(w).version = rows[p].version + 1
        BY <3>1, <3>2, <4>2, CommittedVersion
      <4>4. rows[p].version \in Nat
        BY <4>2 DEF Aggregate
      <4>5. QED
        BY <3>2, <4>1, <4>3, <4>4, BoundsAssumption
    <3>5. QED
      BY <3>1, <3>3, <3>4, PlannedCall
  <2>3. QED
    BY <2>1, <2>2
<1>4. QED
  BY <1>2, <1>3 DEF VersionsBounded

--------------------------------------------------------------------------------
\* How a command may change the two columns of a row that ListProducts filters by.
Recategorised(p, after) == after.status = p.status /\ p.status # "archived"
Moved(p, after) ==
  /\ after.category = p.category
  /\ << p.status, after.status >> \in
       {<< "inactive", "active" >>, << "active", "inactive" >>,
        << "inactive", "archived" >>, << "active", "archived" >>}
Kept(p, after) == after.status = p.status /\ after.category = p.category

\* No update reports a creation, and each changes the two columns in one such way.
LEMMA ExecuteListed ==
  ASSUME NEW r \in UpdateRequest, NEW now \in Nat, NEW p \in Aggregate,
         Execute(r, p, now).err = "nil"
  PROVE  /\ \A i \in DOMAIN Execute(r, p, now).events :
              Execute(r, p, now).events[i].type # "product.created"
         /\ \/ Recategorised(p, Execute(r, p, now).after)
            \/ Moved(p, Execute(r, p, now).after)
            \/ Kept(p, Execute(r, p, now).after)
<1> USE DEF Accept, Reject, Aggregate, Statuses, Recategorised, Moved, Kept
<1>1. CASE r.op = "update"
  <2> DEFINE event == Event("product.updated", Details(Merged(p, r.arg)))
  <2>1. /\ Execute(r, p, now).events = << event >>
        /\ Execute(r, p, now).after = Merged(p, r.arg)
        /\ p.status # "archived"
    BY <1>1 DEF Execute, UpdateDetails
  <2>2. Merged(p, r.arg).status = p.status
    BY DEF Merged
  <2>3. event.type = "product.updated"
    BY DEF Event
  <2> HIDE DEF event
  <2>4. DOMAIN << event >> = {1} /\ << event >>[1] = event
    BY OneEvent
  <2>5. QED
    BY <2>1, <2>2, <2>3, <2>4
<1>2. CASE r.op = "price"
  <2>1. /\ Execute(r, p, now).events = << Event("product.price.changed", None) >>
        /\ Execute(r, p, now).after = [p EXCEPT !.basePrice = r.arg]
    BY <1>2 DEF Execute, SetBasePrice
  <2>2. Event("product.price.changed", None).type # "product.created"
    BY DEF Event
  <2>3. Kept(p, [p EXCEPT !.basePrice = r.arg])
    OBVIOUS
  <2>4. QED
    BY <2>1, <2>2, <2>3, OneEvent
<1>3. CASE r.op = "applyDiscount"
  <2>1. /\ Execute(r, p, now).events = << Event("product.discount.applied", r.arg) >>
        /\ Execute(r, p, now).after = [p EXCEPT !.discount = r.arg]
    BY <1>3 DEF Execute, ApplyDiscount
  <2>2. Event("product.discount.applied", r.arg).type # "product.created"
    BY DEF Event
  <2>3. Kept(p, [p EXCEPT !.discount = r.arg])
    OBVIOUS
  <2>4. QED
    BY <2>1, <2>2, <2>3, OneEvent
<1>4. CASE r.op = "removeDiscount"
  <2>1. /\ Execute(r, p, now).events = << Event("product.discount.removed", None) >>
        /\ Execute(r, p, now).after = [p EXCEPT !.discount = None]
    BY <1>4 DEF Execute, RemoveDiscount
  <2>2. Event("product.discount.removed", None).type # "product.created"
    BY DEF Event
  <2>3. Kept(p, [p EXCEPT !.discount = None])
    OBVIOUS
  <2>4. QED
    BY <2>1, <2>2, <2>3, OneEvent
<1>5. CASE r.op = "activate"
  <2>1. /\ Execute(r, p, now).events = << Event("product.activated", None) >>
        /\ Execute(r, p, now).after = [p EXCEPT !.status = "active"]
        /\ p.status = "inactive"
    BY <1>5 DEF Execute, Activate
  <2>2. Event("product.activated", None).type # "product.created"
    BY DEF Event
  <2>3. Moved(p, [p EXCEPT !.status = "active"])
    BY <2>1
  <2>4. QED
    BY <2>1, <2>2, <2>3, OneEvent
<1>6. CASE r.op = "deactivate"
  <2>1. /\ Execute(r, p, now).events = << Event("product.deactivated", None) >>
        /\ Execute(r, p, now).after = [p EXCEPT !.status = "inactive"]
        /\ p.status = "active"
    BY <1>6 DEF Execute, Deactivate
  <2>2. Event("product.deactivated", None).type # "product.created"
    BY DEF Event
  <2>3. Moved(p, [p EXCEPT !.status = "inactive"])
    BY <2>1
  <2>4. QED
    BY <2>1, <2>2, <2>3, OneEvent
<1>7. CASE r.op = "archive"
  <2> DEFINE after == [p EXCEPT !.discount = None, !.status = "archived", !.archivedAt = now]
             removed == Event("product.discount.removed", None)
             archived == Event("product.archived", None)
  <2>1. /\ Execute(r, p, now).events \in {<< archived >>, << removed, archived >>}
        /\ Execute(r, p, now).after = after
        /\ p.status \in {"inactive", "active"}
    BY <1>7 DEF Execute, Archive
  <2>2. removed.type # "product.created" /\ archived.type # "product.created"
    BY DEF Event
  <2>3. Moved(p, after)
    BY <2>1
  <2> HIDE DEF after, removed, archived
  <2>4. DOMAIN << archived >> = {1} /\ << archived >>[1] = archived
    BY OneEvent
  <2>5. DOMAIN << removed, archived >> = {1, 2} /\ << removed, archived >>[1] = removed
        /\ << removed, archived >>[2] = archived
    OBVIOUS
  <2> DEFINE events == Execute(r, p, now).events
  <2>6. events \in {<< archived >>, << removed, archived >>}
    BY <2>1
  <2> HIDE DEF events
  <2>7. \A i \in DOMAIN events : events[i].type # "product.created"
    BY <2>2, <2>4, <2>5, <2>6
  <2>8. QED
    BY <2>1, <2>3, <2>7 DEF events
<1>8. QED
  BY <1>1, <1>2, <1>3, <1>4, <1>5, <1>6, <1>7 DEF UpdateRequest

\* A new product is inactive, and its one event says that it is new.
LEMMA CreateListed ==
  ASSUME NEW r \in CreateRequest, ValidCreate(r)
  PROVE  /\ NewProduct(r.arg).after.status = "inactive"
         /\ NewProduct(r.arg).after.category \in Texts
         /\ 1 \in DOMAIN NewProduct(r.arg).events
         /\ \A i \in DOMAIN NewProduct(r.arg).events :
              NewProduct(r.arg).events[i].type = "product.created"
<1> DEFINE new == NewProduct(r.arg)
           event == Event("product.created", Details(new.after))
<1>1. /\ new.events = << event >> /\ new.after.status = "inactive"
      /\ new.after.category = r.arg.category
  BY DEF NewProduct, Accept, Reject, ValidCreate, CreateRequest, CreateInput
<1>2. event.type = "product.created" /\ r.arg.category \in Texts
  BY DEF Event, CreateRequest, CreateInput
<1>3. DOMAIN << event >> = {1} /\ << event >>[1] = event
  BY OneEvent
<1> HIDE DEF new, event
<1>4. /\ new.after.status = "inactive" /\ new.after.category \in Texts
      /\ 1 \in DOMAIN new.events
      /\ \A i \in DOMAIN new.events : new.events[i].type = "product.created"
  BY <1>1, <1>2, <1>3
<1>5. QED
  BY <1>4 DEF new

\* What a commit writes: a first row, reported as a creation under the new stamp, or
\* a change that is not.
LEMMA CommittedListing ==
  ASSUME CallsOK, VersionsAreOrdered, NEW w \in Workers, pc[w] = "planned", VersionCheck(w)
  PROVE  LET row == rows[request[w].id]
             events == outcome[w].events
         IN  /\ 1 \in DOMAIN events
             /\ \/ /\ row = None /\ Written(w).status = "inactive"
                   /\ Written(w).category \in Texts
                   /\ \A i \in DOMAIN events : events[i].type = "product.created"
                \/ /\ row # None /\ row \in Aggregate /\ Written(w) \in Aggregate
                   /\ \A i \in DOMAIN events : events[i].type # "product.created"
                   /\ Recategorised(row, Written(w)) \/ Moved(row, Written(w))
                        \/ Kept(row, Written(w))
<1> DEFINE row == rows[request[w].id]
<1>1. CASE Creates(w)
  <2>1. /\ row = None /\ Written(w) = NewProduct(request[w].body.arg).after
        /\ request[w].body \in CreateRequest /\ ValidCreate(request[w].body)
        /\ outcome[w] = NewProduct(request[w].body.arg)
    BY <1>1, CommittedCreate, RequestsAssumption
  <2>2. QED
    BY <2>1, CreateListed
<1>2. CASE Updates(w)
  <2>1. HasLoaded(w)
    BY <1>2 DEF HasLoaded
  <2>2. request[w].body \in UpdateRequest /\ row # None
    BY <1>2, <2>1, LoadedCall DEF CallsOK, CallsAreWellFormed, WellFormed
  <2>3. PICK t \in 0 .. clock :
          /\ row \in Aggregate
          /\ outcome[w] = Execute(request[w].body, row, t)
          /\ outcome[w].err = "nil"
          /\ Written(w) = Whole(row, outcome[w].after)
    BY <1>2, CommittedUpdate
  <2>4. /\ t \in Nat /\ outcome[w].after \in Aggregate /\ Written(w) \in Aggregate
    BY PlannedCall DEF Outcome, CallsOK, TypeOK
  <2>5. /\ \A i \in DOMAIN outcome[w].events : outcome[w].events[i].type # "product.created"
        /\ \/ Recategorised(row, outcome[w].after) \/ Moved(row, outcome[w].after)
           \/ Kept(row, outcome[w].after)
    BY <2>2, <2>3, <2>4, ExecuteListed
  <2>6. /\ Written(w).status = outcome[w].after.status
        /\ Written(w).category = outcome[w].after.category
    BY <2>3, <2>4, WholeRow
  <2>7. 1 \in DOMAIN outcome[w].events
    BY CommittedEvents
  <2>8. QED
    BY <2>2, <2>3, <2>4, <2>5, <2>6, <2>7 DEF Recategorised, Moved, Kept
<1>3. QED
  BY <1>1, <1>2, PlannedCall

--------------------------------------------------------------------------------
\* A commit takes the next stamp for its product, and one that creates it reports so.
LEMMA CommitStamps ==
  ASSUME CallsOK, VersionsAreOrdered, EventsArePast, StampsOwned, CreatedOnce,
         NEW w \in Workers, Commit(w)
  PROVE  StampsOwned' /\ CreatedOnce'
<1>0. PICK id \in Products : id = request[w].id
  BY PlannedCall DEF Commit, Request
<1> DEFINE events == outcome[w].events
           at == commitTs + 1
           Added == OutboxRows(id, at, events)
<1>1. /\ pc[w] = "planned" /\ VersionCheck(w)
      /\ rows' = [rows EXCEPT ![id] = Written(w)] /\ commitTs' = commitTs + 1
      /\ outbox' = outbox \cup Added
  BY <1>0, PlannedCall DEF Commit
<1>2. /\ rows \in [Products -> Aggregate \cup {None}]
      /\ \A p \in Products : p # id => rows'[p] = rows[p]
      /\ commitTs \in Nat
      /\ \A e \in outbox : e.at \in 1 .. commitTs /\ e.product \in Products
  BY <1>1 DEF CallsOK, TypeOK, OutboxRow, StampsOwned
<1>3. /\ \A e \in Added :
           e.product = id /\ e.at = at /\ \E i \in DOMAIN events : e.event = events[i]
      /\ \A i \in DOMAIN events : \E e \in Added : e.event = events[i]
  BY OutboxRowsOf
<1>4. /\ 1 \in DOMAIN events
      /\ \/ /\ rows[id] = None
            /\ \A i \in DOMAIN events : events[i].type = "product.created"
         \/ /\ rows[id] # None
            /\ \A i \in DOMAIN events : events[i].type # "product.created"
  BY <1>0, <1>1, CommittedListing
<1> HIDE DEF Added, events
<1>5. PICK n \in Added : n.event = events[1]
  BY <1>3, <1>4
<1>6. StampsOwned'
  <2>1. \A e \in outbox' : e.at \in 1 .. commitTs'
    BY <1>1, <1>2, <1>3
  <2>2. ASSUME NEW t \in 1 .. commitTs' PROVE \E e \in outbox' : e.at = t
    <3>1. t \in 1 .. commitTs \/ t = at
      BY <1>1, <1>2
    <3>2. QED
      BY <1>1, <1>3, <1>5, <3>1 DEF StampsOwned
  <2>3. ASSUME NEW e \in outbox', NEW f \in outbox', e.at = f.at PROVE e.product = f.product
    <3>1. \A g \in outbox : g.at # at
      BY <1>2
    <3>2. QED
      BY <1>1, <1>3, <2>3, <3>1 DEF StampsOwned
  <2>4. QED
    BY <2>1, <2>2, <2>3 DEF StampsOwned
<1>7. ASSUME NEW p \in Products, rows'[p] # None
      PROVE  \E c \in outbox' : Creation(outbox', p, c)
  <2>1. CASE p # id
    <3>1. PICK c \in outbox : Creation(outbox, p, c)
      BY <1>2, <1>7, <2>1 DEF CreatedOnce
    <3>2. Creation(outbox', p, c)
      BY <1>1, <1>3, <2>1, <3>1 DEF Creation
    <3>3. QED
      BY <3>2 DEF Creation
  <2>2. CASE p = id /\ rows[id] = None
    <3>1. \A e \in outbox : e.product # id
      BY <2>2 DEF EventsArePast
    <3>2. Creation(outbox', p, n)
      BY <1>1, <1>3, <1>4, <1>5, <2>2, <3>1 DEF Creation
    <3>3. QED
      BY <3>2 DEF Creation
  <2>3. CASE p = id /\ rows[id] # None
    <3>1. PICK c \in outbox : Creation(outbox, p, c)
      BY <2>3 DEF CreatedOnce
    <3>2. Creation(outbox', p, c)
      BY <1>1, <1>3, <1>4, <2>3, <3>1 DEF Creation
    <3>3. QED
      BY <3>2 DEF Creation
  <2>4. QED
    BY <2>1, <2>2, <2>3
<1>8. QED
  BY <1>6, <1>7 DEF CreatedOnce

\* The stamps stay as the commits give them.
LEMMA StampsStep ==
  ASSUME MaxLead = 0, IInv, OutboxInv, StampInv, [Next]_vars
  PROVE  StampInv'
<1>1. CallsOK /\ VersionsAreOrdered
  BY DEF IInv, CallsOK
<1>2. VersionsBounded'
  BY <1>1, VersionsStayBounded DEF StampInv
<1>3. CASE UNCHANGED tables
  BY <1>2, <1>3 DEF tables, StampInv, StampsOwned, CreatedOnce
<1>4. ASSUME NEW w \in Workers, Commit(w) PROVE StampInv'
  BY <1>1, <1>2, <1>4, CommitStamps DEF StampInv, OutboxInv
<1>5. QED
  BY <1>3, <1>4, TablesRest

\* The stamps are always as the commits give them.
LEMMA StampsInvariant ==
  ASSUME MaxLead = 0
  PROVE  Spec => [](IInv /\ OutboxInv /\ StampInv)
<1>1. Init => StampInv
  BY BoundsAssumption
     DEF Init, StampInv, VersionsBounded, StampsOwned, CreatedOnce, Updates, Busy
<1>2. QED
  BY <1>1, OutboxInvariant, StampsStep, PTL DEF Spec

\* No more commits than products times versions.
LEMMA StampsFit ==
  ASSUME TypeOK, OutboxInv, VersionsBounded, StampsOwned, IsFiniteSet(Products)
  PROVE  commitTs <= Cardinality(Products) * (MaxVersion + 1)
<1> DEFINE m == MaxVersion + 1
<1>1. commitTs \in Nat /\ m \in Nat
  BY BoundsAssumption DEF TypeOK
<1>2. PICK owner : owner = [t \in 1 .. commitTs |-> (CHOOSE e \in outbox : e.at = t).product]
  OBVIOUS
<1>3. ASSUME NEW t \in 1 .. commitTs
      PROVE  \E e \in outbox : e.at = t /\ e.product = owner[t]
  BY <1>2 DEF StampsOwned
<1>4. owner \in [1 .. commitTs -> Products]
  <2>1. \A t \in 1 .. commitTs : owner[t] \in Products
    BY <1>3 DEF TypeOK, OutboxRow
  <2>2. QED
    BY <1>2, <2>1
<1>5. ASSUME NEW p \in Products
      PROVE  Cardinality({t \in 1 .. commitTs : owner[t] = p}) <= m
  <2>1. {t \in 1 .. commitTs : owner[t] = p} = Stamps(p)
    BY <1>3 DEF StampsOwned, Stamps
  <2>2. CASE rows[p] = None
    <3>1. Stamps(p) = {}
      BY <2>2 DEF Stamps, OutboxInv, EventsArePast
    <3>2. QED
      BY <1>1, <2>1, <3>1, FS_EmptySet
  <2>3. CASE rows[p] # None
    <3>1. Cardinality(Stamps(p)) = rows[p].version + 1
      BY <2>3 DEF OutboxInv, Counted
    <3>2. rows[p].version <= MaxVersion /\ rows[p].version \in Nat
      BY <2>3 DEF VersionsBounded, TypeOK, Aggregate
    <3> HIDE DEF Stamps
    <3>3. QED
      BY <2>1, <3>1, <3>2, BoundsAssumption
  <2>4. QED
    BY <2>2, <2>3
<1> HIDE DEF m
<1>6. commitTs <= Cardinality(Products) * m
  BY <1>1, <1>4, <1>5, OwnersTimesShare
<1>7. QED
  BY <1>6 DEF m

--------------------------------------------------------------------------------
\* The stamps of ImplementsTable are enough for every commit.
StampsBounded == commitTs <= Cardinality(Products) * (MaxVersion + 1)

\* The columns of a listed row are not mistaken for SQL NULL.
NoneIsNoListing == None \notin [category : Texts, status : Statuses, createdAt : Nat]

\* The creation is the event that dates the product.
LEMMA CreationDates ==
  ASSUME NEW events, NEW p, NEW c, Creation(events, p, c)
  PROVE  (CHOOSE e \in events : e.product = p /\ e.event.type = "product.created").at = c.at
BY DEF Creation

\* What a commit does to the list: it adds its product as the newest, or changes one
\* of its columns, or neither.
LEMMA CommitListed ==
  ASSUME CallsOK, VersionsAreOrdered, EventsArePast, StampsOwned, CreatedOnce,
         CreatedOnce', StampsBounded', NoneIsNoListing, NEW w \in Workers, Commit(w)
  PROVE  \/ \E p \in Products : Table!Command(p)
         \/ UNCHANGED [p \in Products |-> Listed(p)]
<1>0. PICK id \in Products : id = request[w].id
  BY PlannedCall DEF Commit, Request
<1>1. /\ pc[w] = "planned" /\ VersionCheck(w)
      /\ rows' = [rows EXCEPT ![id] = Written(w)] /\ commitTs' = commitTs + 1
      /\ outbox' = outbox \cup OutboxRows(id, commitTs + 1, outcome[w].events)
  BY <1>0, PlannedCall DEF Commit
<1>2. PICK new \in Aggregate : new = Written(w)
  BY <1>1, PlannedCall
<1>3. /\ rows \in [Products -> Aggregate \cup {None}] /\ commitTs \in Nat
      /\ \A p \in Products : rows'[p] = IF p = id THEN new ELSE rows[p]
      /\ new # None
  BY <1>1, <1>2, NoneAssumption DEF CallsOK, TypeOK
<1>4. \/ rows[id] = None /\ new.status = "inactive" /\ new.category \in Texts
      \/ /\ rows[id] # None /\ rows[id] \in Aggregate
         /\ Recategorised(rows[id], new) \/ Moved(rows[id], new) \/ Kept(rows[id], new)
  BY <1>0, <1>1, <1>2, CommittedListing
<1>5. ASSUME NEW p \in Products, rows[p] # None
      PROVE  CreatedAt(p) \in 1 .. commitTs /\ CreatedAt(p)' = CreatedAt(p)
  <2>1. PICK c \in outbox : Creation(outbox, p, c)
    BY <1>5 DEF CreatedOnce
  <2>2. rows'[p] # None
    BY <1>3, <1>5
  <2>3. PICK d \in outbox' : Creation(outbox', p, d)
    BY <2>2 DEF CreatedOnce
  <2>4. CreatedAt(p) = c.at
    BY <2>1, CreationDates DEF CreatedAt
  <2>5. CreatedAt(p)' = d.at
    BY <2>3, CreationDates DEF CreatedAt
  <2>6. c.at = d.at
    BY <1>1, <2>1, <2>3 DEF Creation
  <2>7. QED
    BY <2>1, <2>4, <2>5, <2>6 DEF StampsOwned
<1>6. ASSUME rows[id] = None PROVE CreatedAt(id)' = commitTs + 1
  <2>1. PICK d \in outbox' : Creation(outbox', id, d)
    BY <1>3 DEF CreatedOnce
  <2>2. CreatedAt(id)' = d.at
    BY <2>1, CreationDates DEF CreatedAt
  <2>3. d \notin outbox
    BY <1>6, <2>1 DEF EventsArePast, Creation
  <2>4. QED
    BY <1>1, <2>1, <2>2, <2>3, OutboxRowsOf
<1> DEFINE Shown(row, at) ==
      [category |-> row.category, status |-> row.status, createdAt |-> at]
<1>7. PICK L : L = [p \in Products |-> Listed(p)]
  OBVIOUS
<1>8. PICK M : M = [p \in Products |-> Listed(p)']
  OBVIOUS
<1>9. M = [p \in Products |-> Listed(p)]'
  BY <1>8
<1>10. PICK created : created = [p \in Products |-> CreatedAt(p)]
  OBVIOUS
<1>11. \A p \in Products :
         /\ rows[p] = None => L[p] = None
         /\ rows[p] # None =>
              /\ L[p] = Shown(rows[p], created[p])
              /\ created[p] \in 1 .. commitTs
  BY <1>5, <1>7, <1>10 DEF Listed
<1>12. ASSUME NEW p \in Products, p # id PROVE M[p] = L[p]
  BY <1>3, <1>5, <1>7, <1>8, <1>12 DEF Listed
<1>13. M[id] = Shown(new, IF rows[id] = None THEN commitTs + 1 ELSE created[id])
  BY <1>3, <1>5, <1>6, <1>8, <1>10 DEF Listed
<1>14. \A p \in Products : rows[p] # None => L[p] # None
  <2>1. ASSUME NEW p \in Products, rows[p] # None
        PROVE  L[p] \in [category : Texts, status : Statuses, createdAt : Nat]
    <3>1. rows[p] \in Aggregate
      BY <1>3, <2>1
    <3>2. created[p] \in Nat
      <4>1. created[p] \in 1 .. commitTs
        BY <1>11, <2>1
      <4>2. QED
        BY <1>3, <4>1
    <3>3. rows[p].category \in Texts /\ rows[p].status \in Statuses
      BY <3>1 DEF Aggregate
    <3>4. L[p] = Shown(rows[p], created[p])
      BY <1>11, <2>1
    <3>5. QED
      BY <3>2, <3>3, <3>4
  <2>2. QED
    BY <2>1 DEF NoneIsNoListing
<1>15. M = [L EXCEPT ![id] = M[id]]
  BY <1>7, <1>8, <1>12
<1>16. CASE rows[id] = None
  <2>1. M[id] = [category |-> new.category, status |-> "inactive", createdAt |-> commitTs + 1]
    BY <1>4, <1>13, <1>16
  <2>2. commitTs + 1 \in 1 .. Cardinality(Products) * (MaxVersion + 1)
    BY <1>1, <1>3 DEF StampsBounded
  <2>3. ASSUME NEW q \in Products, L[q] # None PROVE L[q].createdAt < commitTs + 1
    <3>1. L[q] = Shown(rows[q], created[q]) /\ created[q] \in 1 .. commitTs
      BY <1>11, <2>3
    <3>2. L[q].createdAt = created[q]
      BY <3>1
    <3>3. QED
      BY <1>3, <3>1, <3>2
  <2>4. Table!Create(id)
    BY <1>4, <1>7, <1>9, <1>11, <1>15, <1>16, <2>1, <2>2, <2>3
       DEF Table!Create, Table!Stored
  <2>5. QED
    BY <2>4 DEF Table!Command
<1>17. CASE rows[id] # None
  <2>1. /\ L[id] = Shown(rows[id], created[id]) /\ M[id] = Shown(new, created[id])
        /\ L[id] # None
    BY <1>11, <1>13, <1>14, <1>17
  <2>2. CASE Kept(rows[id], new)
    <3>1. M[id] = L[id]
      BY <2>1, <2>2 DEF Kept
    <3>2. QED
      BY <1>7, <1>9, <1>15, <3>1
  <2>3. CASE Recategorised(rows[id], new)
    <3>1. /\ M[id] = [L[id] EXCEPT !.category = new.category] /\ new.category \in Texts
          /\ L[id].status \in {"inactive", "active"}
      BY <1>3, <1>17, <2>1, <2>3 DEF Recategorised, Aggregate, Statuses
    <3>2. Table!Recategorise(id)
      BY <1>7, <1>9, <1>15, <2>1, <3>1 DEF Table!Recategorise, Table!Change, Table!Stored
    <3>3. QED
      BY <3>2 DEF Table!Command
  <2>4. CASE Moved(rows[id], new)
    <3>1. /\ M[id] = [L[id] EXCEPT !.status = new.status]
          /\ << L[id].status, new.status >> \in
               {<< "inactive", "active" >>, << "active", "inactive" >>,
                << "inactive", "archived" >>, << "active", "archived" >>}
      BY <1>3, <1>17, <2>1, <2>4 DEF Moved
    <3>2. Table!Activate(id) \/ Table!Deactivate(id) \/ Table!Archive(id)
      BY <1>7, <1>9, <1>15, <2>1, <3>1
         DEF Table!Activate, Table!Deactivate, Table!Archive, Table!Change, Table!Stored
    <3>3. QED
      BY <3>2 DEF Table!Command
  <2>5. QED
    BY <1>4, <1>17, <2>2, <2>3, <2>4
<1>18. QED
  BY <1>16, <1>17

\* The table behind ListProducts changes as the read side takes for granted: products
\* appear one at a time, inactive and newest; nothing changes an archived one or dates
\* a product anew; and there are stamps enough for every commit.
THEOREM CommandsImplementTable ==
  ASSUME MaxLead = 0, IsFiniteSet(Products), NoneIsNoListing
  PROVE  Spec => ImplementsTable
<1> DEFINE Inv == IInv /\ OutboxInv /\ StampInv /\ StampsBounded
<1>1. Init => Table!TableInit
  BY DEF Init, Table!TableInit, Listed
<1>2. IInv /\ OutboxInv /\ StampInv => StampsBounded
  BY StampsFit DEF IInv, StampInv, StampsBounded
<1>3. Inv /\ Inv' /\ [Next]_vars =>
        [\E p \in Products : Table!Command(p)]_[p \in Products |-> Listed(p)]
  <2>1. ASSUME Inv, Inv', NEW w \in Workers, Commit(w)
        PROVE  \/ \E p \in Products : Table!Command(p)
               \/ UNCHANGED [p \in Products |-> Listed(p)]
    <3>1. CallsOK /\ VersionsAreOrdered /\ EventsArePast /\ StampsOwned /\ CreatedOnce
      BY <2>1 DEF IInv, CallsOK, OutboxInv, StampInv
    <3>2. CreatedOnce' /\ StampsBounded'
      BY <2>1 DEF StampInv
    <3>3. QED
      BY <2>1, <3>1, <3>2, CommitListed
  <2>2. ASSUME UNCHANGED tables PROVE UNCHANGED [p \in Products |-> Listed(p)]
    BY <2>2 DEF tables, Listed, CreatedAt
  <2> HIDE DEF Inv
  <2>3. QED
    BY <2>1, <2>2, TablesRest
<1>4. QED
  BY <1>1, <1>2, <1>3, StampsInvariant, PTL DEF Spec, ImplementsTable, Table!TableSpec
================================================================================
