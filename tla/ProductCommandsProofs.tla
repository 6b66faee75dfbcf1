------------------------- MODULE ProductCommandsProofs -------------------------
(***************************************************************************)
(* Proofs about ProductCommands for every set of products, workers and     *)
(* requests, every bound and every None: what the domain methods return,   *)
(* what every call in flight holds, why the version check is enough, and   *)
(* that the commands implement the atomic catalog of Catalog.              *)
(***************************************************************************)
EXTENDS ProductCommands, TLAPS

(***************************************************************************)
(* Each domain method that accepts returns an aggregate of the same        *)
(* version, columns and events of their types, and (what the dirty-field   *)
(* tracking is for) an aggregate that differs from the loaded one in no    *)
(* clean column, so the mutation built from it writes the whole aggregate, *)
(* a new discount rounded by its column.                                   *)
(***************************************************************************)
Whole(old, after) ==
  [after EXCEPT !.version = old.version + 1,
                !.discount = IF @ = old.discount THEN @ ELSE InColumn(@)]

Sound(done, p) ==
  done.err = "nil" =>
    /\ done \in Outcome
    /\ done.after.version = p.version
    /\ UpdateMut(p, done.after, done.dirty) = Whole(p, done.after)

\* A discount in its column is a discount still, and none is none.
LEMMA InColumnTyped ==
  ASSUME NEW d \in DiscountInput \cup {None}
  PROVE  InColumn(d) \in DiscountInput \cup {None}
<1>1. CASE d = None
  BY <1>1 DEF InColumn
<1>2. CASE d # None
  <2> DEFINE c == ((2 * d.percent + ColumnUnit) \div (2 * ColumnUnit)) * ColumnUnit
  <2>1. d \in DiscountInput
    BY <1>2
  <2>2. d.percent \in Int /\ 2 * ColumnUnit \in Nat \ {0} /\ ColumnUnit \in Int
    BY <2>1, PercentAssumption DEF DiscountInput
  <2>3. c \in Int
    BY <2>2
  <2>4. InColumn(d) = [d EXCEPT !.percent = c]
    BY <1>2 DEF InColumn
  <2> HIDE DEF c
  <2>. QED
    BY <2>1, <2>3, <2>4 DEF DiscountInput
<1>. QED
  BY <1>1, <1>2

\* What becomes of an aggregate when it is written: only its version and a new
\* discount change.
LEMMA WholeRow ==
  ASSUME NEW old, NEW after \in Aggregate
  PROVE  LET row == Whole(old, after)
         IN  /\ row.version = old.version + 1
             /\ row.discount = IF after.discount \in {None, old.discount} THEN after.discount
                               ELSE InColumn(after.discount)
             /\ row.name = after.name /\ row.description = after.description
             /\ row.category = after.category /\ row.basePrice = after.basePrice
             /\ row.status = after.status /\ row.archivedAt = after.archivedAt
<1> DEFINE stored == IF after.discount = old.discount THEN after.discount
                     ELSE InColumn(after.discount)
<1>1. Whole(old, after) = [after EXCEPT !.version = old.version + 1, !.discount = stored]
  BY DEF Whole, Aggregate
<1>2. stored = IF after.discount \in {None, old.discount} THEN after.discount
               ELSE InColumn(after.discount)
  BY DEF InColumn
<1> HIDE DEF stored
<1>. QED
  BY <1>1, <1>2 DEF Aggregate

\* A refusal is sound: it changes and reports nothing.
LEMMA RejectSound ==
  ASSUME NEW p, NEW err, err # "nil"
  PROVE  Sound(Reject(p, err), p)
  BY DEF Sound, Reject

\* The dirty columns written over the row they were loaded from make up the
\* whole aggregate, when the clean ones did not change.
LEMMA AcceptSound ==
  ASSUME NEW p \in Aggregate, NEW after \in Aggregate, NEW dirty \in SUBSET Columns,
         NEW events \in Seq(Events),
         "name" \in dirty \/ after.name = p.name,
         "description" \in dirty \/ after.description = p.description,
         "category" \in dirty \/ after.category = p.category,
         "basePrice" \in dirty \/ after.basePrice = p.basePrice,
         "discount" \in dirty \/ after.discount = p.discount,
         "discount" \in dirty => after.discount = None \/ after.discount # p.discount,
         "status" \in dirty \/ after.status = p.status,
         "archivedAt" \in dirty \/ after.archivedAt = p.archivedAt,
         after.version = p.version
  PROVE  Sound(Accept(after, dirty, events), p)
<1>1. UpdateMut(p, after, dirty) = Whole(p, after)
  <2> DEFINE stored == IF "discount" \in dirty THEN InColumn(after.discount) ELSE p.discount
  <2>1. stored = IF after.discount = p.discount THEN after.discount ELSE InColumn(after.discount)
    BY DEF InColumn
  <2>2. UpdateMut(p, after, dirty) =
          [name |-> after.name, description |-> after.description, category |-> after.category,
           basePrice |-> after.basePrice, discount |-> stored, status |-> after.status,
           archivedAt |-> after.archivedAt, version |-> p.version + 1]
    BY DEF UpdateMut
  <2>3. Whole(p, after) =
          [name |-> after.name, description |-> after.description, category |-> after.category,
           basePrice |-> after.basePrice, discount |-> stored, status |-> after.status,
           archivedAt |-> after.archivedAt, version |-> p.version + 1]
    <3> HIDE DEF stored
    <3>1. Whole(p, after) = [after EXCEPT !.version = p.version + 1, !.discount = stored]
      BY <2>1 DEF Whole, Aggregate
    <3>. QED
      BY <3>1 DEF Aggregate
  <2>. QED
    BY <2>2, <2>3
<1>2. Accept(after, dirty, events) \in Outcome
  BY DEF Accept, Outcome
<1>. QED
  BY <1>1, <1>2 DEF Sound, Accept

\* Each method of the aggregate is sound: Activate,
LEMMA ActivateSound ==
  ASSUME NEW p \in Aggregate
  PROVE  Sound(Activate(p), p)
<1>1. << Event("product.activated", None) >> \in Seq(Events)
  BY DEF Event, Events, EventTypes
<1>2. Sound(Accept([p EXCEPT !.status = "active"], {"status"}, << Event("product.activated", None) >>), p)
  BY <1>1, AcceptSound DEF Aggregate, Statuses, Columns
<1>. QED
  BY <1>2, RejectSound DEF Activate

\* Deactivate,
LEMMA DeactivateSound ==
  ASSUME NEW p \in Aggregate
  PROVE  Sound(Deactivate(p), p)
<1>1. << Event("product.deactivated", None) >> \in Seq(Events)
  BY DEF Event, Events, EventTypes
<1>2. Sound(Accept([p EXCEPT !.status = "inactive"], {"status"}, << Event("product.deactivated", None) >>), p)
  BY <1>1, AcceptSound DEF Aggregate, Statuses, Columns
<1>. QED
  BY <1>2, RejectSound DEF Deactivate

\* RemoveDiscount,
LEMMA RemoveDiscountSound ==
  ASSUME NEW p \in Aggregate
  PROVE  Sound(RemoveDiscount(p), p)
<1>1. << Event("product.discount.removed", None) >> \in Seq(Events)
  BY DEF Event, Events, EventTypes
<1>2. Sound(Accept([p EXCEPT !.discount = None], {"discount"}, << Event("product.discount.removed", None) >>), p)
  BY <1>1, AcceptSound DEF Aggregate, Statuses, Columns
<1>. QED
  BY <1>2, RejectSound DEF RemoveDiscount

\* ApplyDiscount,
LEMMA ApplyDiscountSound ==
  ASSUME NEW p \in Aggregate, NEW d \in DiscountInput
  PROVE  Sound(ApplyDiscount(p, d), p)
<1>1. << Event("product.discount.applied", d) >> \in Seq(Events)
  BY DEF Event, Events, EventTypes
<1>2. CASE p.discount = None
  <2>1. d # None
    BY NoneAssumption
  <2>2. Sound(Accept([p EXCEPT !.discount = d], {"discount"},
                     << Event("product.discount.applied", d) >>), p)
    BY <1>1, <1>2, <2>1, AcceptSound DEF Aggregate, Statuses, Columns
  <2>. QED
    BY <2>2, RejectSound DEF ApplyDiscount
<1>. QED
  BY <1>2, RejectSound DEF ApplyDiscount

\* (a discount NewDiscount lets through has a number for its percentage)
LEMMA ValidDiscountTyped ==
  ASSUME NEW d \in DiscountRequest, ValidDiscount(d)
  PROVE  d \in DiscountInput
<1>1. d.percent \in Int
  BY PercentAssumption DEF ValidDiscount
<1>. QED
  BY <1>1 DEF DiscountRequest, DiscountInput

\* SetBasePrice,
LEMMA SetBasePriceSound ==
  ASSUME NEW p \in Aggregate, NEW price \in Int
  PROVE  Sound(SetBasePrice(p, price), p)
<1>1. << Event("product.price.changed", None) >> \in Seq(Events)
  BY DEF Event, Events, EventTypes
<1>2. Sound(Accept([p EXCEPT !.basePrice = price], {"basePrice"}, << Event("product.price.changed", None) >>), p)
  BY <1>1, AcceptSound DEF Aggregate, Statuses, Columns
<1>. QED
  BY <1>2, RejectSound DEF SetBasePrice

\* the three setters of the texts with their one event,
LEMMA UpdateDetailsSound ==
  ASSUME NEW p \in Aggregate, NEW patch \in Patch
  PROVE  Sound(UpdateDetails(p, patch), p)
<1> DEFINE after == Merged(p, patch)
           dirty == (IF patch.name # None THEN {"name"} ELSE {})
                      \cup (IF patch.description # None THEN {"description"} ELSE {})
                      \cup (IF patch.category # None THEN {"category"} ELSE {})
           events == << Event("product.updated", Details(after)) >>
<1>1. after \in Aggregate
  BY DEF Aggregate, Patch, Merged
<1>2. events \in Seq(Events)
  <2>1. Details(after) \in DetailsBody
    BY <1>1 DEF Details, DetailsBody, Aggregate
  <2> HIDE DEF after
  <2>2. Event("product.updated", Details(after)) \in Events
    BY <2>1 DEF Event, Events, EventTypes
  <2>. QED
    BY <2>2
<1>3. Sound(Accept(after, dirty, events), p)
  <2>1. /\ "name" \in dirty \/ after.name = p.name
        /\ "description" \in dirty \/ after.description = p.description
        /\ "category" \in dirty \/ after.category = p.category
        /\ after.basePrice = p.basePrice
        /\ "discount" \notin dirty /\ after.discount = p.discount
        /\ after.status = p.status
        /\ after.archivedAt = p.archivedAt
        /\ after.version = p.version
    BY DEF Aggregate, Merged
  <2>2. dirty \in SUBSET Columns
    BY DEF Columns
  <2> HIDE DEF after, dirty, events
  <2>. QED
    BY <1>1, <1>2, <2>1, <2>2, AcceptSound
<1>4. UpdateDetails(p, patch) = Accept(after, dirty, events) \/
      \E err \in {"ErrCannotModifyArchived", "ErrEmptyName", "ErrInvalidCategory"} :
        UpdateDetails(p, patch) = Reject(p, err)
  BY DEF UpdateDetails
<1>. QED
  BY <1>3, <1>4, RejectSound

\* and Archive, which clears a discount on the way.
LEMMA ArchiveSound ==
  ASSUME NEW p \in Aggregate, NEW now \in Nat
  PROVE  Sound(Archive(p, now), p)
<1> DEFINE after == [p EXCEPT !.discount = None, !.status = "archived", !.archivedAt = now]
           removed == Event("product.discount.removed", None)
           archived == Event("product.archived", None)
<1>1. after \in Aggregate
  BY DEF Aggregate, Statuses
<1>2. removed \in Events /\ archived \in Events
  BY DEF Event, Events, EventTypes
<1>3. /\ after.name = p.name /\ after.description = p.description
      /\ after.category = p.category /\ after.basePrice = p.basePrice
      /\ after.version = p.version /\ after.discount = None
  BY DEF Aggregate
<1>4. CASE p.discount # None
  <2>1. Archive(p, now) \in {Reject(p, "ErrAlreadyArchived"),
          Accept(after, {"status", "archivedAt", "discount"}, << removed, archived >>)}
    BY <1>4 DEF Archive
  <2>2. << removed, archived >> \in Seq(Events)
    BY <1>2
  <2> HIDE DEF after, removed, archived
  <2>3. Sound(Accept(after, {"status", "archivedAt", "discount"}, << removed, archived >>), p)
    BY <1>1, <1>3, <2>2, AcceptSound DEF Columns
  <2>. QED
    BY <2>1, <2>3, RejectSound
<1>5. CASE p.discount = None
  <2>1. Archive(p, now) \in {Reject(p, "ErrAlreadyArchived"),
          Accept(after, {"status", "archivedAt"}, << archived >>)}
    BY <1>5 DEF Archive
  <2>2. << archived >> \in Seq(Events)
    BY <1>2
  <2> HIDE DEF after, removed, archived
  <2>3. Sound(Accept(after, {"status", "archivedAt"}, << archived >>), p)
    BY <1>1, <1>3, <1>5, <2>2, AcceptSound DEF Columns
  <2>. QED
    BY <2>1, <2>3, RejectSound
<1>. QED
  BY <1>4, <1>5

\* A valid creation makes a whole aggregate at version 0.
LEMMA NewProductAccepted ==
  ASSUME NEW r \in CreateRequest, ValidCreate(r)
  PROVE  /\ NewProduct(r.arg) \in Outcome
         /\ NewProduct(r.arg).after.version = 0
         /\ NewProduct(r.arg).after.basePrice = r.arg.basePrice
<1> DEFINE p == [name |-> r.arg.name, description |-> r.arg.description,
                 category |-> r.arg.category, basePrice |-> r.arg.basePrice,
                 discount |-> None, status |-> "inactive", archivedAt |-> None, version |-> 0]
<1>1. p \in Aggregate
  BY DEF CreateRequest, CreateInput, ValidCreate, Aggregate, Statuses
<1>2. << Event("product.created", Details(p)) >> \in Seq(Events)
  <2>1. Details(p) \in DetailsBody
    BY DEF Details, DetailsBody, CreateRequest, CreateInput
  <2>. QED
    BY <2>1 DEF Event, Events, EventTypes
<1>. QED
  BY <1>1, <1>2 DEF NewProduct, Accept, Reject, Outcome, Columns, ValidCreate,
     CreateRequest, CreateInput

\* The same for Execute, which picks the method: whatever the request, what the
\* call will write is the whole aggregate its domain method returned.
LEMMA ExecuteSound ==
  ASSUME NEW r \in UpdateRequest, ValidUpdate(r), NEW p \in Aggregate, NEW now \in Nat
  PROVE  Sound(Execute(r, p, now), p)
<1>1. CASE r.op = "update"
  BY <1>1, UpdateDetailsSound DEF Execute, UpdateRequest
<1>2. CASE r.op = "price"
  BY <1>2, SetBasePriceSound DEF Execute, UpdateRequest, ValidUpdate
<1>3. CASE r.op = "applyDiscount"
  <2>1. CASE ValidDiscount(r.arg)
    <3>1. r.arg \in DiscountInput
      BY <1>3, <2>1, ValidDiscountTyped DEF UpdateRequest
    <3>. QED
      BY <1>3, <2>1, <3>1, ApplyDiscountSound DEF Execute
  <2>2. CASE ~ValidDiscount(r.arg)
    BY <1>3, <2>2, RejectSound DEF Execute
  <2>. QED
    BY <2>1, <2>2
<1>4. CASE r.op = "removeDiscount"
  BY <1>4, RemoveDiscountSound DEF Execute
<1>5. CASE r.op = "activate"
  BY <1>5, ActivateSound DEF Execute
<1>6. CASE r.op = "deactivate"
  BY <1>6, DeactivateSound DEF Execute
<1>7. CASE r.op = "archive"
  BY <1>7, ArchiveSound DEF Execute
<1>. QED
  BY <1>1, <1>2, <1>3, <1>4, <1>5, <1>6, <1>7 DEF UpdateRequest

--------------------------------------------------------------------------------
(***************************************************************************)
(* The calls.                                                              *)
(***************************************************************************)

CallsOK == TypeOK /\ CallsAreWellFormed /\ IdsAreFresh

\* What every call holds is well formed before any call,
LEMMA InitCallsOK == Init => CallsOK
BY BoundsAssumption DEF Init, CallsOK, TypeOK, CallsAreWellFormed, WellFormed, IdsAreFresh, Busy, Creates,
     Updates, HasLoaded

\* A call that ends leaves its worker idle and the others where they were.
LEMMA AnswerCallsOK ==
  ASSUME CallsOK, NEW w \in Workers, Answer(w), UNCHANGED << tables, clock >>
  PROVE  CallsOK'
<1>1. TypeOK'
  BY DEF CallsOK, TypeOK, Answer, tables
<1>2. CallsAreWellFormed'
  <2>. SUFFICES ASSUME NEW v \in Workers PROVE WellFormed(v)'
    BY DEF CallsAreWellFormed
  <2>1. CASE v = w
    BY <2>1 DEF CallsOK, TypeOK, WellFormed, Answer, Busy, Creates, Updates, HasLoaded
  <2>2. CASE v # w
    BY <2>2 DEF CallsOK, TypeOK, CallsAreWellFormed, WellFormed, Answer, Busy, Creates,
       Updates, HasLoaded, tables
  <2>. QED
    BY <2>1, <2>2
<1>3. IdsAreFresh'
  BY DEF CallsOK, TypeOK, IdsAreFresh, Answer, Busy, Creates, tables
<1>. QED
  BY <1>1, <1>2, <1>3 DEF CallsOK

\* after the start of a creation,
LEMMA StartCreateCallsOK ==
  ASSUME CallsOK, NEW w \in Workers, StartCreate(w)
  PROVE  CallsOK'
<1>. PICK r \in CreateRequests, p \in Products :
       /\ ValidCreate(r)
       /\ rows[p] = None /\ ~InFlight(p)
       /\ request' = [request EXCEPT ![w] = [body |-> r, id |-> p, version |-> 0]]
       /\ outcome' = [outcome EXCEPT ![w] = NewProduct(r.arg)]
       /\ record' = [record EXCEPT ![w] = PriceRecord(p, None, r.arg.basePrice, clock)]
       /\ pc' = [pc EXCEPT ![w] = "planned"]
  BY DEF StartCreate
<1>. UNCHANGED << rows, outbox, history, commitTs, clock, product >>
  BY DEF StartCreate, tables
<1>1. /\ NewProduct(r.arg) \in Outcome
      /\ [body |-> r, id |-> p, version |-> 0] \in Request
      /\ PriceRecord(p, None, r.arg.basePrice, clock) \in Record
  BY NewProductAccepted, RequestsAssumption
  DEF CallsOK, TypeOK, Request, Record, PriceRecord, CreateRequest, CreateInput, ValidCreate
<1>2. TypeOK'
  BY <1>1 DEF CallsOK, TypeOK
<1>3. CallsAreWellFormed'
  <2>. SUFFICES ASSUME NEW v \in Workers PROVE WellFormed(v)'
    BY DEF CallsAreWellFormed
  <2>1. CASE v = w
    <3>1. r.op = "create"
      BY RequestsAssumption DEF CreateRequest
    <3>. QED
      BY <1>1, <2>1, <3>1, NoneIsNoCall
      DEF CallsOK, TypeOK, WellFormed, Busy, Creates, Updates, HasLoaded
  <2>2. CASE v # w
    BY <2>2 DEF CallsOK, TypeOK, CallsAreWellFormed, WellFormed, Busy, Creates,
       Updates, HasLoaded
  <2>. QED
    BY <2>1, <2>2
<1>4. IdsAreFresh'
  BY DEF CallsOK, TypeOK, CallsAreWellFormed, WellFormed, IdsAreFresh, InFlight, Busy, Creates
<1>. QED
  BY <1>2, <1>3, <1>4 DEF CallsOK

\* the arrival of a request,
LEMMA ReceiveCallsOK ==
  ASSUME CallsOK, NEW w \in Workers, Receive(w)
  PROVE  CallsOK'
<1>. PICK r \in UpdateRequests, p \in Products :
       /\ ValidUpdate(r)
       /\ \E v \in 0 .. Reached(p) + MaxLead :
            request' = [request EXCEPT ![w] = [body |-> r, id |-> p, version |-> v]]
  BY DEF Receive
<1>0. Reached(p) \in Nat
  BY DEF CallsOK, TypeOK, Reached, Aggregate
<1>. PICK n \in 0 .. Reached(p) + MaxLead :
       request' = [request EXCEPT ![w] = [body |-> r, id |-> p, version |-> n]]
  OBVIOUS
<1>. /\ pc' = [pc EXCEPT ![w] = "received"]
     /\ UNCHANGED << rows, outbox, history, commitTs, clock, product, outcome, record >>
  BY DEF Receive, tables
<1>1. [body |-> r, id |-> p, version |-> n] \in Request
  BY <1>0, RequestsAssumption, BoundsAssumption DEF Request
<1>2. TypeOK'
  BY <1>1 DEF CallsOK, TypeOK
<1>3. r.op # "create"
  BY RequestsAssumption DEF UpdateRequest
<1>4. CallsAreWellFormed'
  <2>. SUFFICES ASSUME NEW v \in Workers PROVE WellFormed(v)'
    BY DEF CallsAreWellFormed
  <2>1. CASE v = w
    BY <1>1, <1>3, <2>1, NoneIsNoCall
    DEF CallsOK, TypeOK, WellFormed, Busy, Creates, Updates, HasLoaded
  <2>2. CASE v # w
    BY <2>2 DEF CallsOK, TypeOK, CallsAreWellFormed, WellFormed, Busy, Creates,
       Updates, HasLoaded
  <2>. QED
    BY <2>1, <2>2
<1>5. IdsAreFresh'
  BY <1>3 DEF CallsOK, TypeOK, IdsAreFresh, Busy, Creates
<1>. QED
  BY <1>2, <1>4, <1>5 DEF CallsOK

\* the read,
LEMMA LoadCallsOK ==
  ASSUME CallsOK, NEW w \in Workers, Load(w)
  PROVE  CallsOK'
<1>. UNCHANGED << rows, outbox, history, commitTs, clock >>
  BY DEF Load, tables
<1>. SUFFICES ASSUME ~Answer(w) PROVE CallsOK'
  BY AnswerCallsOK DEF tables
<1>1. /\ pc[w] = "received" /\ pc' = [pc EXCEPT ![w] = "loaded"]
      /\ rows[request[w].id] # None
      /\ product' = [product EXCEPT ![w] = rows[request[w].id]]
      /\ UNCHANGED << request, outcome, record >>
  BY DEF Load
<1>2. request[w] \in Request
  BY <1>1 DEF CallsOK, TypeOK, CallsAreWellFormed, WellFormed
<1>3. TypeOK'
  BY <1>1, <1>2 DEF CallsOK, TypeOK, Request
<1>4. CallsAreWellFormed'
  <2>. SUFFICES ASSUME NEW v \in Workers PROVE WellFormed(v)'
    BY DEF CallsAreWellFormed
  <2>1. CASE v = w
    BY <1>1, <2>1
    DEF CallsOK, TypeOK, CallsAreWellFormed, WellFormed, Busy, Creates, Updates, HasLoaded
  <2>2. CASE v # w
    BY <1>1, <2>2
    DEF CallsOK, TypeOK, CallsAreWellFormed, WellFormed, Busy, Creates, Updates, HasLoaded
  <2>. QED
    BY <2>1, <2>2
<1>5. IdsAreFresh'
  BY <1>1 DEF CallsOK, TypeOK, IdsAreFresh, Busy, Creates
<1>. QED
  BY <1>3, <1>4, <1>5 DEF CallsOK

\* The facts about a call that has loaded its aggregate.
LEMMA LoadedCall ==
  ASSUME CallsOK, NEW w \in Workers, Updates(w), HasLoaded(w)
  PROVE  /\ request[w] \in Request
         /\ request[w].body \in UpdateRequest
         /\ ValidUpdate(request[w].body)
         /\ product[w] \in Aggregate
         /\ rows[request[w].id] \in Aggregate
<1>1. request[w] \in Request /\ WellFormed(w)
  BY DEF CallsOK, TypeOK, CallsAreWellFormed, WellFormed, Updates, Busy
<1>. QED
  BY <1>1, RequestsAssumption
  DEF CallsOK, TypeOK, WellFormed, Updates, Request, CreateRequest

\* the domain method,
LEMMA MutateCallsOK ==
  ASSUME CallsOK, NEW w \in Workers, Mutate(w)
  PROVE  CallsOK'
<1> DEFINE done == Execute(request[w].body, product[w], clock)
<1>. UNCHANGED << rows, outbox, history, commitTs, clock >>
  BY DEF Mutate, tables
<1>. SUFFICES ASSUME ~Answer(w) PROVE CallsOK'
  BY AnswerCallsOK DEF tables
<1>1. /\ pc[w] = "loaded" /\ pc' = [pc EXCEPT ![w] = "mutated"]
      /\ done.err = "nil"
      /\ outcome' = [outcome EXCEPT ![w] = done]
      /\ UNCHANGED << request, product, record >>
  BY DEF Mutate
<1>2. Updates(w) /\ HasLoaded(w)
  BY <1>1 DEF CallsOK, CallsAreWellFormed, WellFormed, Updates, Creates, HasLoaded, Busy
<1>3. done \in Outcome
  BY <1>1, <1>2, LoadedCall, ExecuteSound DEF Sound, CallsOK, TypeOK
<1> HIDE DEF done
<1>4. TypeOK'
  BY <1>1, <1>3 DEF CallsOK, TypeOK
<1>5. CallsAreWellFormed'
  <2>. SUFFICES ASSUME NEW v \in Workers PROVE WellFormed(v)'
    BY DEF CallsAreWellFormed
  <2>1. CASE v = w
    <3>1. clock \in 0 .. clock
      BY DEF CallsOK, TypeOK
    <3>. QED
      BY <1>1, <1>2, <2>1, <3>1
      DEF CallsOK, TypeOK, CallsAreWellFormed, WellFormed, Busy, Creates, Updates, HasLoaded,
          done
  <2>2. CASE v # w
    BY <1>1, <2>2
    DEF CallsOK, TypeOK, CallsAreWellFormed, WellFormed, Busy, Creates, Updates, HasLoaded
  <2>. QED
    BY <2>1, <2>2
<1>6. IdsAreFresh'
  BY <1>1 DEF CallsOK, TypeOK, IdsAreFresh, Busy, Creates
<1>. QED
  BY <1>4, <1>5, <1>6 DEF CallsOK

\* the plan,
LEMMA PlanCallsOK ==
  ASSUME CallsOK, NEW w \in Workers, Plan(w)
  PROVE  CallsOK'
<1> DEFINE new == IF request[w].body.op = "price"
                  THEN PriceRecord(request[w].id, product[w].basePrice,
                                   request[w].body.arg, clock)
                  ELSE None
<1>. UNCHANGED << rows, outbox, history, commitTs, clock >>
  BY DEF Plan, tables
<1>. SUFFICES ASSUME ~Answer(w) PROVE CallsOK'
  BY AnswerCallsOK DEF tables
<1>1. /\ pc[w] = "mutated" /\ pc' = [pc EXCEPT ![w] = "planned"]
      /\ record' = [record EXCEPT ![w] = new]
      /\ UNCHANGED << request, product, outcome >>
  BY DEF Plan
<1>2. Updates(w) /\ HasLoaded(w)
  BY <1>1 DEF CallsOK, CallsAreWellFormed, WellFormed, Updates, Creates, HasLoaded, Busy
<1>3. new \in Record \cup {None}
  BY <1>2, LoadedCall
  DEF CallsOK, TypeOK, PriceRecord, Record, Aggregate, UpdateRequest, ValidUpdate, Request
<1>4. TypeOK'
  <2> HIDE DEF new
  <2>. QED
    BY <1>1, <1>3 DEF CallsOK, TypeOK
<1>5. CallsAreWellFormed'
  <2>. SUFFICES ASSUME NEW v \in Workers PROVE WellFormed(v)'
    BY DEF CallsAreWellFormed
  <2>1. CASE v = w
    <3>1. clock \in 0 .. clock
      BY DEF CallsOK, TypeOK
    <3>. QED
      BY <1>1, <1>2, <2>1, <3>1
      DEF CallsOK, TypeOK, CallsAreWellFormed, WellFormed, Busy, Creates, Updates, HasLoaded
  <2>2. CASE v # w
    BY <1>1, <2>2
    DEF CallsOK, TypeOK, CallsAreWellFormed, WellFormed, Busy, Creates, Updates, HasLoaded
  <2>. QED
    BY <2>1, <2>2
<1>6. IdsAreFresh'
  BY <1>1, <1>2 DEF CallsOK, TypeOK, IdsAreFresh, Busy, Creates, Updates
<1>. QED
  BY <1>4, <1>5, <1>6 DEF CallsOK

\* What a planned call is about to write.
LEMMA PlannedCall ==
  ASSUME CallsOK, NEW w \in Workers, pc[w] = "planned"
  PROVE  /\ request[w] \in Request
         /\ outcome[w] \in Outcome
         /\ Written(w) \in Aggregate
         /\ Creates(w) \/ (Updates(w) /\ HasLoaded(w))
<1>1. request[w] \in Request /\ WellFormed(w)
  BY DEF CallsOK, TypeOK, CallsAreWellFormed, WellFormed
<1>2. CASE Creates(w)
  <2>1. request[w].body \in CreateRequest
    BY <1>1, <1>2, RequestsAssumption DEF WellFormed, Creates, UpdateRequest
  <2>2. outcome[w] \in Outcome
    BY <1>1, <1>2, <2>1, NewProductAccepted DEF WellFormed
  <2>3. Written(w) = outcome[w].after
    BY <1>2 DEF Written, Creates
  <2>4. outcome[w].after \in Aggregate
    BY <2>2 DEF Outcome
  <2>. QED
    BY <1>1, <1>2, <2>2, <2>3, <2>4
<1>3. CASE Updates(w)
  <2>1. HasLoaded(w)
    BY <1>3 DEF HasLoaded
  <2>2. PICK t \in Nat :
          /\ outcome[w] = Execute(request[w].body, product[w], t)
          /\ outcome[w].err = "nil"
    BY <1>1, <2>1 DEF WellFormed, CallsOK, TypeOK
  <2>. /\ request[w].body \in UpdateRequest /\ ValidUpdate(request[w].body)
       /\ product[w] \in Aggregate
    BY <1>3, <2>1, LoadedCall
  <2>5. Sound(outcome[w], product[w])
    BY <2>2, ExecuteSound
  <2>3. outcome[w] \in Outcome
    BY <2>2, <2>5 DEF Sound
  <2>4. UpdateMut(rows[request[w].id], outcome[w].after, outcome[w].dirty) \in Aggregate
    <3>1. InColumn(outcome[w].after.discount) \in DiscountInput \cup {None}
      BY <2>3, InColumnTyped DEF Outcome, Aggregate
    <3>. QED
      BY <1>3, <2>1, <2>3, <3>1, LoadedCall DEF UpdateMut, Aggregate, Outcome
  <2>. QED
    BY <1>1, <1>3, <2>1, <2>3, <2>4 DEF Written, Updates
<1>. QED
  BY <1>2, <1>3 DEF Creates, Updates, Busy

\* the commit,
LEMMA CommitCallsOK ==
  ASSUME CallsOK, NEW w \in Workers, Commit(w)
  PROVE  CallsOK'
<1> DEFINE id == request[w].id
<1>1. /\ pc[w] = "planned" /\ Answer(w) /\ clock' = clock
      /\ rows' = [rows EXCEPT ![id] = Written(w)]
      /\ commitTs' = commitTs + 1
      /\ outbox' = outbox \cup OutboxRows(id, commitTs', outcome[w].events)
      /\ history' = IF record[w] = None THEN history
                    ELSE history \cup {HistoryRow(commitTs', record[w])}
  BY DEF Commit
<1>2. /\ id \in Products
      /\ outcome[w] \in Outcome
      /\ Written(w) \in Aggregate /\ Written(w) # None
      /\ Creates(w) \/ (Updates(w) /\ HasLoaded(w))
  BY <1>1, PlannedCall, NoneAssumption DEF Request
<1>3. TypeOK'
  <2>1. outbox' \subseteq OutboxRow
    BY <1>1, <1>2 DEF CallsOK, TypeOK, OutboxRows, OutboxRow, Outcome
  <2>2. history' \subseteq PriceRow
    BY <1>1 DEF CallsOK, TypeOK, HistoryRow, PriceRow, Record
  <2>. QED
    BY <1>1, <1>2, <2>1, <2>2 DEF CallsOK, TypeOK, Answer
<1>4. CallsAreWellFormed'
  <2>. SUFFICES ASSUME NEW v \in Workers PROVE WellFormed(v)'
    BY DEF CallsAreWellFormed
  <2>1. CASE v = w
    BY <1>1, <2>1 DEF CallsOK, TypeOK, WellFormed, Answer, Busy, Creates, Updates, HasLoaded
  <2>2. CASE v # w
    <3>1. rows[request[v].id] # None => rows'[request[v].id] # None
      BY <1>1, <1>2 DEF CallsOK, TypeOK
    <3>. QED
      BY <1>1, <2>2, <3>1
      DEF CallsOK, TypeOK, CallsAreWellFormed, WellFormed, Answer, Busy, Creates, Updates,
          HasLoaded
  <2>. QED
    BY <2>1, <2>2
<1>5. IdsAreFresh'
  <2>. SUFFICES ASSUME NEW v \in Workers, Creates(v)'
                PROVE  /\ rows'[request'[v].id] = None
                       /\ \A u \in Workers :
                            Creates(u)' /\ request'[u].id = request'[v].id => u = v
    BY DEF IdsAreFresh
  <2>1. v # w /\ Creates(v) /\ request'[v] = request[v]
    BY <1>1 DEF CallsOK, TypeOK, Answer, Creates, Busy
  <2>2. request[v].id # id
    BY <1>2, <2>1 DEF CallsOK, IdsAreFresh, CallsAreWellFormed, WellFormed
  <2>3. rows'[request'[v].id] = None
    BY <1>1, <1>2, <2>1, <2>2 DEF CallsOK, TypeOK, IdsAreFresh
  <2>4. ASSUME NEW u \in Workers, Creates(u)', request'[u].id = request'[v].id
        PROVE  u = v
    BY <1>1, <2>1, <2>4 DEF CallsOK, TypeOK, IdsAreFresh, Answer, Creates, Busy
  <2>. QED
    BY <2>3, <2>4
<1>. QED
  BY <1>3, <1>4, <1>5 DEF CallsOK

\* a kill of the process,
LEMMA CrashCallsOK ==
  ASSUME CallsOK, Crash
  PROVE  CallsOK'
  BY DEF CallsOK, TypeOK, CallsAreWellFormed, WellFormed, IdsAreFresh, Crash, Busy, Creates,
     Updates, HasLoaded, tables

\* the passing of time,
LEMMA TickCallsOK ==
  ASSUME CallsOK, Tick
  PROVE  CallsOK'
<1>. UNCHANGED << rows, outbox, history, commitTs, pc, request, product, outcome, record >>
  BY DEF Tick, tables, session
<1>1. TypeOK'
  BY BoundsAssumption DEF CallsOK, TypeOK, Tick
<1>2. CallsAreWellFormed'
  <2>. SUFFICES ASSUME NEW v \in Workers PROVE WellFormed(v)'
    BY DEF CallsAreWellFormed
  <2>1. \A t \in 0 .. clock : t \in 0 .. clock'
    BY BoundsAssumption DEF CallsOK, TypeOK, Tick
  <2>. QED
    BY <2>1 DEF CallsOK, CallsAreWellFormed, WellFormed, Busy, Creates, Updates, HasLoaded
<1>3. IdsAreFresh'
  BY DEF CallsOK, IdsAreFresh, Busy, Creates
<1>. QED
  BY <1>1, <1>2, <1>3 DEF CallsOK

\* and where nothing happens.
LEMMA StutterCallsOK ==
  ASSUME CallsOK, UNCHANGED vars
  PROVE  CallsOK'
  BY DEF CallsOK, TypeOK, CallsAreWellFormed, WellFormed, IdsAreFresh, vars, tables, session,
     Busy, Creates, Updates, HasLoaded

\* Hence every step keeps it.
LEMMA NextCallsOK == CallsOK /\ [Next]_vars => CallsOK'
<1>. SUFFICES ASSUME CallsOK, [Next]_vars PROVE CallsOK'
  OBVIOUS
<1>1. ASSUME NEW w \in Workers, StartCreate(w) PROVE CallsOK'
  BY <1>1, StartCreateCallsOK
<1>2. ASSUME NEW w \in Workers, Receive(w) PROVE CallsOK'
  BY <1>2, ReceiveCallsOK
<1>3. ASSUME NEW w \in Workers, Step(w) PROVE CallsOK'
  BY <1>3, LoadCallsOK, MutateCallsOK, PlanCallsOK, CommitCallsOK, AnswerCallsOK
  DEF Step, Conflict
<1>4. ASSUME NEW w \in Workers, Fail(w) PROVE CallsOK'
  BY <1>4, AnswerCallsOK DEF Fail
<1>5. CASE Crash
  BY <1>5, CrashCallsOK
<1>6. CASE Tick
  BY <1>6, TickCallsOK
<1>7. CASE Rest \/ UNCHANGED vars
  BY <1>7, StutterCallsOK DEF Rest
<1>. QED
  BY <1>1, <1>2, <1>3, <1>4, <1>5, <1>6, <1>7 DEF Next, Panic

\* Type correctness, with what every call holds at every step, whatever the
\* versions the clients send.
THEOREM CallsAlwaysOK == Spec => []CallsOK
<1>. QED
  BY InitCallsOK, NextCallsOK, PTL DEF Spec

\* Type correctness of the command side: tables, clock, and the state of every call.
THEOREM TypeCorrect == Spec => []TypeOK
<1>1. CallsOK => TypeOK
  BY DEF CallsOK
<1>. QED
  BY <1>1, CallsAlwaysOK, PTL

--------------------------------------------------------------------------------
(***************************************************************************)
(* Why the version check is enough.  The check compares the row with the   *)
(* version of the REQUEST, while what is written was computed from the     *)
(* version LOADED.  When clients send only versions the product has had,   *)
(* request <= loaded <= row at all times, so a request that equals the row *)
(* pins the loaded version to it, and the row is the aggregate loaded.     *)
(***************************************************************************)

\* While the tables stay, only the worker that moves has to be looked at.
LEMMA OthersStayOrdered ==
  ASSUME CallsOK, VersionsAreOrdered, NEW w \in Workers, UNCHANGED rows,
         \A v \in Workers \ {w} :
           /\ pc'[v] = pc[v] /\ request'[v] = request[v]
           /\ product'[v] = product[v],
         Ordered(w)'
  PROVE  VersionsAreOrdered'
<1>. SUFFICES ASSUME NEW v \in Workers PROVE Ordered(v)'
  BY DEF VersionsAreOrdered
<1>1. CASE v = w
  BY <1>1
<1>2. CASE v # w
  BY <1>2 DEF VersionsAreOrdered, Ordered, Reached, Busy, Updates, HasLoaded
<1>. QED
  BY <1>1, <1>2

\* The order of versions survives an answer that writes nothing,
LEMMA AnswerOrdered ==
  ASSUME CallsOK, VersionsAreOrdered, NEW w \in Workers, Answer(w), UNCHANGED rows
  PROVE  VersionsAreOrdered'
<1>1. Ordered(w)'
  BY DEF CallsOK, TypeOK, Answer, Ordered, Busy, Updates, HasLoaded
<1>2. \A v \in Workers \ {w} :
        pc'[v] = pc[v] /\ request'[v] = request[v] /\ product'[v] = product[v]
  BY DEF CallsOK, TypeOK, Answer
<1>. QED
  BY <1>1, <1>2, OthersStayOrdered

\* the start of a creation, which is about a row that does not exist,
LEMMA StartCreateOrdered ==
  ASSUME CallsOK, VersionsAreOrdered, NEW w \in Workers, StartCreate(w)
  PROVE  VersionsAreOrdered'
<1>1. PICK r \in CreateRequests, p \in Products :
        /\ request' = [request EXCEPT ![w] = [body |-> r, id |-> p, version |-> 0]]
        /\ pc' = [pc EXCEPT ![w] = "planned"]
  BY DEF StartCreate
<1>2. UNCHANGED << rows, product >>
  BY DEF StartCreate, tables
<1>3. r.op = "create"
  BY RequestsAssumption DEF CreateRequest
<1>4. Ordered(w)'
  BY <1>1, <1>3 DEF CallsOK, TypeOK, Ordered, Busy, Updates, HasLoaded
<1>. QED
  BY <1>1, <1>2, <1>4, OthersStayOrdered DEF CallsOK, TypeOK

\* the arrival of a request, whose version the row has reached,
LEMMA ReceiveOrdered ==
  ASSUME CallsOK, VersionsAreOrdered, MaxLead = 0, NEW w \in Workers, Receive(w)
  PROVE  VersionsAreOrdered'
<1>0. PICK r \in UpdateRequests, p \in Products :
        \E n \in 0 .. Reached(p) + MaxLead :
          request' = [request EXCEPT ![w] = [body |-> r, id |-> p, version |-> n]]
  BY DEF Receive
<1>1. PICK n \in 0 .. Reached(p) + MaxLead :
        request' = [request EXCEPT ![w] = [body |-> r, id |-> p, version |-> n]]
  BY <1>0
<1>2. /\ pc' = [pc EXCEPT ![w] = "received"]
      /\ UNCHANGED << rows, product >>
  BY DEF Receive, tables
<1>3. n <= Reached(p)
  BY DEF CallsOK, TypeOK, Reached, Aggregate
<1>4. Reached(p)' = Reached(p)
  BY <1>2 DEF Reached
<1>5. Ordered(w)'
  BY <1>1, <1>2, <1>3, <1>4 DEF CallsOK, TypeOK, Ordered, Busy, Updates, HasLoaded, Reached
<1>. QED
  BY <1>1, <1>2, <1>5, OthersStayOrdered DEF CallsOK, TypeOK

\* the read, which returns the row as it is now,
LEMMA LoadOrdered ==
  ASSUME CallsOK, VersionsAreOrdered, NEW w \in Workers, Load(w)
  PROVE  VersionsAreOrdered'
<1>. UNCHANGED rows
  BY DEF Load, tables
<1>. SUFFICES ASSUME ~Answer(w) PROVE VersionsAreOrdered'
  BY AnswerOrdered
<1>1. /\ pc[w] = "received" /\ pc' = [pc EXCEPT ![w] = "loaded"]
      /\ rows[request[w].id] # None
      /\ product' = [product EXCEPT ![w] = rows[request[w].id]]
      /\ UNCHANGED request
  BY DEF Load
<1>2. request[w] \in Request /\ Updates(w)
  BY <1>1 DEF CallsOK, TypeOK, CallsAreWellFormed, WellFormed, Creates, Updates, Busy
<1>3. rows[request[w].id] \in Aggregate
  BY <1>1, <1>2 DEF CallsOK, TypeOK, Request
<1>4. Ordered(w)'
  BY <1>1, <1>2, <1>3
  DEF CallsOK, TypeOK, VersionsAreOrdered, Ordered, Reached, Busy, Updates, HasLoaded, Aggregate
<1>. QED
  BY <1>1, <1>4, OthersStayOrdered DEF CallsOK, TypeOK

\* the steps that touch only the copy,
LEMMA ProceedOrdered ==
  ASSUME CallsOK, VersionsAreOrdered, NEW w \in Workers, Mutate(w) \/ Plan(w)
  PROVE  VersionsAreOrdered'
<1>. UNCHANGED rows
  BY DEF Mutate, Plan, tables
<1>. SUFFICES ASSUME ~Answer(w) PROVE VersionsAreOrdered'
  BY AnswerOrdered
<1>1. /\ pc[w] \in {"loaded", "mutated"}
      /\ pc' \in {[pc EXCEPT ![w] = "mutated"], [pc EXCEPT ![w] = "planned"]}
      /\ UNCHANGED << request, product >>
  BY DEF Mutate, Plan
<1>2. Ordered(w)'
  BY <1>1
  DEF CallsOK, TypeOK, VersionsAreOrdered, Ordered, Reached, Busy, Updates, HasLoaded
<1>. QED
  BY <1>1, <1>2, OthersStayOrdered DEF CallsOK, TypeOK

--------------------------------------------------------------------------------
\* An update the version check lets through overwrites the row it loaded.
LEMMA CheckedUpdate ==
  ASSUME CallsOK, VersionsAreOrdered, NEW w \in Workers,
         pc[w] = "planned", Updates(w), VersionCheck(w)
  PROVE  product[w] = rows[request[w].id]
<1>1. HasLoaded(w)
  BY DEF HasLoaded
<1>2. rows[request[w].id].version = request[w].version
  BY DEF VersionCheck, Updates
<1>3. /\ request[w].version \in Nat
      /\ product[w].version \in Nat
      /\ rows[request[w].id].version \in Nat
  BY <1>1, LoadedCall DEF Request, Aggregate
<1>. QED
  BY <1>1, <1>2, <1>3 DEF VersionsAreOrdered, Ordered

\* So it writes the whole aggregate its method made of that row, one version up.
LEMMA CommittedUpdate ==
  ASSUME CallsOK, VersionsAreOrdered, NEW w \in Workers,
         pc[w] = "planned", Updates(w), VersionCheck(w)
  PROVE  \E t \in 0 .. clock :
           LET row == rows[request[w].id]
           IN  /\ row \in Aggregate
               /\ outcome[w] = Execute(request[w].body, row, t)
               /\ outcome[w].err = "nil"
               /\ Written(w) = Whole(row, outcome[w].after)
<1>1. HasLoaded(w)
  BY DEF HasLoaded
<1>2. PICK t \in 0 .. clock :
        /\ outcome[w] = Execute(request[w].body, product[w], t)
        /\ outcome[w].err = "nil"
  BY <1>1 DEF CallsOK, CallsAreWellFormed, WellFormed
<1>3. /\ request[w].body \in UpdateRequest /\ ValidUpdate(request[w].body)
      /\ product[w] \in Aggregate
  BY <1>1, LoadedCall
<1>4. product[w] = rows[request[w].id]
  BY CheckedUpdate
<1>5. Sound(outcome[w], product[w])
  <2>1. t \in Nat
    BY DEF CallsOK, TypeOK
  <2>. QED
    BY <1>2, <1>3, <2>1, ExecuteSound
<1>6. Written(w) = UpdateMut(product[w], outcome[w].after, outcome[w].dirty)
  BY <1>4 DEF Written, Updates
<1>7. Written(w) = Whole(product[w], outcome[w].after)
  BY <1>2, <1>5, <1>6 DEF Sound
<1>. QED
  BY <1>2, <1>3, <1>4, <1>7

\* A creation writes version 0 where there was no row.
LEMMA CommittedCreate ==
  ASSUME CallsOK, NEW w \in Workers, Creates(w)
  PROVE  /\ rows[request[w].id] = None
         /\ request[w] \in Request
         /\ request[w].body \in CreateRequests /\ ValidCreate(request[w].body)
         /\ outcome[w] = NewProduct(request[w].body.arg)
         /\ Written(w) = outcome[w].after
         /\ Written(w).version = 0
<1>1. request[w] \in Request /\ WellFormed(w)
  BY DEF CallsOK, TypeOK, CallsAreWellFormed, WellFormed, Creates, Busy
<1>2. request[w].body \in CreateRequests
  BY <1>1, RequestsAssumption DEF WellFormed, Creates, UpdateRequest
<1>3. Written(w) = outcome[w].after
  BY DEF Written, Creates
<1>4. ValidCreate(request[w].body) /\ outcome[w] = NewProduct(request[w].body.arg)
  BY <1>1 DEF WellFormed
<1>5. NewProduct(request[w].body.arg).after.version = 0
  BY <1>2, <1>4, RequestsAssumption, NewProductAccepted
<1>. QED
  BY <1>1, <1>2, <1>3, <1>4, <1>5 DEF CallsOK, IdsAreFresh

\* A commit creates a product at version 0 or takes it to its next version.
LEMMA CommittedVersion ==
  ASSUME CallsOK, VersionsAreOrdered, NEW w \in Workers, pc[w] = "planned", VersionCheck(w)
  PROVE  LET row == rows[request[w].id]
         IN  \/ /\ row = None /\ Written(w).version = 0
             \/ /\ row \in Aggregate /\ row # None
                /\ Written(w).version = row.version + 1
<1> DEFINE id == request[w].id
<1>1. CASE Creates(w)
  BY <1>1, CommittedCreate
<1>2. CASE Updates(w)
  <2>1. HasLoaded(w) /\ rows[id] \in Aggregate /\ rows[id] # None
    BY <1>2, CommittedUpdate, NoneAssumption DEF HasLoaded
  <2>2. Written(w) = Whole(rows[id], outcome[w].after)
    BY <1>2, CommittedUpdate
  <2>3. outcome[w].after \in Aggregate
    BY PlannedCall DEF Outcome
  <2>4. Written(w).version = rows[id].version + 1
    BY <2>2, <2>3 DEF Whole, Aggregate
  <2>. QED
    BY <2>1, <2>4
<1>. QED
  BY <1>1, <1>2, PlannedCall

\* and a commit, which takes the row one version past every other copy of it.
LEMMA CommitOrdered ==
  ASSUME CallsOK, VersionsAreOrdered, NEW w \in Workers, Commit(w)
  PROVE  VersionsAreOrdered'
<1> DEFINE id == request[w].id
<1>1. /\ pc[w] = "planned" /\ VersionCheck(w) /\ Answer(w)
      /\ rows' = [rows EXCEPT ![id] = Written(w)]
  BY DEF Commit
<1>2. /\ id \in Products
      /\ Written(w) \in Aggregate /\ Written(w) # None
      /\ Creates(w) \/ (Updates(w) /\ HasLoaded(w))
  BY <1>1, PlannedCall, NoneAssumption DEF Request
<1>3. \/ /\ rows[id] = None /\ Written(w).version = 0
      \/ /\ rows[id] \in Aggregate /\ rows[id] # None
         /\ Written(w).version = rows[id].version + 1
  BY <1>1, CommittedVersion
<1>. SUFFICES ASSUME NEW v \in Workers PROVE Ordered(v)'
  BY DEF VersionsAreOrdered
<1>4. CASE v = w
  BY <1>1, <1>4 DEF CallsOK, TypeOK, Answer, Ordered, Busy, Updates, HasLoaded
<1>5. CASE v # w
  <2>. SUFFICES ASSUME Updates(v)' PROVE Ordered(v)'
    BY DEF Ordered, HasLoaded
  <2>1. /\ pc'[v] = pc[v] /\ request'[v] = request[v] /\ product'[v] = product[v]
        /\ Updates(v)
    BY <1>1, <1>5 DEF CallsOK, TypeOK, Answer, Updates, Busy
  <2>2. request[v] \in Request
    BY <2>1 DEF CallsOK, TypeOK, CallsAreWellFormed, WellFormed, Updates, Busy
  <2>3. HasLoaded(v)' <=> HasLoaded(v)
    BY <2>1 DEF HasLoaded
  <2>4. CASE request[v].id # id
    <3>1. rows'[request[v].id] = rows[request[v].id]
      BY <1>1, <2>2, <2>4 DEF CallsOK, TypeOK
    <3>. QED
      BY <2>1, <2>3, <3>1 DEF VersionsAreOrdered, Ordered, Reached
  <2>5. CASE request[v].id = id
    <3>1. rows'[request'[v].id] = Written(w)
      BY <1>1, <1>2, <2>1, <2>5 DEF CallsOK, TypeOK
    <3>2. Reached(request[v].id) <= Written(w).version
      BY <1>2, <1>3, <2>5 DEF Reached, Aggregate
    <3>3. Reached(request[v].id)' = Written(w).version
      BY <1>2, <3>1 DEF Reached
    <3>4. request'[v].version <= Reached(request[v].id)'
      <4>1. request[v].version <= Reached(request[v].id)
        BY <2>1 DEF VersionsAreOrdered, Ordered
      <4>2. Reached(request[v].id) \in Nat /\ Written(w).version \in Nat
        BY <1>2, <2>2 DEF CallsOK, TypeOK, Reached, Aggregate, Request
      <4>. QED
        BY <2>1, <2>2, <3>2, <3>3, <4>1, <4>2 DEF Request
    <3>5. ASSUME HasLoaded(v)
          PROVE  /\ request[v].version <= product[v].version
                 /\ product[v].version < Written(w).version
      <4>1. rows[id] # None /\ product[v] \in Aggregate
        BY <2>1, <2>5, <3>5, LoadedCall DEF CallsOK, CallsAreWellFormed, WellFormed
      <4>2. request[v].version <= product[v].version /\ product[v].version <= rows[id].version
        BY <2>5, <3>5 DEF VersionsAreOrdered, Ordered
      <4>. QED
        BY <1>3, <4>1, <4>2 DEF Aggregate
    <3>. QED
      BY <1>2, <2>1, <2>2, <2>3, <3>1, <3>4, <3>5, LoadedCall DEF Ordered, Aggregate
  <2>. QED
    BY <2>4, <2>5
<1>. QED
  BY <1>4, <1>5

\* Hence every step keeps it.
LEMMA NextOrdered ==
  ASSUME MaxLead = 0
  PROVE  CallsOK /\ VersionsAreOrdered /\ [Next]_vars => VersionsAreOrdered'
<1>. SUFFICES ASSUME CallsOK, VersionsAreOrdered, [Next]_vars PROVE VersionsAreOrdered'
  OBVIOUS
<1>1. ASSUME NEW w \in Workers, StartCreate(w) \/ Receive(w) PROVE VersionsAreOrdered'
  BY <1>1, StartCreateOrdered, ReceiveOrdered
<1>2. ASSUME NEW w \in Workers, Step(w) PROVE VersionsAreOrdered'
  BY <1>2, LoadOrdered, ProceedOrdered, CommitOrdered, AnswerOrdered
  DEF Step, Conflict, tables
<1>3. ASSUME NEW w \in Workers, Fail(w) PROVE VersionsAreOrdered'
  BY <1>3, AnswerOrdered DEF Fail, tables
<1>4. CASE Crash
  BY <1>4 DEF Crash, VersionsAreOrdered, Ordered, Busy, Updates, HasLoaded
<1>5. CASE Tick \/ Rest \/ UNCHANGED vars
  BY <1>5 DEF Tick, Rest, vars, tables, session, VersionsAreOrdered, Ordered, Reached, Busy,
     Updates, HasLoaded
<1>. QED
  BY <1>1, <1>2, <1>3, <1>4, <1>5 DEF Next, Panic

\* The inductive invariant: what every call holds, and the order of versions.
THEOREM VersionsOrdered ==
  ASSUME MaxLead = 0
  PROVE  Spec => []IInv
<1>1. Init => VersionsAreOrdered
  BY DEF Init, VersionsAreOrdered, Ordered, Busy, Updates, HasLoaded
<1>2. CallsOK /\ VersionsAreOrdered <=> IInv
  BY DEF CallsOK, IInv
<1>. QED
  BY <1>1, <1>2, InitCallsOK, NextCallsOK, NextOrdered, PTL DEF Spec

\* Optimistic locking does its work: no committed change is ever overwritten by
\* an update computed without it (ApplyWithVersionCheck after GetByID).
THEOREM NoUpdateLost ==
  ASSUME MaxLead = 0
  PROVE  Spec => []NoLostUpdate
<1>1. IInv => NoLostUpdate
  BY CheckedUpdate DEF IInv, CallsOK, NoLostUpdate
<1>. QED
  BY <1>1, VersionsOrdered, PTL

--------------------------------------------------------------------------------
\* Only a commit writes a row, and only that of its own product.
LEMMA OnlyCommitsWrite ==
  ASSUME CallsOK, [Next]_vars
  PROVE  \/ UNCHANGED rows
         \/ \E w \in Workers :
              /\ pc[w] = "planned" /\ VersionCheck(w)
              /\ request[w].id \in Products
              /\ rows' = [rows EXCEPT ![request[w].id] = Written(w)]
<1>1. ASSUME NEW w \in Workers, Commit(w)
      PROVE  /\ pc[w] = "planned" /\ VersionCheck(w)
             /\ request[w].id \in Products
             /\ rows' = [rows EXCEPT ![request[w].id] = Written(w)]
  BY <1>1, PlannedCall DEF Commit, Request
<1>2. ASSUME NEW w \in Workers,
             \/ StartCreate(w) \/ Receive(w) \/ Load(w) \/ Mutate(w) \/ Plan(w)
             \/ Conflict(w) \/ Fail(w)
      PROVE  UNCHANGED rows
  BY <1>2 DEF StartCreate, Receive, Load, Mutate, Plan, Conflict, Fail, tables
<1>3. Crash \/ Tick \/ Rest \/ UNCHANGED vars => UNCHANGED rows
  BY DEF Crash, Tick, Rest, vars, tables
<1>. QED
  BY <1>1, <1>2, <1>3 DEF Next, Step, Panic

\* Every commit on a product moves its version by exactly one: the version a
\* client reads is the number of changes made so far.
THEOREM VersionsStepByOne ==
  ASSUME MaxLead = 0
  PROVE  Spec => VersionStep
<1> DEFINE StepsByOne ==
      \A p \in Products :
        rows[p] # None /\ rows'[p] # rows[p] => rows'[p].version = rows[p].version + 1
<1>1. IInv /\ [Next]_vars => StepsByOne
  <2>. SUFFICES ASSUME IInv, [Next]_vars, NEW p \in Products,
                       rows[p] # None, rows'[p] # rows[p]
                PROVE  rows'[p].version = rows[p].version + 1
    OBVIOUS
  <2>. CallsOK /\ VersionsAreOrdered /\ rows \in [Products -> Aggregate \cup {None}]
    BY DEF IInv, CallsOK, TypeOK
  <2>1. PICK w \in Workers :
          /\ pc[w] = "planned" /\ VersionCheck(w)
          /\ rows' = [rows EXCEPT ![request[w].id] = Written(w)]
    BY OnlyCommitsWrite
  <2>2. p = request[w].id /\ rows'[p] = Written(w)
    BY <2>1
  <2>. QED
    BY <2>1, <2>2, CommittedVersion
<1>2. IInv /\ [Next]_vars => [StepsByOne]_vars
  BY <1>1
<1>. QED
  BY <1>2, VersionsOrdered, PTL DEF Spec, VersionStep

\* No domain method accepts an archived product.
LEMMA ArchivedRejects ==
  ASSUME NEW r \in UpdateRequest, NEW p, p.status = "archived", NEW now
  PROVE  Execute(r, p, now).err # "nil"
<1>1. CASE r.op \in {"update", "price", "removeDiscount"}
  BY <1>1 DEF Execute, UpdateDetails, SetBasePrice, RemoveDiscount, Reject
<1>2. CASE r.op \in {"applyDiscount", "activate", "deactivate"}
  BY <1>2 DEF Execute, ApplyDiscount, Activate, Deactivate, Reject
<1>3. CASE r.op = "archive"
  BY <1>3 DEF Execute, Archive, Reject
<1>. QED
  BY <1>1, <1>2, <1>3 DEF UpdateRequest

\* Archiving is for good, also against the calls that loaded the product before.
THEOREM ArchivedForGood ==
  ASSUME MaxLead = 0
  PROVE  Spec => ArchivedIsFinal
<1> DEFINE Final ==
      \A p \in Products :
        rows[p] # None /\ rows[p].status = "archived" => rows'[p] = rows[p]
<1>1. IInv /\ [Next]_vars => Final
  <2>. SUFFICES ASSUME IInv, [Next]_vars, NEW p \in Products,
                       rows[p] # None, rows[p].status = "archived", rows'[p] # rows[p]
                PROVE  FALSE
    OBVIOUS
  <2>. CallsOK /\ VersionsAreOrdered /\ rows \in [Products -> Aggregate \cup {None}]
    BY DEF IInv, CallsOK, TypeOK
  <2>1. PICK w \in Workers :
          /\ pc[w] = "planned" /\ VersionCheck(w)
          /\ rows' = [rows EXCEPT ![request[w].id] = Written(w)]
    BY OnlyCommitsWrite
  <2>2. p = request[w].id
    BY <2>1
  <2>3. Updates(w) /\ HasLoaded(w)
    BY <2>1, <2>2, PlannedCall, CommittedCreate
  <2>4. request[w].body \in UpdateRequest
    BY <2>3, LoadedCall
  <2>5. \E t : outcome[w] = Execute(request[w].body, rows[p], t) /\ outcome[w].err = "nil"
    BY <2>1, <2>2, <2>3, CommittedUpdate
  <2>. QED
    BY <2>4, <2>5, ArchivedRejects
<1>2. IInv /\ [Next]_vars => [Final]_vars
  BY <1>1
<1>. QED
  BY <1>2, VersionsOrdered, PTL DEF Spec, ArchivedIsFinal

--------------------------------------------------------------------------------
(***************************************************************************)
(* The command side implements the atomic catalog of Catalog when clients  *)
(* send versions the product has had: a commit is a step of the catalog,   *)
(* every other step leaves its tables alone.                               *)
(***************************************************************************)

(***************************************************************************)
(* Catalog applies its own instance of Product, with the same constants:   *)
(* its operators are those of the command side.                            *)
(***************************************************************************)
LEMMA SameResults ==
  ASSUME NEW p, NEW err, NEW dirty, NEW events, NEW type, NEW body
  PROVE  /\ Abstract!Reject(p, err) = Reject(p, err)
         /\ Abstract!Accept(p, dirty, events) = Accept(p, dirty, events)
         /\ Abstract!Event(type, body) = Event(type, body)
         /\ Abstract!Details(p) = Details(p)
  BY DEF Abstract!Reject, Reject, Abstract!Accept, Accept, Abstract!Event, Event,
     Abstract!Details, Details

\* NewProduct means the same in the catalog and in the service.
LEMMA SameNewProduct == ASSUME NEW i PROVE Abstract!NewProduct(i) = NewProduct(i)
  BY SameResults DEF Abstract!NewProduct, NewProduct

\* So do the setters of the texts,
LEMMA SameUpdateDetails ==
  ASSUME NEW p, NEW patch PROVE Abstract!UpdateDetails(p, patch) = UpdateDetails(p, patch)
<1>1. Abstract!Merged(p, patch) = Merged(p, patch)
  BY DEF Abstract!Merged, Merged
<1>. QED
  BY <1>1, SameResults DEF Abstract!UpdateDetails, UpdateDetails

\* the price,
LEMMA SameSetBasePrice ==
  ASSUME NEW p, NEW price PROVE Abstract!SetBasePrice(p, price) = SetBasePrice(p, price)
  BY SameResults DEF Abstract!SetBasePrice, SetBasePrice

\* a discount,
LEMMA SameApplyDiscount ==
  ASSUME NEW p, NEW d PROVE Abstract!ApplyDiscount(p, d) = ApplyDiscount(p, d)
  BY SameResults DEF Abstract!ApplyDiscount, ApplyDiscount

\* and the changes of status and the removal of a discount.
LEMMA SameStatusChanges ==
  ASSUME NEW p, NEW now
  PROVE  /\ Abstract!RemoveDiscount(p) = RemoveDiscount(p)
         /\ Abstract!Activate(p) = Activate(p)
         /\ Abstract!Deactivate(p) = Deactivate(p)
         /\ Abstract!Archive(p, now) = Archive(p, now)
  BY SameResults DEF Abstract!RemoveDiscount, RemoveDiscount, Abstract!Activate, Activate,
     Abstract!Deactivate, Deactivate, Abstract!Archive, Archive

\* Hence every domain method has the same outcome in both.
LEMMA SameExecute ==
  ASSUME NEW r, NEW p, NEW now PROVE Abstract!Execute(r, p, now) = Execute(r, p, now)
<1>1. Abstract!ValidDiscount(r.arg) <=> ValidDiscount(r.arg)
  BY DEF Abstract!ValidDiscount, ValidDiscount, Abstract!ValidPeriod, ValidPeriod
<1>. QED
  BY <1>1, SameResults, SameUpdateDetails, SameSetBasePrice, SameApplyDiscount,
     SameStatusChanges
  DEF Abstract!Execute, Execute

\* and the row it makes is the same.
LEMMA SameStored ==
  ASSUME NEW old, NEW after
  PROVE  Abstract!Stored(old, after) = Whole(old, after)
  BY DEF Abstract!Stored, Whole, Abstract!InColumn, InColumn

\* The same requests are valid in both.
LEMMA SameRequests ==
  ASSUME NEW r
  PROVE  /\ Abstract!ValidCreate(r) <=> ValidCreate(r)
         /\ Abstract!ValidUpdate(r) <=> ValidUpdate(r)
  BY DEF Abstract!ValidCreate, ValidCreate, Abstract!ValidUpdate, ValidUpdate

\* A commit adds the same rows in both.
LEMMA SameRows ==
  ASSUME NEW id, NEW at, NEW events, NEW old, NEW new, NEW changedAt, NEW rec
  PROVE  /\ Abstract!OutboxRows(id, at, events) = OutboxRows(id, at, events)
         /\ Abstract!PriceRecord(id, old, new, changedAt) = PriceRecord(id, old, new, changedAt)
         /\ Abstract!HistoryRow(at, rec) = HistoryRow(at, rec)
  BY DEF Abstract!OutboxRows, OutboxRows, Abstract!PriceRecord, PriceRecord,
     Abstract!HistoryRow, HistoryRow

--------------------------------------------------------------------------------
ClockBounded == clock \in 0 .. MaxTime

\* The clock never passes the bound, so every reading is a time of the catalog.
LEMMA ClockStaysBounded == ClockBounded /\ [Next]_vars => ClockBounded'
<1>. SUFFICES ASSUME ClockBounded, [Next]_vars PROVE ClockBounded'
  OBVIOUS
<1>1. CASE Tick
  BY <1>1, BoundsAssumption DEF ClockBounded, Tick
<1>2. CASE ~Tick
  <2>1. ASSUME NEW w \in Workers, StartCreate(w) \/ Receive(w) \/ Step(w) \/ Fail(w)
        PROVE  UNCHANGED clock
    BY <2>1 DEF StartCreate, Receive, Step, Load, Mutate, Plan, Commit, Conflict, Fail
  <2>2. Crash \/ Rest \/ UNCHANGED vars => UNCHANGED clock
    BY DEF Crash, Rest, vars
  <2>. QED
    BY <1>2, <2>1, <2>2 DEF Next, Panic, ClockBounded
<1>. QED
  BY <1>1, <1>2

\* A reading up to now is one the catalog may choose.
LEMMA ClockReadings ==
  ASSUME ClockBounded, NEW t \in 0 .. clock
  PROVE  t \in Nat /\ t \in 0 .. MaxTime
  BY BoundsAssumption DEF ClockBounded

\* The commit of a creation is the creation of the catalog.
LEMMA CreateCommits ==
  ASSUME CallsOK, ClockBounded, NEW w \in Workers, Commit(w), Creates(w)
  PROVE  Abstract!Next
<1> DEFINE p == request[w].id
           r == request[w].body
<1>1. /\ pc[w] = "planned"
      /\ rows' = [rows EXCEPT ![p] = Written(w)]
      /\ commitTs' = commitTs + 1
      /\ outbox' = outbox \cup OutboxRows(p, commitTs', outcome[w].events)
      /\ history' = IF record[w] = None THEN history
                    ELSE history \cup {HistoryRow(commitTs', record[w])}
  BY DEF Commit
<1>2. /\ rows[p] = None /\ p \in Products
      /\ r \in CreateRequests /\ ValidCreate(r)
      /\ outcome[w] = NewProduct(r.arg)
      /\ Written(w) = outcome[w].after
  BY CommittedCreate DEF Request
<1>3. PICK t \in 0 .. MaxTime : record[w] = PriceRecord(p, None, r.arg.basePrice, t)
  BY ClockReadings DEF CallsOK, CallsAreWellFormed, WellFormed
<1>4. record[w] # None
  <2>1. r.arg.basePrice \in Int /\ t \in Nat
    BY <1>2, RequestsAssumption DEF CreateRequest, CreateInput, ValidCreate
  <2>2. record[w] \in Record
    BY <1>2, <1>3, <2>1 DEF PriceRecord, Record
  <2>. QED
    BY <2>2, NoneIsNoCall
<1>5. NewProduct(r.arg).err = "nil"
  BY <1>2, RequestsAssumption, NewProductAccepted DEF Outcome
<1>6. Abstract!Create(p, r, t)
  <2> HIDE DEF p, r
  <2>1. Abstract!NewProduct(r.arg) = outcome[w] /\ Abstract!ValidCreate(r)
    BY <1>2, SameNewProduct, SameRequests
  <2>2. rows' = [rows EXCEPT ![p] = outcome[w].after]
    BY <1>1, <1>2
  <2>3. outbox' = outbox \cup Abstract!OutboxRows(p, commitTs', outcome[w].events)
    BY <1>1, SameRows
  <2>4. history' = history \cup {Abstract!HistoryRow(commitTs',
                     Abstract!PriceRecord(p, None, r.arg.basePrice, t))}
    BY <1>1, <1>3, <1>4, SameRows
  <2>. QED
    BY <1>1, <1>2, <1>5, <2>1, <2>2, <2>3, <2>4 DEF Abstract!Create
<1>. QED
  BY <1>2, <1>6 DEF Abstract!Next

\* The commit of an update is the update of the catalog: it writes the whole
\* aggregate its method makes of the row as the row is at that instant.
LEMMA UpdateCommits ==
  ASSUME CallsOK, VersionsAreOrdered, ClockBounded, NEW w \in Workers, Commit(w), Updates(w)
  PROVE  Abstract!Next
<1> DEFINE p == request[w].id
           r == request[w].body
<1>1. /\ pc[w] = "planned" /\ VersionCheck(w)
      /\ rows' = [rows EXCEPT ![p] = Written(w)]
      /\ commitTs' = commitTs + 1
      /\ outbox' = outbox \cup OutboxRows(p, commitTs', outcome[w].events)
      /\ history' = IF record[w] = None THEN history
                    ELSE history \cup {HistoryRow(commitTs', record[w])}
  BY DEF Commit
<1>2. PICK now \in 0 .. clock :
        /\ outcome[w] = Execute(r, rows[p], now)
        /\ outcome[w].err = "nil"
        /\ Written(w) = Whole(rows[p], outcome[w].after)
  BY <1>1, CommittedUpdate
<1>3. /\ HasLoaded(w) /\ rows[p] # None /\ p \in Products
      /\ r \in UpdateRequests /\ ValidUpdate(r)
  <2>1. HasLoaded(w)
    BY <1>1 DEF HasLoaded
  <2>2. request[w] \in Request /\ r \in UpdateRequest /\ ValidUpdate(r)
    BY <2>1, LoadedCall
  <2>3. r \in CreateRequests \cup UpdateRequests /\ r.op # "create"
    BY DEF CallsOK, CallsAreWellFormed, WellFormed, Updates
  <2>4. r \in UpdateRequests
    BY <2>3, RequestsAssumption DEF CreateRequest
  <2>5. rows[p] # None
    BY <2>1 DEF CallsOK, CallsAreWellFormed, WellFormed
  <2>. QED
    BY <2>1, <2>2, <2>4, <2>5 DEF Request
<1>4. product[w] = rows[p]
  BY <1>1, CheckedUpdate
<1>5. PICK changedAt \in 0 .. MaxTime :
        IF r.op = "price"
        THEN record[w] = PriceRecord(p, rows[p].basePrice, r.arg, changedAt)
        ELSE record[w] = None
  <2>1. 0 \in 0 .. MaxTime
    BY BoundsAssumption
  <2>2. \A t \in 0 .. clock : t \in 0 .. MaxTime
    BY ClockReadings
  <2>. QED
    BY <1>1, <1>3, <1>4, <2>1, <2>2 DEF CallsOK, CallsAreWellFormed, WellFormed
<1>6. r.op = "price" => record[w] # None
  <2>. SUFFICES ASSUME r.op = "price" PROVE record[w] # None
    OBVIOUS
  <2>1. r.arg \in Int
    BY <1>3, RequestsAssumption DEF UpdateRequest, ValidUpdate
  <2>2. rows[p].basePrice \in Int
    BY <1>3 DEF CallsOK, TypeOK, Aggregate
  <2>3. record[w] \in Record
    BY <1>3, <1>5, <2>1, <2>2 DEF PriceRecord, Record
  <2>. QED
    BY <2>3, NoneIsNoCall
<1>7. now \in 0 .. MaxTime
  BY ClockReadings
<1>8. Abstract!Update(p, r, now, changedAt)
  <2> HIDE DEF p, r
  <2>1. Abstract!Execute(r, rows[p], now) = outcome[w] /\ Abstract!ValidUpdate(r)
    BY <1>2, <1>3, SameExecute, SameRequests
  <2>2. rows' = [rows EXCEPT ![p] = Abstract!Stored(rows[p], outcome[w].after)]
    BY <1>1, <1>2, SameStored
  <2>3. outbox' = outbox \cup Abstract!OutboxRows(p, commitTs', outcome[w].events)
    BY <1>1, SameRows
  <2>4. r.op = "price" =>
          history' = history \cup {Abstract!HistoryRow(commitTs',
            Abstract!PriceRecord(p, rows[p].basePrice, r.arg, changedAt))}
    BY <1>1, <1>5, <1>6, SameRows
  <2>5. r.op # "price" => history' = history
    BY <1>1, <1>5
  <2>. QED
    BY <1>1, <1>2, <1>3, <2>1, <2>2, <2>3, <2>4, <2>5 DEF Abstract!Update
<1>. QED
  BY <1>3, <1>7, <1>8 DEF Abstract!Next

\* Every step that is no commit leaves the tables of the catalog alone.
LEMMA OtherStepsStutter ==
  ASSUME [Next]_vars, ~(\E w \in Workers : Commit(w))
  PROVE  UNCHANGED Abstract!vars
<1>1. ASSUME NEW w \in Workers,
             \/ StartCreate(w) \/ Receive(w) \/ Load(w) \/ Mutate(w) \/ Plan(w)
             \/ Conflict(w) \/ Fail(w)
      PROVE  UNCHANGED tables
  BY <1>1 DEF StartCreate, Receive, Load, Mutate, Plan, Conflict, Fail
<1>2. Crash \/ Tick \/ Rest \/ UNCHANGED vars => UNCHANGED tables
  BY DEF Crash, Tick, Rest, vars
<1>. QED
  BY <1>1, <1>2 DEF Next, Step, Panic, tables, Abstract!vars

\* Every command of the service takes effect at one instant, the commit, on the
\* product as it is then, with its events and its price record: the steps of
\* the calls, their crashes and failures are invisible in the tables.
THEOREM CommandsImplementCatalog ==
  ASSUME MaxLead = 0
  PROVE  Spec => ImplementsCatalog
<1>1. Init => Abstract!Init
  BY DEF Init, Abstract!Init
<1>2. Init => ClockBounded
  BY BoundsAssumption DEF Init, ClockBounded
<1>3. IInv /\ ClockBounded /\ [Next]_vars => [Abstract!Next]_(Abstract!vars)
  <2>. SUFFICES ASSUME IInv, ClockBounded, [Next]_vars, NEW w \in Workers, Commit(w)
                PROVE  Abstract!Next
    BY OtherStepsStutter
  <2>. CallsOK /\ VersionsAreOrdered
    BY DEF IInv, CallsOK
  <2>1. Creates(w) \/ Updates(w)
    BY DEF Commit, Creates, Updates, Busy
  <2>. QED
    BY <2>1, CreateCommits, UpdateCommits
<1>. QED
  BY <1>1, <1>2, <1>3, VersionsOrdered, ClockStaysBounded, PTL
  DEF Spec, ImplementsCatalog, Abstract!Spec
================================================================================
