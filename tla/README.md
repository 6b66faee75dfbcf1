# Formal model of procat-service

TLA+ modules, TLC configurations and TLAPS proofs for the product catalog
service: a gRPC server, with an HTTP endpoint for events, that keeps products,
their price history and an outbox of domain events in Cloud Spanner, with
optimistic locking on a version column; a clean-up job for the outbox; and a
schema migration tool.

    tlc -workers 2 -config lifecycle.cfg MCProductCommands.tla   # a run
    tlapm ProductCommandsProofs.tla                              # a proof module

## The system

| Component | State | Operations | Modelled in |
|---|---|---|---|
| Product aggregate, change tracker, discount (`domain/`) | one loaded copy per call: fields, dirty columns, recorded events | NewProduct, SetName/SetDescription/SetCategory + MarkUpdated, SetBasePrice, ApplyDiscount, RemoveDiscount, Activate, Deactivate, Archive | `Product` |
| Use cases (`usecases/*/interactor.go`) | none between calls; a goroutine per call | load, domain method, plan, apply | `ProductCommands`, `Catalog` |
| Committer (`pkg/committer`) | none | Apply, ApplyWithVersionCheck | `ProductCommands` |
| Product repository (`repo/product_repo.go`) | table `products` | InsertMut, UpdateMut, GetByID | `Product`, `ProductCommands`, `Pricing` |
| Price history (`repo/`) | table `price_history` | the record in the plan of a price change | `Product`, `ProductCommands` |
| Outbox (`repo/`) | table `outbox_events` | the rows in the plan of a command, and their life afterwards | `Product`, `ProductCommands`, `OutboxRetention` |
| gRPC transport (`transport/grpc`) | none | request checks, the version of a request, error codes | `Product`, `ProductCommands`, `CommandReplies` and the modules of the queries |
| Clock | time | Now | `ProductCommands`, `Pricing` |
| Product read model, query builder (`repo/read_model.go`, `pkg/query`) | none (reads `products`) | GetProductByID, ListProducts by offset, with a count | `ProductTable`, `ProductPages`, `Pricing` |
| Events read model, HTTP endpoint | none (reads `outbox_events`) | ListEvents, `/api/v1/events` | `Listing`, `OutboxRetention` |
| Clean-up job (`cmd/cleanup_outbox`) | the cutoffs of one run | dry run, clean-up | `OutboxRetention` |
| Migration tool (`cmd/migrate`) | the schema | ensure instance and database, apply the files | `Migrations` |
| Server (`cmd/server`) | two listeners, requests in flight, the Spanner client | start, graceful shutdown | `Shutdown` (a kill: `Crash` of `ProductCommands`) |
| Money, pricing (`domain/money.go`, `domain/services`) | none | exact fractions, effective price | `Pricing` |

A command goes handler -> interactor -> `GetByID` (a strong read of its own) ->
domain method on the copy -> plan (row mutation, price record, events) ->
`ApplyWithVersionCheck` (one Spanner transaction that re-reads the version and
writes the plan). Calls share nothing but the tables, and other calls run
between any two of these steps. The version compared in the transaction is the
one in the **request**; the version written is that of the copy **loaded**,
plus one. No code compares those two.

The queries read the same tables in snapshots of their own; `ListProducts` takes
two, one for the page and one for the total. The HTTP handler for events is a
client of the gRPC server in its own process. The clean-up job is a process of
its own that meets the service only in `outbox_events`; between the two stands a
processor that publishes events, which this repository describes and does not
hold.

Hard behaviours: decisions taken on a copy that is stale at commit; the mix of
columns when only dirty fields are written; kill between steps; two clock readings
in one call; lost replies and repeated requests; rows that are validated again
when they are read; fractions and percentages at the ends of their columns, and a
percentage that is no number; a panic that ends all calls; offsets into a list
that changes; limits without continuation; deletions decided on a reading of the
clock that is old; schema statements that are carried out after the process that
sent them is gone; two servers that depend on one another being taken down, for
clients that may hold on. Each is listed, at its line, in `PROJECT.json` under
`hazards`.

What makes each component correct:

* aggregate: every changed column is marked, every accepted change has its
  event, and an archived product accepts nothing;
* use cases with committer: each command takes effect at one instant on the row
  as it is at that instant, or not at all;
* transport: of the attempts of an update sent again after a lost answer at most
  one commits, and an answer tells the truth;
* price history: one gapless chain per product, in the order of time;
* outbox: replaying a product's events in commit order gives its row (its discount
  up to the decimals of the column); no event is
  deleted before it is settled and old, none that is settled stays;
* repository: what was stored can be loaded, and means the same price;
* queries: a walk over the pages shows each product once, a poller misses
  nothing, as far as offsets and limits can promise it;
* migrations: success of a run that found its files means a complete schema;
* server: what was accepted is answered before what it needs is closed, and the
  process ends if its clients let it.

## Modules

    Product <- Catalog <- ProductCommands <- CommandReplies
    Listing <- ProductTable <- ProductPages         (ProductTable is
    Listing <- OutboxRetention                       implemented by
    Pricing      Migrations      Shutdown            ProductCommands)

Each `MC` module gives the inputs of the runs of its module. Definitions whose
comment begins with "Mutant" are deliberate errors: each property is shown to
fail when its mutant replaces the definition after it (`PROJECT.json`,
`mutants`).

**`Product`** (constant level) has the aggregate and its methods as operators that
return an outcome: error, aggregate, dirty columns, events; `UpdateMut`, the merge
of dirty columns into the stored row; the checks of the transport and of the
`validate` methods; and the rows one commit adds. A price is an integer (the
methods test its sign and its storage limit), a text a member of `Texts`, a time a
number. A percentage is an integer number of a unit fine enough for every float64
from 0 to 100 and every 10^-9, or `NaN`: `Hundred` is 100 in it, `ColumnUnit` the
last decimal of the column. `InColumn` rounds it to that decimal, as `UpdateMut`
does by way of NUMERIC, while the event keeps the number unrounded. `NaN` passes
the range checks of transport and domain, and `NewDiscountPanics` says when the
arithmetic after them is reached. An event keeps its type and the part of its
payload that the properties replay. A `Money` in a payload has no exported field
and is stored as `{}`, so a price event has no body. `Merged` stands for the three
text setters, which change the copy one after the other: a refused setter makes
the call return, and the copy with it.

**`Catalog`** is the abstract specification: one action per kind of command,
`Create` and `Update`, each atomic, writing the *whole* aggregate the domain
method returns for the row as it is now (`Stored`: one version up, a new discount
rounded to its column), with its events and its price record.

**`ProductCommands`** is the service. `rows`, `outbox`, `history` and `commitTs`
are the tables and the last commit's timestamp; `pc`, `request`, `product`,
`outcome` and `record` are what the goroutine of each call holds.

| Action | Code |
|---|---|
| `StartCreate` | `create_product` up to its commit (reads nothing; the uuid is fresh) |
| `Receive` | a request on a product arrives, with the version it expects |
| `Load` | `GetByID` with `dataToDomain`, which validates the discount again |
| `Mutate` | the domain method, at the time it reads |
| `Plan` | `UpdateMut`, the price record with its second clock reading, the events |
| `Commit` | the transaction of `Apply` / `ApplyWithVersionCheck` |
| `Conflict` | the version check fails |
| `Fail` | a read or the commit fails, or the deadline passes |
| `Crash` | the process is killed; all calls in flight are gone, the tables stay |
| `Panic` | `NewDiscount` panics on a percentage that is no number; nothing recovers, so the process ends as in `Crash` |
| `Tick` | time passes |
| `Rest` | clients are done: the one way the system stops, so deadlock is checked |

**`CommandReplies`** composes it with clients. Each has one update in mind
(`command`), sends it up to `MaxAttempts` times, and knows only the last answer.
`client` says for whom a worker works; `applied`, a ghost, is the sequence of the
versions the commits for a client made, one entry per commit, so that two commits
that made the same version would be two. A worker whose client has given up goes on.

| Action | Code |
|---|---|
| `Send` | a client sends its update, or the same again when the code leaves the outcome open; an absent version is 0 (`handler.go`) |
| `GiveUpWaiting` | the client's deadline passes; the worker may notice later |
| `Serve` | `Load`, `Mutate` or `Plan`, with the answer when it ends the call |
| `CommitReply`, `ConflictReply`, `FailReply` | `Commit`, `Conflict`, `Fail` and their answers |
| `CommitInDoubt` | the transaction took effect and Spanner's answer is lost |
| `CrashReply`, `PanicReply` | `Crash`, `Panic`; the waiting clients see a broken connection |
| `Found` | a creation, by somebody else |
| `Settled` | nobody wants anything more |

`Code` is `mapDomainErrorToGRPC`: errors without a case of their own (a
conflict, a price that does not fit, a discount that lasts too long) are
`Internal`.

**`Listing`** says what `ORDER BY created_at DESC LIMIT n` may return, ties
open. **`ProductTable`** is the table `products` as the read side needs it:
filter columns and `created_at`, with the changes commands may make.
**`ProductPages`** walks over it:

| Action | Code |
|---|---|
| `StartWalk` | a client begins with a filter and a page size, normalised as in the handler and the query |
| `ReadPage` | the first query, one row more than the page, and the next token |
| `CountProducts`, `CountFails` | the second query, in a snapshot of its own; its failure loses the page |
| `Write` | a command commits in between |

`Where`, `Limit`, `Offset`, `Count` are the query builder by what the built
statement selects. The ghosts `steady`, `lost`, `gained`, `twice` note what
happened to the list during the walk.

**`OutboxRetention`** is `outbox_events` from the insert of an event to its
deletion.

| Action | Code |
|---|---|
| `Insert` | a command commits one event, or two with one timestamp |
| `Claim`, `Publish`, `GiveUp`, `Retry` | the processor: external, from `docs/DESIGN.md` and the columns it would use |
| `StartJob` | `cleanup_outbox` starts and computes its cutoffs from its clock |
| `CleanUp` | its transaction, at any later time |
| `DryRun` | the dry run, which ends in an error (see *Findings*) |
| `FailJob` | it fails or is killed |
| `Poll` | `ListEvents`, over gRPC or HTTP, with the limit as each entry treats it: `Int32` is the conversion of the HTTP handler, of width `Width`, and `Effective` the default and the cap of handler, query and read model |
| `Tick` | time passes |

**`Pricing`** has one product whose commands are atomic: `Create`,
`SetBasePrice`, `Apply`, `ApplyNaN`, `RemoveDiscount`, `SetStatus`, `Tick`. A price is a
fraction as `big.Rat` keeps it; the columns hold two integers of the range
`-Limit .. Limit - 1`; a percentage is rounded to `1/Decimals` on its way into a
NUMERIC column and to `1/FloatGrid` on its way out to a float64. `ApplyNaN` is the
request whose percentage is no number: a refusal of its period or the panic, and
nothing stored. `DomainPrice`
and `Dto` are the two computations of a price from one row.

**`Migrations`**: `Start`, `EnsureInstance`, `CheckDatabase`, `CheckFails`,
`CreateDatabase`, `AwaitDatabase`, `NoFiles`, `SkipFile`, `ApplyFile`, `CallFails`,
`Kill` are the steps of a run of `cmd/migrate`. `EnsureInstance` and `CheckFails`
may end a run whatever exists, since each of them first needs a client. A run that
reports success is `done` when it went through its files, and `nothing` when
`Glob` found none (another working directory, say). `DatabaseCreated` and `ExecuteStatement`
are Spanner, which carries out the queue of sent files statement by statement,
whoever still waits. A statement is what it creates, what that needs, and
whether it says IF NOT EXISTS. `Finished` is rest.

**`Shutdown`**: `Start`, `StartFails`, `Signal`, `HttpStopped`, `GrpcStopped` are
the main goroutine; `ServeGrpc`, `ServeHttp`, `ListenerFails` the two serving
ones. `Exited` is rest.

| Action | Code |
|---|---|
| `Accept`, `Arrive` | an HTTP request begins, and is complete, so that its handler starts; in between it is up to its client |
| `CallGrpc` | the handler dials the gRPC port |
| `ReturnToHandler` | the gRPC handler returns to the HTTP handler |
| `Respond` | the HTTP handler writes its answer, which its client may leave unread |
| `Dial` | a direct call, or a stream of the reflection service (`main.go:52`); also over connections that have survived a listener that broke |
| `Return` | the handler of a direct call returns; its client may leave the reply unread |
| `LetGoHttp`, `LetGo` | a client reads, closes or disconnects |

### Assumptions

* Spanner: single-row reads are strong, a read-write transaction is atomic and
  serialisable, commit timestamps grow. `commitTs` counts commits. No two
  products have the same `created_at` (`ProductTable`).
* A uuid is never drawn twice.
* One clock that does not run backwards (see *Not modelled*).
* `MaxLead = 0`: the version in a request is one that the product has had. This
  is what the theorems on optimistic locking assume, and what the code does not
  enforce; see *Findings*. An absent version is 0 and so satisfies it.
* The processor moves events pending -> processing -> completed or failed, and
  failed -> processing, and stamps `processed_at` when an attempt ends.
* Commands are atomic in `Pricing`, `ProductPages` and `OutboxRetention`, which
  `CommandsImplementCatalog` justifies; that `ProductCommands` writes the table
  the way `ProductTable` says is `CommandsImplementTable`.

## Runs

| Run | Instance | Distinct states | Shows |
|---|---|---|---|
| `lifecycle` | 1 product, 2 calls, 3 updates, 2 clock readings; status, discount and price requests, creations valid and not | 912 000 | `IInv`, `NoLostUpdate`, `VersionCountsCommits`, `ArchivedIsConsistent`, `StoredRowsLoad`, `PriceHistoryIsChain`, `PriceHistoryInTime`, `DiscountOnActiveOnly`, `ArchivedIsFinal` |
| `catalog` | 1 product, 2 calls, 3 updates, every operation | 346 000 | `OutboxReplaysRow`, `VersionStep`, `ImplementsCatalog`, `ImplementsTable` |
| `retries` | 2 clients with 2 attempts each, 2 workers, 2 updates, a request that panics, versions given or left out | 228 000 | `ReplyTypeOK`, `AppliedAtMostOnce`, `OKTellsTheVersion`, `FirstRefusalIsFinal`, `CallsEnd` |
| `prices` | prices at the ends of a 4-bit integer, percentages around 0 and 100 and NaN, 4 instants | 8 800 | `PricesAreStoredExactly`, `NoPriceOverflows`, `StoredDiscountLoads`, `EffectivePriceInRange`, `ViewsAgree`, `PriceFollowsTheWindow` |
| `events` | 2 events, 1 job, limits of 3 bits around every edge, retentions 1 and 2, 5 instants | 235 000 | `PollerMissesNothing`, `PollsAreAnswered`, `RetentionKept`, `OldEventsGo` |
| `pages` | 3 products, 2 categories, page sizes -1 to 3 | 244 000 | `NothingMissed`, `NothingTwice`, `TotalAddsUp` |
| `walk_ends` | 3 products, page size 1 | 49 000 | `WalkEnds` |
| `shutdown` | 2 HTTP requests, 2 gRPC calls at a time | 3 100 | `RequestsKeepTheirServer`, `SpannerOutlivesCalls`, `ShutdownEnds`, `RequestsAreAnswered` |
| `migrations` | 3 runs, 2 at a time, on the emulator | 11 000 | `TypeOK`, `SuccessMeansComplete`, `FirstRunIsNotRefused`, `RunsEnd` |
| `ahead_lost_update` | `MaxLead = 1` | (violation) | finding 1 |
| `conflict_code` | one conflict | (violation) | finding 2 |
| `migrate_again` | two runs | (violation) | finding 3 |

Bounds, and why they are enough.

* Two calls make every pairwise race, since a call meets the others only
  through one row; three updates allow activate, discount, archive.
  `MaxStorablePrice = 2` puts prices on both sides of the storage limit, and
  `lifecycle` creates at 3 and changes to 3 only to meet that guard: which prices
  a real client can reach it with is the question of `Pricing`. `MaxTime = 1`
  lets the clock move between any two readings of a call. `Hundred = 100` and
  `ColumnUnit = 10` let a percentage be rounded in the column, up to the limit (95
  to 100, in `lifecycle`) and down (14 to 10, in `catalog`, where the event keeps
  the 14). The catalog of two products is covered by the proof, not by a run:
  calls on different products share only `commitTs`. So `ImplementsTable` in
  `catalog`, with its one product, does not test that a creation is the *newest*;
  the theorem `CommandsImplementTable` has any number of them.
* In `retries` two workers let an attempt run on beside the next one, or beside
  the other client's. Its requests are a price change, which could be applied
  over and over, archiving, which a second attempt finds done, and a discount of
  NaN, whose panic breaks the other client's connection as well.
* In `prices` `Limit = 8` stands for 2^63, `Decimals = 5` for 10^9, `FloatGrid = 8`
  for the spacing of float64: neither grid contains the other, so both
  conversions round, in both directions.
* In `events`, time and the retentions are such that an event can be settled,
  fail and be retried while a job holds cutoffs, and become old before the
  clock stops: `Horizon` and `MaxRetries` bound the processor, not the job. The
  limits asked for lie around 0, the maximum, the largest 32-bit number and the
  width, where the conversion wraps around.
* In `pages` three products and page size 1 let one move under the offset in
  either direction between two pages. Three products also mean at most three
  creations: with any finite `Products` a walk ends by that alone. `WalkEnds`
  therefore does not claim it of a table that goes on growing, and could not: the
  offset grows by a page, and if as many products are created meanwhile, newest
  first, the extra row is always there and `read_model.go:147` always gives another
  token. It claims the end once no write makes a product match any more
  (`NoMoreArrivals`), which does not depend on how many products there are.
* In `shutdown` two requests and two calls let one hold on, or begin, while the other
  ends.
* In `migrations` three starts allow a run to fail half-way, and two others to
  overlap afterwards.

Symmetry is used only where all properties of a run are safety properties.
Deadlock is checked in every run.

### Fairness

* `CommandReplies`: a worker that can take its next step takes one
  (`WF(Finish(w))`): goroutines are scheduled and Spanner answers, with whatever
  result. Clients, crashes and failures are under no obligation.
* `ProductPages`: the client goes on asking (`WF(ReadPage)`), and not every count
  fails (`SF(CountProducts)`: a failure sends the client back to the page, so the
  count is enabled again and again, not for ever). That creations stop is no
  fairness but the premise of `WalkEnds`.
* `OutboxRetention`: time passes; the job is started again and again, daily
  according to `004_add_outbox_retention.sql`, not only as a dry run; and it does
  not fail each time (`SF`, because a failed or dry run disables it). This last is
  more than the code secures: the clean-up is one DML statement, and a backlog
  beyond the number of mutations Spanner allows in a transaction makes it fail
  every time, so that `OldEventsGo` is a claim about backlogs below that limit.
* `Migrations`: Spanner carries out what it has accepted, and a run that is not
  killed and whose calls return goes on.
* `Shutdown`: goroutines are scheduled, and calls of Spanner return. The handlers
  set no deadline of their own, so without the latter neither the requests nor
  the shutdown would end. Clients are under no obligation: `Arrive`, `LetGoHttp` and
  `LetGo` have no fairness, since the HTTP server has no timeouts
  (`main.go:85`), `Shutdown` is given a context without a deadline
  (`main.go:106`), and a reflection stream is open as long as its client likes
  (`main.go:52`). `RequestsAreAnswered` needs nothing of them: it says that the
  handler of a request that has arrived writes its answer. `ShutdownEnds` has the
  premise `ClientsLetGo`, each client lets go again and again, and without it is
  false: one client that stalls keeps the process from ending.

## Findings

Each of the first three is the counterexample of a run.

1. `ApplyWithVersionCheck` documents its argument as "the version the aggregate
   had when it was loaded"; all use cases pass the request's. With a request one
   ahead of the row as loaded and another commit in between, the check passes
   and that commit is overwritten; a product archived in between is modified
   (`docs/DESIGN.md:172` "Cannot modify archived products"). Clients have a
   reason to count ahead: `GetProduct` and `ListProducts` do not return the version.
2. A version conflict is answered `Internal`; the documents promise `ABORTED`.
3. A second run of the migration tool fails at the first statement without
   IF NOT EXISTS; its README promises that it can be run again. After a run that
   stopped between two such statements no later run completes the schema.

Other differences met while modelling, each a matter of reading rather than of
checking:

* A discount removal succeeds, and is reported by an event, without a discount
  ("Can only remove if discount exists", `docs/REQUIREMENTS.md:114`).
* The version is `optional` (`product_service.proto:64`), and `docs/DESIGN.md:512`
  shows a check skipped for version 0; the code compares an absent one as 0.
* An expired discount is refused as "already has an active discount"
  (`domain_errors.go:18`).
* `list_events/query.go:13` names the status "processed", which no row has.
* `outbox_repo_test.go:141` expects the events of one commit in the order of
  their insertion; no column keeps one.
* The dry run of the clean-up (`cmd/cleanup_outbox/main.go:94`) waits for the
  text "iterator done", which the iterator does not produce, and ends in an
  error every time.
* `NewDiscount` and the transport test the range of a percentage with two
  comparisons, both false for NaN (`discount.go:24`, `validation.go:43`); the
  arithmetic that follows panics, and as nothing recovers the process ends
  (`Panic`, `ApplyNaN`).
* The event of a discount keeps the percentage as a float64
  (`domain_events.go:94`), the row as a NUMERIC of nine decimals
  (`product_repo.go:77`): for 33.333333333333336 the two differ. `OutboxReplaysRow`
  says that they do by that rounding only.
* A migration run that finds no file, for one started in another directory,
  reports "Migrations completed successfully!" (`cmd/migrate/main.go:190`) with
  no schema at all. `SuccessMeansComplete` is about runs that found theirs.
* The graceful shutdown waits for clients without a limit: a reflection stream or
  a stalled HTTP client holds it for ever.
* A walk over the pages need not end while products are created as fast as it
  proceeds.
* A page list can skip a product when another leaves the filter between two
  pages, where `read_model_test.go:191` speaks of pagination that misses nothing.
  `NothingMissed` says exactly when it cannot.

## Proofs

Every safety property that a passing run checks, state invariant or action
property, and both refinements, are theorems, for every value of the constants
within the assumptions named below.

| Module | Proved |
|---|---|
| `ProductCommandsProofs` | for each domain method, and for `Execute`: the outcome has its type, keeps the version, and its dirty columns written over the loaded row make the whole aggregate, a new discount rounded to its column (`ExecuteSound`); `TypeCorrect`, from `CallsOK`: what a call holds at each step; `VersionsOrdered` (`IInv`), `NoUpdateLost`, `VersionsStepByOne`, `ArchivedForGood`; `CommandsImplementCatalog` |
| `TablesProofs` | `RowsAlwaysLoad`, `ArchivedConsistently`, `DiscountsOnActive`, `HistoryChained`, `HistoryOrdered`, `OutboxTellsRows`, `VersionsCounted`; `CommandsImplementTable` |
| `CommandRepliesProofs` | `ClientsUseTheService` (`ReplySpec => Spec`), `UpdatesApplyOnce`, `OKVersionKnown`, `RefusalIsFinal`, `WaitingIsServed` |
| `PricingProofs` | `PricesExact`, `NoOverflow`, `DiscountLoads`, `PriceInRange`, `BothViews`, `FollowsTheWindow`, from `PricingInvAlways` |
| `OutboxRetentionProofs` | `EventsTyped`, `NothingMissedByPoller`, `RetentionIsKept`, `EveryPollIsAnswered` |
| `ProductPagesProofs` | `PagesTyped`, `NoProductMissed`, `NoProductTwice`, `TotalIsOfTheWalk` |
| `MigrationsProofs` | `TypesHold`, `DoneIsComplete`, `FirstRunPasses` |
| `ShutdownProofs` | `ShutdownTyped`, `RequestsKeepServer`, `SpannerClosedLast` |

The theorems of `ProductCommandsProofs` and `TablesProofs` about versions and
tables, and `UpdatesApplyOnce`, `OKVersionKnown` and `RefusalIsFinal`, assume
`MaxLead = 0`, which finding 1 shows to be needed. `ExecuteSound`, `TypeCorrect`,
`ClientsUseTheService` and `WaitingIsServed` hold whatever versions clients send.

**Optimistic locking.** `NoLostUpdate` is not inductive: the check compares the
request with the row, and says nothing of the copy. `IInv` adds the order

    request version <= loaded version <= stored version

and that a row still at the loaded version *is* the aggregate loaded. `Receive`
starts the order, `Load` extends it, and a commit preserves it for the others
because it takes the row to the next version: there request = stored, so
loaded = stored too (`CheckedUpdate`). Then the merge of dirty columns is the
whole aggregate one version up (`ExecuteSound`, `CommittedUpdate`), which is
the step of the catalog; every other step leaves the tables alone. `Whole` says
that for the aggregate and `WholeRow` for the row, whose discount is the old one
or the new one as the column rounds it; `ValidDiscountTyped` keeps NaN out of what
is stored.

**The tables.** Since a commit writes what a domain method made of the row
itself, what a method keeps between a row, its price record and its events, the
commit keeps between the tables.

* `RowsInv`: a row is loadable (rounding to the column keeps a percentage between
  0 and 100, which is a multiple of the column's unit: `InColumnValid`), archived
  in all columns or in none, with a price that fits. The storage limit is tested
  when the plan is made, so the invariant also says that planned prices fit.
* `HistoryInv`: records are of the past, two are never of one commit, and a plan
  that can still commit has a `changed_at` no earlier than any record of its
  product; the record of a commit then comes after all others, its old price
  that of the last. `Chained` says `PriceHistoryIsChain` with the latest record
  named, where the property chooses it.
* `OutboxInv`: events are of the past; those of the latest commit about a group
  of fields tell the row; the timestamps of a product's events are one more than
  its version. `ExecuteReported` shows that each method reports what it changed, and
  `WrittenAsReported` that the row gets it, the discount by way of `InColumn`.

* `StampInv`, for `CommandsImplementTable`: every commit left events under a
  stamp of its own and about one product, and one stamp only carries the creation
  of a product. So `created_at` is that stamp for good, and the newest when it is
  given. `CommittedListing` splits the commits over the actions of `ProductTable`:
  an update of the texts is `Recategorise`, a change of status is one of the
  three moves, a change of price or discount is no step at all. The abstract
  table has `Cardinality(Products) * (MaxVersion + 1)` stamps; that they suffice is
  a matter of counting (`OwnersTimesShare`): each commit is a version of one
  product, and clients leave a product alone at `MaxVersion`. This theorem assumes
  that the products are finitely many and that `None` is no row of the list.

**Replies.** The clients add no step to the service (`ClientsUseTheService`). Every
attempt of a client carries the same version. A commit requires the row to be at
that version and takes it to the next (`VersionsGrow`, `AppliedMovesRow`), and no
row ever goes back (`RowsMoveOn`): so once `applied` of a client has an entry, its
row is past the version its attempts carry (`RowsMovedOn`), and none of them can
commit any more. That `applied` is a sequence matters: the argument is about
the number of commits, not about the versions they make. While the
first attempt is the only one, one worker at most serves the client, so an
answer tells what that worker did: `FirstAttempt`. `WaitingIsServed` needs no
order of versions: `ReplyTypeOK` is inductive beside `CallsOK`, which tells it
with which errors a call can end.

**Pricing.** `Gcd` is a recursive function, the Euclidean algorithm; that it is
defined, and yields the greatest common divisor, is shown on sets of numbers: the
least number for which it failed would have a smaller one (`LeastNumber`, from
the well-founded `<` on Nat; `GcdExists`, `GcdIsGcd`). `Rat` therefore is in lowest
terms and never larger than what it reduces, so nothing that came in as two int64
overflows. Rounding to the nearest multiple keeps the order (`NearestMonotone`)
and keeps whole numbers, hence a percentage keeps its range 0 to 100 through both
grids (`ToNumericInRange`, `ToFloatInRange`), and an effective price its place
between nothing and the base price (`DiscountLowers`, `ToFloatMonotone`).
`PricingInv` is what a row is: positive, in lowest terms, of the value asked for,
with a discount that loads.

**Retention.** A running job holds cutoffs that are no later than now less the
retention (`CutoffsArePast`), and time only makes that stronger: what the
transaction deletes is old, whatever the processor did meanwhile. For a poller:
an event that does not match never begins to (`Fading`), so a cut at n rows
leaves out only events the client has seen, if no more than n came since. Every
limit is in `1 .. MaxLimit` (`LimitsInRange`), also the one a 32-bit conversion made
of something larger, and a query with a limit has an answer: by induction on the
limit, again through the least number, the newest row left out extends the
answer of one row less (`NewestRow`, `NewestExtends`, `NewestExist`).

**Pages.** The place of a product is the number of newer ones that match. Of the
products that matched all the time the unseen ones have places at or beyond the
offset, unless one left the filter; the seen ones that match have places before
it, unless one entered behind (`UnseenAhead`, `SeenBehind`). Creations put
products in front and only raise places; departures only lower them. While
nothing comes or goes, what the walk began with, what it has shown and what
matches now agree (`TotalInv`), so the count of another snapshot is that of the
walk.

**Migrations.** A run that finds no file sends nothing and stays out of the
argument. An operation in Spanner's queue goes on after the run that sent it is
gone, and beside those of others; so `MigrationInv` says what the queue will still
do. A run waits for one operation, whose remaining statements with the schema make
up its file (`Waiting`); a file that a run has left behind is in the schema
(`LeftBehind`); and while there has been one run only, the schema is exactly what
its files have executed so far (`FirstRun`), in which each next statement has what
it needs and finds nothing of its own.

**Shutdown.** `Stages` says what both servers are at each stage of the main
goroutine, `Quiet` which requests may still run there, with their clients still
sending or not yet reading.

Assumptions on constants (each evaluated by TLC): the requests are of the
request types, the bounds are naturals, the limits are in the order
`DefaultLimit <= MaxLimit`, 100 is a multiple of the unit of the percentage column
and NaN no integer (`PercentAssumption`), a width is even and larger than twice the maximum,
sets of rows are finite, `None` is no value of the types it is united with.

Model-checked only: all liveness (`CallsEnd`, `OldEventsGo`, `WalkEnds`,
`ShutdownEnds`, `RequestsAreAnswered`, `RunsEnd`), which rests on fairness and
ENABLED and which the prover cannot treat. The violations are TLC's, too.

## Not modelled

* Contracts (interfaces), the protocol definition and generated code, and the
  developer utilities (`check_events`, `test_events`, `test_grpc_events`), which
  print query results.
* Wording of errors and logs, JSON and proto layouts, field by field copies of
  the mappers (they leave out `archived_at` and the version), wiring and
  configuration.
* `updated_at`, which the model column replaces by the commit timestamp;
  `changed_by` and `changed_reason`; reading the price history, which no handler
  does.
* `Add` and `Divide` of `Money`, `ApplyWithReadWriteTransaction`, `Exists`,
  `DeleteMut`: nothing outside the tests calls them.
* A creation sent again: each attempt draws a new uuid, and nothing could tell
  the two requests apart. `Found` lets any number of creations happen.
* Clocks of several replicas, which may put `price_history` out of order; how
  far they differ is nowhere stated. A second server process would otherwise
  differ from more workers only by being killed on its own.
* Products with the same commit timestamp, whose order between two pages is
  open.
