------------------------------ MODULE ProductPages ------------------------------
(***************************************************************************)
(* A client that walks through ListProducts page by page, each page a call *)
(* of its own, while commands change the table.  A call runs two queries   *)
(* in two snapshots: the page, by offset, and the total.                   *)
(***************************************************************************)
EXTENDS ProductTable

CONSTANTS
  Filters,          \* the filters of the walks
  Asked,            \* the page sizes clients ask for
  DefaultPageSize, MaxPageSize

Filter == [category : Categories \cup {None}, status : Stati \cup {None}]

ASSUME PageAssumption ==
  /\ DefaultPageSize \in Nat \ {0} /\ MaxPageSize \in Nat
  /\ DefaultPageSize <= MaxPageSize
  /\ Filters \subseteq Filter /\ Asked \subseteq Int
  /\ None \notin Nat

VARIABLES
  pc,         \* the client: "idle", its call at its "page" or its "count", "done"
  filter,     \* the filter and the page size of the walk
  pageSize,
  token,      \* the page token of the call, or None
  page,       \* the products the first query found, not yet returned
  next,       \* the token that goes with them
  seen,       \* ghost: the products returned so far
  twice,      \* ghost: those that were returned again
  total,      \* the total returned last
  steady,     \* ghost: the products that have matched since the walk began
  lost,       \* ghost: a product has stopped matching since then
  gained      \* ghost: a product has begun to match since then

walk == << pc, filter, pageSize, token, page, next, seen, twice, total >>
ghosts == << steady, lost, gained >>
vars == << products, pc, filter, pageSize, token, page, next, seen, twice, total,
           steady, lost, gained >>

--------------------------------------------------------------------------------
(***************************************************************************)
(* The query builder, as far as ListProducts uses it: equality conditions, *)
(* one per column, and the limits (0 for none).  The order is that of      *)
(* Newest.                                                                 *)
(***************************************************************************)
From == [where |-> [category |-> None, status |-> None], limit |-> 0, offset |-> 0]
Where(b, column, value) == [b EXCEPT !.where[column] = value]
Limit(b, n) == [b EXCEPT !.limit = n]
Offset(b, n) == [b EXCEPT !.offset = n]

\* Mutant: the count keeps the offset.
CountOfRest(b) == [b EXCEPT !.limit = 0]

Count(b) == [b EXCEPT !.limit = 0, !.offset = 0]

Selected(b) ==
  {p \in Stored : \A column \in {"category", "status"} :
     b.where[column] # None => products[p][column] = b.where[column]}

CreatedAt == [p \in Stored |-> products[p].createdAt]

\* R is a result of the statement: OFFSET rows are skipped, LIMIT rows taken.
Result(R, b) ==
  \E skipped \in SUBSET Selected(b) :
    /\ Newest(skipped, Selected(b), b.offset, CreatedAt)
    /\ LET rest == Selected(b) \ skipped
       IN  IF b.limit > 0 THEN Newest(R, rest, b.limit, CreatedAt) ELSE R = rest

Query(f) == Where(Where(From, "category", f.category), "status", f.status)

Matching == Selected(Query(filter))

--------------------------------------------------------------------------------
\* ListProducts: the page size, and the offset of a token the client was given.
PageSize(n) ==
  IF n <= 0 THEN DefaultPageSize ELSE IF n > MaxPageSize THEN MaxPageSize ELSE n

ParsePageToken(t) == IF t = None THEN 0 ELSE t

Init ==
  /\ TableInit
  /\ pc = "idle"
  /\ filter \in Filters
  /\ pageSize = DefaultPageSize
  /\ token = None
  /\ page = {}
  /\ next = None
  /\ seen = {} /\ twice = {}
  /\ total = 0
  /\ steady = {} /\ lost = FALSE /\ gained = FALSE

StartWalk(f, n) ==
  /\ pc \in {"idle", "done"}
  /\ pc' = "page"
  /\ filter' = f
  /\ pageSize' = PageSize(n)
  /\ token' = None
  /\ page' = {} /\ next' = None
  /\ seen' = {} /\ twice' = {}
  /\ total' = 0
  /\ steady' = Selected(Query(f))
  /\ lost' = FALSE /\ gained' = FALSE
  /\ UNCHANGED products

\* Mutant: the extra row is returned, too.
FirstPageUncut(S, R) == S = R

\* products[:pageSize]
FirstPage(S, R) == Newest(S, R, pageSize, CreatedAt)

\* Mutant: the token skips the extra row.
NextTokenTooFar(R) ==
  IF Cardinality(R) > pageSize THEN ParsePageToken(token) + pageSize + 1 ELSE None

\* Mutant: the token is the one of this page.
NextTokenSame(R) ==
  IF Cardinality(R) > pageSize THEN ParsePageToken(token) ELSE None

NextToken(R) ==
  IF Cardinality(R) > pageSize THEN ParsePageToken(token) + pageSize ELSE None

\* The first query: one row more than the page tells whether another page follows.
ReadPage ==
  /\ pc = "page"
  /\ LET b == Offset(Limit(Query(filter), pageSize + 1), ParsePageToken(token))
     IN  \E R \in SUBSET Selected(b) :
           /\ Result(R, b)
           /\ \E S \in SUBSET R : FirstPage(S, R) /\ page' = S
           /\ next' = NextToken(R)
  /\ pc' = "count"
  /\ UNCHANGED << products, filter, pageSize, token, seen, twice, total, ghosts >>

\* The second query, in a later snapshot; then the reply reaches the client.
CountProducts ==
  /\ pc = "count"
  /\ \E R \in SUBSET Matching :
       /\ Result(R, Count(Offset(Limit(Query(filter), pageSize + 1), ParsePageToken(token))))
       /\ total' = Cardinality(R)
  /\ seen' = seen \cup page
  /\ twice' = twice \cup (seen \cap page)
  /\ page' = {}
  /\ next' = None
  /\ token' = next
  /\ pc' = IF next = None THEN "done" ELSE "page"
  /\ UNCHANGED << products, filter, pageSize, ghosts >>

\* The second query fails, and the page with it; the client asks again.
CountFails ==
  /\ pc = "count"
  /\ pc' = "page"
  /\ page' = {}
  /\ next' = None
  /\ UNCHANGED << products, filter, pageSize, token, seen, twice, total, ghosts >>

\* A command commits; the ghosts note what it does to the products that match.
Write(p) ==
  /\ Command(p)
  /\ UNCHANGED walk
  /\ steady' = steady \cap Matching'
  /\ lost' = (lost \/ ~(Matching \subseteq Matching'))
  /\ gained' = (gained \/ ~(Matching' \subseteq Matching))

Next ==
  \/ \E p \in Products : Write(p)
  \/ \E f \in Filters, n \in Asked : StartWalk(f, n)
  \/ ReadPage \/ CountProducts \/ CountFails

Spec == Init /\ [][Next]_vars

\* The client goes on asking and Spanner does not fail every second query.
Fairness == WF_vars(ReadPage) /\ SF_vars(CountProducts)

FairSpec == Spec /\ Fairness

--------------------------------------------------------------------------------
TypeOK ==
  /\ products \in [Products -> Row \cup {None}]
  /\ pc \in {"idle", "page", "count", "done"}
  /\ filter \in Filter
  /\ pageSize \in 1 .. MaxPageSize
  /\ token \in Nat \cup {None} /\ next \in Nat \cup {None}
  /\ page \subseteq Products
  /\ seen \subseteq Products /\ twice \subseteq Products
  /\ total \in Nat
  /\ steady \subseteq Products
  /\ lost \in BOOLEAN /\ gained \in BOOLEAN

\* Offsets lose nothing as long as no product stops matching: then a walk that is
\* done has returned every product that matched from its beginning to its end,
\* however many were created meanwhile.
NothingMissed == pc = "done" /\ ~lost => steady \subseteq seen

\* Offsets repeat nothing as long as no product begins to match: then no product
\* is returned twice, however many left meanwhile, and although a page whose
\* count failed is read again.
NothingTwice == ~gained => twice = {}

\* The total is counted in a snapshot of its own; where nothing came or went it is
\* the number of products the whole walk returned.
TotalAddsUp == pc = "done" /\ ~lost /\ ~gained => total = Cardinality(seen)

\* From some moment on no write makes a product match that did not match before.
NoMoreArrivals ==
  <>[][products' # products => Matching' \subseteq Matching]_vars

\* A walk comes to an end once no product begins to match any more, although counts
\* fail and products go on leaving: each page moves the offset, and one that the
\* table does not reach has no next page.  (The newest product is first, so a walk
\* during which each page is outrun by as many new products never ends.)
WalkEnds == NoMoreArrivals => (pc = "page" ~> pc = "done")

================================================================================
