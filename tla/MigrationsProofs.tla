---------------------------- MODULE MigrationsProofs ----------------------------
(***************************************************************************)
(* Proofs about Migrations for any number of runs, started any number of   *)
(* times and killed anywhere: a run that reports success has everything in *)
(* place, and the first run on a new database is never refused.            *)
(***************************************************************************)
EXTENDS Migrations, TLAPS

\* The statements of the files; an operation sends some of them.
Statements == UNION {{Files[f][k] : k \in DOMAIN Files[f]} : f \in DOMAIN Files}

\* What is in the queue.
Operations == [owner : Runs \cup {Nobody}, rest : Seq(Statements)]

\* What the statements create.
ObjectsOf(statements) == {statements[i].object : i \in DOMAIN statements}

\* What the statements before statement k of file f create.
Before(f, k) ==
  {x \in Objects : \E g \in DOMAIN Files : \E i \in DOMAIN Files[g] :
                     x = Files[g][i].object /\ (g < f \/ (g = f /\ i < k))}

\* The files one by one.
LEMMA FilesAre ==
  /\ DOMAIN Files = 1 .. 4 /\ Len(Files) = 4
  /\ DOMAIN Files[1] = 1 .. 6 /\ DOMAIN Files[2] = 1 .. 1
  /\ DOMAIN Files[3] = 1 .. 2 /\ DOMAIN Files[4] = {} /\ Files[4] = << >>
  /\ Files[1][1] = Statement("products", {}, TRUE)
  /\ Files[1][2] = Statement("idx_products_category_status", {"products"}, TRUE)
  /\ Files[1][3] = Statement("idx_products_status_created", {"products"}, TRUE)
  /\ Files[1][4] = Statement("outbox_events", {}, TRUE)
  /\ Files[1][5] = Statement("idx_outbox_status_created", {"outbox_events"}, TRUE)
  /\ Files[1][6] = Statement("idx_outbox_aggregate", {"outbox_events"}, TRUE)
  /\ Files[2][1] = Statement("products.version", {"products"}, FALSE)
  /\ Files[3][1] = Statement("price_history", {"products"}, FALSE)
  /\ Files[3][2] = Statement("idx_price_history_product_time", {"price_history"}, FALSE)
BY DEF Files, InitialSchema, AddVersionColumn, AddPriceHistory, AddOutboxRetention

\* A statement is one of nine.
LEMMA StatementsAre ==
  ASSUME NEW f \in DOMAIN Files, NEW k \in DOMAIN Files[f]
  PROVE  \/ f = 1 /\ k = 1 /\ Files[f][k] = Statement("products", {}, TRUE)
         \/ f = 1 /\ k = 2 /\ Files[f][k] = Statement("idx_products_category_status", {"products"}, TRUE)
         \/ f = 1 /\ k = 3 /\ Files[f][k] = Statement("idx_products_status_created", {"products"}, TRUE)
         \/ f = 1 /\ k = 4 /\ Files[f][k] = Statement("outbox_events", {}, TRUE)
         \/ f = 1 /\ k = 5 /\ Files[f][k] = Statement("idx_outbox_status_created", {"outbox_events"}, TRUE)
         \/ f = 1 /\ k = 6 /\ Files[f][k] = Statement("idx_outbox_aggregate", {"outbox_events"}, TRUE)
         \/ f = 2 /\ k = 1 /\ Files[f][k] = Statement("products.version", {"products"}, FALSE)
         \/ f = 3 /\ k = 1 /\ Files[f][k] = Statement("price_history", {"products"}, FALSE)
         \/ f = 3 /\ k = 2 /\ Files[f][k] = Statement("idx_price_history_product_time", {"price_history"}, FALSE)
<1>1. f = 1 \/ f = 2 \/ f = 3 \/ f = 4
  BY FilesAre
<1>2. CASE f = 1
  <2>1. k \in 1 .. 6
    BY <1>2, FilesAre
  <2>2. k = 1 \/ k = 2 \/ k = 3 \/ k = 4 \/ k = 5 \/ k = 6
    BY <2>1
  <2> QED
    BY <1>2, <2>2, FilesAre
<1>3. CASE f = 2
  <2>1. k \in 1 .. 1
    BY <1>3, FilesAre
  <2>2. k = 1
    BY <2>1
  <2> QED
    BY <1>3, <2>2, FilesAre
<1>4. CASE f = 3
  <2>1. k \in 1 .. 2
    BY <1>4, FilesAre
  <2>2. k = 1 \/ k = 2
    BY <2>1
  <2> QED
    BY <1>4, <2>2, FilesAre
<1>5. CASE f = 4
  BY <1>5, FilesAre
<1> QED
  BY <1>1, <1>2, <1>3, <1>4, <1>5

\* How many there are.
LEMMA Counts ==
  ASSUME NEW f \in DOMAIN Files, NEW k \in DOMAIN Files[f]
  PROVE  f \in 1 .. 4 /\ k \in 1 .. 6
<1>1. f = 1 \/ f = 2 \/ f = 3 \/ f = 4
  BY FilesAre
<1> QED
  BY <1>1, FilesAre

\* Every file is a sequence of statements that create objects of the schema.
LEMMA FilesTyped ==
  \A f \in DOMAIN Files : /\ Files[f] \in Seq(Statements)
                          /\ ObjectsOf(Files[f]) \subseteq Objects
<1> SUFFICES ASSUME NEW f \in DOMAIN Files
             PROVE  Files[f] \in Seq(Statements) /\ ObjectsOf(Files[f]) \subseteq Objects
  OBVIOUS
<1>1. \A k \in DOMAIN Files[f] : Files[f][k].object \in Objects
  BY DEF Objects
<1>2. \A k \in DOMAIN Files[f] : Files[f][k] \in Statements
  BY DEF Statements
<1>3. Files[f] \in Seq(Statements)
  <2>1. PICK s : s = Files[f]
    OBVIOUS
  <2>2. \/ DOMAIN s = 1 .. 6 /\ s = << s[1], s[2], s[3], s[4], s[5], s[6] >>
        \/ DOMAIN s = 1 .. 1 /\ s = << s[1] >>
        \/ DOMAIN s = 1 .. 2 /\ s = << s[1], s[2] >>
        \/ s = << >>
    BY <2>1, FilesAre DEF Files, InitialSchema, AddVersionColumn, AddPriceHistory, AddOutboxRetention
  <2>3. \A k \in DOMAIN s : s[k] \in Statements
    BY <1>2, <2>1
  <2>4. s \in Seq(Statements)
    <3>1. CASE s = << >>
      BY <3>1
    <3>2. CASE DOMAIN s = 1 .. 1 /\ s = << s[1] >>
      <4>1. s[1] \in Statements
        BY <2>3, <3>2
      <4>2. << s[1] >> \in Seq(Statements)
        BY <4>1
      <4> QED
        BY <3>2, <4>2
    <3> QED
      BY <2>2, <2>3, <3>1, <3>2
  <2> QED
    BY <2>1, <2>4
<1> QED
  BY <1>1, <1>3 DEF ObjectsOf

\* No object is created twice, and what a statement needs is created before it.
LEMMA FilesFit ==
  ASSUME NEW f \in DOMAIN Files, NEW k \in DOMAIN Files[f]
  PROVE  Files[f][k].needs \subseteq Before(f, k) /\ Files[f][k].object \notin Before(f, k)
<1>1. ASSUME NEW g \in DOMAIN Files, NEW i \in DOMAIN Files[g],
             Files[g][i].object = Files[f][k].object
      PROVE  g = f /\ i = k
  BY <1>1, StatementsAre DEF Statement
<1>2. f \in 1 .. 4 /\ k \in 1 .. 6
  BY Counts
<1>3. Files[f][k].object \notin Before(f, k)
  BY <1>1, <1>2 DEF Before
<1>4. ASSUME NEW x \in Files[f][k].needs
      PROVE  x \in Before(f, k)
  <2>1. /\ x = "products" => f > 1 \/ k > 1
        /\ x = "outbox_events" => f = 1 /\ k > 4
        /\ x = "price_history" => f = 3 /\ k > 1
        /\ x \in {"products", "outbox_events", "price_history"}
    BY StatementsAre DEF Statement
  <2>2. /\ Files[1][1].object = "products" /\ Files[1][4].object = "outbox_events"
        /\ Files[3][1].object = "price_history"
        /\ 1 \in DOMAIN Files /\ 3 \in DOMAIN Files
        /\ 1 \in DOMAIN Files[1] /\ 4 \in DOMAIN Files[1] /\ 1 \in DOMAIN Files[3]
    BY FilesAre DEF Statement
  <2>3. \E g \in DOMAIN Files : \E i \in DOMAIN Files[g] :
          x = Files[g][i].object /\ (g < f \/ (g = f /\ i < k))
    BY <1>2, <2>1, <2>2
  <2> QED
    BY <2>3 DEF Before, Objects
<1> QED
  BY <1>3, <1>4

\* One statement further.
LEMMA BeforeNext ==
  ASSUME NEW f \in DOMAIN Files, NEW k \in DOMAIN Files[f]
  PROVE  Before(f, k + 1) = Before(f, k) \cup {Files[f][k].object}
<1>1. f \in 1 .. 4 /\ k \in 1 .. 6 /\ DOMAIN Files = 1 .. 4
  BY StatementsAre, FilesAre
<1>2. \A g \in DOMAIN Files : \A i \in DOMAIN Files[g] : i \in 1 .. 6
  BY Counts
<1>3. Files[f][k].object \in Objects
  BY DEF Objects
<1> QED
  BY <1>1, <1>2, <1>3 DEF Before

\* The end of a file is the beginning of the next.
LEMMA BeforeNextFile ==
  ASSUME NEW f \in DOMAIN Files
  PROVE  Before(f + 1, 1) = Before(f, Len(Files[f]) + 1)
<1>1. f \in 1 .. 4 /\ DOMAIN Files = 1 .. 4
  BY FilesAre
<1>2. Files[f] \in Seq(Statements)
  BY FilesTyped
<1>3. \A g \in DOMAIN Files : \A i \in DOMAIN Files[g] : i \in 1 .. 6
  BY Counts
<1> QED
  BY <1>1, <1>2, <1>3 DEF Before

\* Nothing comes first.
LEMMA BeforeFirst == Before(1, 1) = {}
<1>1. DOMAIN Files = 1 .. 4
  BY FilesAre
<1>2. \A g \in DOMAIN Files : \A i \in DOMAIN Files[g] : i \in 1 .. 6
  BY Counts
<1> QED
  BY <1>1, <1>2 DEF Before

\* A sequence of statements, its first one and the others.
LEMMA FirstStatement ==
  ASSUME NEW rest \in Seq(Statements), rest # << >>
  PROVE  /\ Head(rest) = rest[1] /\ Head(rest).object \in Objects
         /\ Tail(rest) \in Seq(Statements) /\ Len(Tail(rest)) = Len(rest) - 1
         /\ \A i \in 1 .. Len(rest) - 1 : Tail(rest)[i] = rest[i + 1]
         /\ Len(rest) \in Nat \ {0} /\ DOMAIN rest = 1 .. Len(rest)
         /\ ObjectsOf(rest) = {Head(rest).object} \cup ObjectsOf(Tail(rest))
         /\ Len(rest) = 1 => ObjectsOf(rest) = {Head(rest).object}
         /\ Len(rest) # 1 => Tail(rest) # << >>
<1>1. /\ Head(rest) = rest[1] /\ Tail(rest) \in Seq(Statements) /\ Len(Tail(rest)) = Len(rest) - 1
      /\ \A i \in 1 .. Len(rest) - 1 : Tail(rest)[i] = rest[i + 1]
      /\ Len(rest) \in Nat \ {0} /\ DOMAIN rest = 1 .. Len(rest)
      /\ DOMAIN Tail(rest) = 1 .. Len(rest) - 1
  OBVIOUS
<1>2. Head(rest).object \in Objects
  BY <1>1 DEF Statements, Objects
<1>3. ObjectsOf(rest) = {Head(rest).object} \cup ObjectsOf(Tail(rest))
  <2>1. ASSUME NEW i \in DOMAIN rest
        PROVE  rest[i].object \in {Head(rest).object} \cup ObjectsOf(Tail(rest))
    <3>1. CASE i = 1
      BY <1>1, <3>1
    <3>2. CASE i # 1
      <4>1. i - 1 \in DOMAIN Tail(rest) /\ rest[i] = Tail(rest)[i - 1]
        BY <1>1, <3>2
      <4> QED
        BY <4>1 DEF ObjectsOf
    <3> QED
      BY <3>1, <3>2
  <2>2. ASSUME NEW i \in DOMAIN Tail(rest)
        PROVE  i + 1 \in DOMAIN rest /\ Tail(rest)[i] = rest[i + 1]
    BY <1>1
  <2>3. 1 \in DOMAIN rest
    BY <1>1
  <2> QED
    BY <1>1, <2>1, <2>2, <2>3 DEF ObjectsOf
<1>4. Len(rest) = 1 => ObjectsOf(rest) = {Head(rest).object}
  BY <1>1 DEF ObjectsOf
<1> QED
  BY <1>1, <1>2, <1>3, <1>4

--------------------------------------------------------------------------------
\* What a run that has not ended is at.
Active == {"instance", "database", "createDatabase", "awaitDatabase", "files", "awaitFile"}

\* The run waits for an operation that brings its file to its end.
Waits(r, op) ==
  /\ pc[r] = "awaitFile" /\ file[r] \in DOMAIN Files
  /\ ObjectsOf(Files[file[r]]) \subseteq schema \cup ObjectsOf(op.rest)

\* A run whose operation is under way is waiting for it, and for no other.
Waiting ==
  \A i \in DOMAIN queue : queue[i].owner \in Runs =>
    /\ Waits(queue[i].owner, queue[i])
    /\ \A j \in DOMAIN queue : queue[j].owner = queue[i].owner => j = i

\* A file that a run has left behind is in the schema, all of it.
LeftBehind ==
  /\ \A r \in Runs : \A f \in DOMAIN Files : f < file[r] => ObjectsOf(Files[f]) \subseteq schema
  /\ \A r \in Runs : pc[r] = "done" => file[r] > Len(Files)

\* What the operation has left is the end of file f, and the schema is what comes before.
Halfway(f, op) ==
  \E k \in DOMAIN Files[f] :
    /\ k + Len(op.rest) = Len(Files[f]) + 1
    /\ \A i \in 1 .. Len(op.rest) : op.rest[i] = Files[f][k + i - 1]
    /\ schema = Before(f, k)

\* The only run so far has left exactly the statements behind that it has sent.
Exact(r) ==
  IF pc[r] = "awaitFile"
  THEN Len(queue) = 1 /\ queue[1].owner = r /\ file[r] \in DOMAIN Files /\ Halfway(file[r], queue[1])
  ELSE queue = << >> /\ schema = Before(file[r], 1)

\* Before the first run there is nothing; while it is the only one, the schema is what it
\* has sent.
FirstRun ==
  /\ starts = 0 => queue = << >> /\ schema = {} /\ \A r \in Runs : pc[r] = "idle"
  /\ starts = 1 => \A r \in Runs :
       /\ pc[r] # "refused"
       /\ pc[r] \in Active => Exact(r) /\ \A q \in Runs \ {r} : pc[q] \in Ended

\* The inductive invariant.
MigrationInv == TypeOK /\ queue \in Seq(Operations) /\ Waiting /\ LeftBehind /\ FirstRun

\* A run is active or has ended.
LEMMA PcTyped ==
  ASSUME TypeOK
  PROVE  pc \in [Runs -> Ended \cup Active] /\ Ended \cap Active = {}
BY DEF TypeOK, Ended, Active

\* A new database, no run.
LEMMA InitInv == Init => MigrationInv
<1> SUFFICES ASSUME Init PROVE MigrationInv
  OBVIOUS
<1>1. Len(Files) = 4 /\ DOMAIN Files = 1 .. 4
  BY FilesAre
<1>2. TypeOK
  BY <1>1, RunsAssumption DEF Init, TypeOK, Ended
<1>3. queue \in Seq(Operations) /\ Waiting
  BY DEF Init, Waiting
<1>4. LeftBehind
  BY <1>1 DEF Init, LeftBehind
<1> QED
  BY <1>2, <1>3, <1>4 DEF MigrationInv, FirstRun, Init

\* A run moves on, or ends, without touching what Spanner holds.
LEMMA MoveKeepsInv ==
  ASSUME MigrationInv, NEW r \in Runs, NEW from \in Active \ {"awaitFile"},
         NEW to \in (Active \ {"awaitFile"}) \cup {"failed", "nothing"},
         Go(r, from, to), instance' \in BOOLEAN, database' \in {"none", "creating", "ready"},
         UNCHANGED << schema, queue, file, starts >>
  PROVE  MigrationInv'
<1>1. pc \in [Runs -> Ended \cup Active] /\ {"failed", "nothing"} \subseteq Ended /\ Ended \cap Active = {}
      /\ from \in Active /\ from # "awaitFile" /\ to \in Ended \cup Active /\ to # "awaitFile"
      /\ to # "done" /\ to # "refused"
  BY PcTyped DEF MigrationInv, Ended, Active
<1>2. /\ pc' \in [Runs -> Ended \cup Active] /\ pc'[r] = to /\ pc[r] = from
      /\ \A q \in Runs : q # r => pc'[q] = pc[q]
  BY <1>1 DEF Go
<1>3. TypeOK'
  BY <1>2 DEF MigrationInv, TypeOK, Active
<1>4. Waiting'
  BY <1>1, <1>2 DEF MigrationInv, Waiting, Waits
<1>5. LeftBehind'
  BY <1>1, <1>2 DEF MigrationInv, LeftBehind
<1>6. FirstRun'
  <2>1. starts # 0
    BY <1>1, <1>2 DEF MigrationInv, FirstRun, Ended
  <2>2. ASSUME starts = 1
        PROVE  \A q \in Runs : /\ pc'[q] # "refused"
                               /\ pc'[q] \in Active => Exact(q)' /\ \A p \in Runs \ {q} : pc'[p] \in Ended
    <3>1. Exact(r) /\ (\A q \in Runs \ {r} : pc[q] \in Ended) /\ \A q \in Runs : pc[q] # "refused"
      BY <1>1, <1>2, <2>2 DEF MigrationInv, FirstRun
    <3>2. Exact(r)'
      BY <1>1, <1>2, <3>1 DEF Exact
    <3> QED
      BY <1>1, <1>2, <3>1, <3>2
  <2> QED
    BY <2>1, <2>2 DEF FirstRun
<1> QED
  BY <1>3, <1>4, <1>5, <1>6 DEF MigrationInv

\* A new run begins with the first file.
LEMMA StartKeepsInv ==
  ASSUME MigrationInv, NEW r \in Runs, Start(r)
  PROVE  MigrationInv'
<1>1. /\ pc \in [Runs -> Ended \cup Active] /\ Ended \cap Active = {} /\ "instance" \in Active
      /\ "awaitFile" \in Active /\ "done" \in Ended /\ "refused" \in Ended /\ "idle" \in Ended
  BY PcTyped DEF MigrationInv, Ended, Active
<1>2. /\ pc' \in [Runs -> Ended \cup Active] /\ pc'[r] = "instance" /\ pc[r] \in Ended
      /\ \A q \in Runs : q # r => pc'[q] = pc[q]
  BY <1>1 DEF Start
<1>3. /\ file \in [Runs -> 1 .. Len(Files) + 1] /\ starts \in 0 .. MaxStarts
  BY DEF MigrationInv, TypeOK
<1>4. /\ file' \in [Runs -> 1 .. Len(Files) + 1] /\ file'[r] = 1
      /\ \A q \in Runs : q # r => file'[q] = file[q]
      /\ starts' = starts + 1 /\ starts' \in 0 .. MaxStarts
      /\ queue' = queue /\ schema' = schema
  <2>1. 1 \in 1 .. Len(Files) + 1
    BY FilesAre
  <2> QED
    BY <1>3, <2>1, RunsAssumption DEF Start
<1>5. TypeOK'
  BY <1>2, <1>4 DEF MigrationInv, TypeOK, Active, Start
<1>6. Waiting'
  <2>1. ASSUME NEW i \in DOMAIN queue, queue[i].owner \in Runs
        PROVE  queue[i].owner # r
    BY <1>1, <1>2, <2>1 DEF MigrationInv, Waiting, Waits
  <2> QED
    BY <1>1, <1>2, <1>4, <2>1 DEF MigrationInv, Waiting, Waits
<1>7. LeftBehind'
  BY <1>1, <1>2, <1>4, FilesAre DEF MigrationInv, LeftBehind
<1>8. FirstRun'
  <2>1. starts' # 0
    BY <1>3, <1>4
  <2>2. ASSUME starts' = 1
        PROVE  \A q \in Runs : /\ pc'[q] # "refused"
                               /\ pc'[q] \in Active => Exact(q)' /\ \A p \in Runs \ {q} : pc'[p] \in Ended
    <3>1. queue = << >> /\ schema = {} /\ \A q \in Runs : pc[q] = "idle"
      BY <1>3, <1>4, <2>2 DEF MigrationInv, FirstRun
    <3>2. Exact(r)'
      BY <1>2, <1>4, <3>1, BeforeFirst DEF Exact
    <3> QED
      BY <1>1, <1>2, <3>1, <3>2
  <2> QED
    BY <2>1, <2>2 DEF FirstRun
<1> QED
  BY <1>4, <1>5, <1>6, <1>7, <1>8 DEF MigrationInv

\* A file without statements leaves nothing behind; after the last file a run is done.
LEMMA SkipFileKeepsInv ==
  ASSUME MigrationInv, NEW r \in Runs, SkipFile(r)
  PROVE  MigrationInv'
<1>1. /\ pc \in [Runs -> Ended \cup Active] /\ Ended \cap Active = {} /\ "files" \in Active
      /\ "awaitFile" \in Active /\ "done" \in Ended
      /\ file \in [Runs -> 1 .. Len(Files) + 1] /\ pc[r] = "files"
      /\ UNCHANGED << instance, database, schema, queue, starts >>
  BY PcTyped DEF MigrationInv, TypeOK, Ended, Active, SkipFile, Go
<1>2. Len(Files) = 4 /\ DOMAIN Files = 1 .. 4
  BY FilesAre
<1>3. CASE file[r] > Len(Files)
  <2>1. /\ pc' \in [Runs -> Ended \cup Active] /\ pc'[r] = "done" /\ file' = file
        /\ \A q \in Runs : q # r => pc'[q] = pc[q]
    BY <1>1, <1>3 DEF SkipFile, Go
  <2>2. TypeOK'
    BY <1>1, <2>1 DEF MigrationInv, TypeOK, Active
  <2>3. Waiting'
    BY <1>1, <2>1 DEF MigrationInv, Waiting, Waits
  <2>4. LeftBehind'
    BY <1>1, <1>3, <2>1 DEF MigrationInv, LeftBehind
  <2>5. FirstRun'
    BY <1>1, <2>1 DEF MigrationInv, FirstRun
  <2> QED
    BY <1>1, <2>2, <2>3, <2>4, <2>5 DEF MigrationInv
<1>4. CASE ~(file[r] > Len(Files))
  <2>1. /\ file[r] \in DOMAIN Files /\ Files[file[r]] = << >> /\ pc' = pc
        /\ file' \in [Runs -> 1 .. Len(Files) + 1] /\ file'[r] = file[r] + 1
        /\ \A q \in Runs : q # r => file'[q] = file[q]
    BY <1>1, <1>2, <1>4 DEF SkipFile
  <2>2. TypeOK'
    BY <1>1, <2>1 DEF MigrationInv, TypeOK
  <2>3. Waiting'
    BY <1>1, <2>1 DEF MigrationInv, Waiting, Waits
  <2>4. ObjectsOf(Files[file[r]]) = {}
    BY <2>1 DEF ObjectsOf
  <2>5. LeftBehind'
    <3>1. ASSUME NEW q \in Runs, NEW f \in DOMAIN Files, f < file'[q]
          PROVE  ObjectsOf(Files[f]) \subseteq schema
      <4>1. f < file[q] => ObjectsOf(Files[f]) \subseteq schema
        BY DEF MigrationInv, LeftBehind
      <4>2. CASE q = r
        <5>1. f < file[r] \/ f = file[r]
          BY <1>1, <1>2, <2>1, <3>1, <4>2
        <5> QED
          BY <2>4, <4>1, <4>2, <5>1
      <4>3. CASE q # r
        BY <2>1, <3>1, <4>1, <4>3
      <4> QED
        BY <4>2, <4>3
    <3>2. ASSUME NEW q \in Runs, pc'[q] = "done" PROVE file'[q] > Len(Files)
      <4>1. pc[q] = "done" /\ q # r
        BY <1>1, <2>1, <3>2
      <4> QED
        BY <2>1, <4>1 DEF MigrationInv, LeftBehind
    <3> QED
      BY <1>1, <3>1, <3>2 DEF LeftBehind
  <2>6. FirstRun'
    <3>1. starts # 0
      BY <1>1 DEF MigrationInv, FirstRun
    <3>2. ASSUME starts = 1
          PROVE  \A q \in Runs : /\ pc'[q] # "refused"
                                 /\ pc'[q] \in Active => Exact(q)' /\ \A p \in Runs \ {q} : pc'[p] \in Ended
      <4>1. Exact(r) /\ (\A q \in Runs \ {r} : pc[q] \in Ended) /\ \A q \in Runs : pc[q] # "refused"
        BY <1>1, <3>2 DEF MigrationInv, FirstRun
      <4>2. Before(file[r] + 1, 1) = Before(file[r], 1)
        <5>1. Len(Files[file[r]]) + 1 = 1
          BY <2>1
        <5> QED
          BY <2>1, <5>1, BeforeNextFile
      <4>3. Exact(r)'
        BY <1>1, <2>1, <4>1, <4>2 DEF Exact
      <4> QED
        BY <1>1, <2>1, <4>1, <4>3
    <3> QED
      BY <1>1, <3>1, <3>2 DEF FirstRun
  <2> QED
    BY <1>1, <2>2, <2>3, <2>5, <2>6 DEF MigrationInv
<1> QED
  BY <1>3, <1>4

\* A run sends the statements of its file and waits for them.
LEMMA ApplyFileKeepsInv ==
  ASSUME MigrationInv, NEW r \in Runs, ApplyFile(r), database = "ready"
  PROVE  MigrationInv'
<1> PICK op : op = [owner |-> r, rest |-> Files[file[r]]]
  OBVIOUS
<1>1. /\ pc \in [Runs -> Ended \cup Active] /\ Ended \cap Active = {} /\ "files" \in Active
      /\ "awaitFile" \in Active /\ "done" \in Ended
      /\ file \in [Runs -> 1 .. Len(Files) + 1] /\ pc[r] = "files" /\ queue \in Seq(Operations)
      /\ UNCHANGED << instance, database, schema, file, starts >>
  BY PcTyped DEF MigrationInv, TypeOK, Ended, Active, ApplyFile, Go
<1>2. Len(Files) = 4 /\ DOMAIN Files = 1 .. 4
  BY FilesAre
<1>3. /\ pc' \in [Runs -> Ended \cup Active] /\ pc'[r] = "awaitFile"
      /\ \A q \in Runs : q # r => pc'[q] = pc[q]
      /\ file[r] \in DOMAIN Files /\ Files[file[r]] # << >> /\ queue' = Append(queue, op)
  BY <1>1, <1>2 DEF ApplyFile, Go
<1>4. op \in Operations /\ op.owner = r /\ op.rest = Files[file[r]] /\ Files[file[r]] \in Seq(Statements)
  BY <1>3, FilesTyped DEF Operations
<1>5. /\ queue' \in Seq(Operations) /\ Len(queue') = Len(queue) + 1 /\ queue'[Len(queue) + 1] = op
      /\ \A i \in 1 .. Len(queue) : queue'[i] = queue[i]
      /\ DOMAIN queue = 1 .. Len(queue) /\ DOMAIN queue' = 1 .. Len(queue) + 1 /\ Len(queue) \in Nat
  BY <1>1, <1>3, <1>4
<1>6. \A i \in DOMAIN queue' : queue'[i] = op \/ (i \in DOMAIN queue /\ queue'[i] = queue[i])
  BY <1>5
<1>7. TypeOK'
  <2>1. \A i \in DOMAIN queue' : queue'[i].owner \in Runs \cup {Nobody} /\ queue'[i].rest # << >>
    BY <1>3, <1>4, <1>6 DEF MigrationInv, TypeOK
  <2> QED
    BY <1>1, <1>3, <2>1 DEF MigrationInv, TypeOK, Active
<1>8. Waiting'
  <2>1. \A i \in DOMAIN queue : queue[i].owner # r
    BY <1>1 DEF MigrationInv, Waiting, Waits
  <2>2. Waits(r, op)'
    BY <1>1, <1>3, <1>4 DEF Waits
  <2>3. ASSUME NEW i \in DOMAIN queue', queue'[i].owner \in Runs
        PROVE  /\ Waits(queue[i].owner, queue[i])'
               /\ \A j \in DOMAIN queue' : queue'[j].owner = queue'[i].owner => j = i
    <3>1. CASE i = Len(queue) + 1
      BY <1>4, <1>5, <2>1, <2>2, <3>1
    <3>2. CASE i \in DOMAIN queue
      <4>1. queue'[i] = queue[i] /\ queue[i].owner \in Runs \ {r}
        BY <1>5, <2>1, <2>3, <3>2
      <4>2. Waits(queue[i].owner, queue[i]) /\ \A j \in DOMAIN queue : queue[j].owner = queue[i].owner => j = i
        BY <3>2, <4>1 DEF MigrationInv, Waiting
      <4>3. Waits(queue[i].owner, queue[i])'
        BY <1>1, <1>3, <4>1, <4>2 DEF Waits
      <4> QED
        BY <1>4, <1>5, <4>1, <4>2, <4>3
    <3> QED
      BY <1>5, <3>1, <3>2
  <2> QED
    BY <2>3 DEF Waiting
<1>9. LeftBehind'
  BY <1>1, <1>3 DEF MigrationInv, LeftBehind
<1>10. FirstRun'
  <2>1. starts # 0
    BY <1>1 DEF MigrationInv, FirstRun
  <2>2. ASSUME starts = 1
        PROVE  \A q \in Runs : /\ pc'[q] # "refused"
                               /\ pc'[q] \in Active => Exact(q)' /\ \A p \in Runs \ {q} : pc'[p] \in Ended
    <3>1. Exact(r) /\ (\A q \in Runs \ {r} : pc[q] \in Ended) /\ \A q \in Runs : pc[q] # "refused"
      BY <1>1, <2>2 DEF MigrationInv, FirstRun
    <3>2. queue = << >> /\ schema = Before(file[r], 1)
      BY <1>1, <3>1 DEF Exact
    <3>3. Len(queue') = 1 /\ queue'[1] = op
      BY <1>5, <3>2
    <3>4. 1 \in DOMAIN Files[file[r]] /\ Len(Files[file[r]]) \in Nat
      BY <1>3, <1>4
    <3>5. Halfway(file[r], op)
      BY <1>4, <3>2, <3>4 DEF Halfway
    <3>6. Halfway(file[r], op)'
      BY <1>1, <1>4, <3>5 DEF Halfway
    <3>7. Exact(r)'
      BY <1>1, <1>3, <1>4, <3>3, <3>6 DEF Exact
    <3> QED
      BY <1>1, <1>3, <3>1, <3>7
  <2> QED
    BY <1>1, <2>1, <2>2 DEF FirstRun
<1> QED
  BY <1>5, <1>7, <1>8, <1>9, <1>10 DEF MigrationInv

\* A run ends while its operation goes on.
LEMMA DisownKeepsInv ==
  ASSUME MigrationInv, NEW r \in Runs, pc[r] \in Active, NEW to \in {"failed", "idle"},
         pc' = [pc EXCEPT ![r] = to],
         queue' = [i \in DOMAIN queue |->
           IF queue[i].owner = r THEN [queue[i] EXCEPT !.owner = Nobody] ELSE queue[i]],
         UNCHANGED << instance, database, schema, file, starts >>
  PROVE  MigrationInv'
<1>1. /\ pc \in [Runs -> Ended \cup Active] /\ Ended \cap Active = {} /\ to \in Ended
      /\ "awaitFile" \in Active /\ "idle" \in Ended /\ to # "done" /\ to # "refused"
      /\ queue \in Seq(Operations) /\ Nobody \notin Runs
  BY PcTyped, RunsAssumption DEF MigrationInv, Ended, Active
<1>2. /\ pc' \in [Runs -> Ended \cup Active] /\ pc'[r] = to
      /\ \A q \in Runs : q # r => pc'[q] = pc[q]
  BY <1>1
<1>3. \A i \in DOMAIN queue : queue[i] \in Operations
  BY <1>1
<1>4. /\ DOMAIN queue' = DOMAIN queue /\ queue' \in Seq(Operations)
      /\ \A i \in DOMAIN queue : /\ queue'[i].rest = queue[i].rest
                                 /\ queue'[i].owner = IF queue[i].owner = r THEN Nobody ELSE queue[i].owner
  <2>1. ASSUME NEW i \in DOMAIN queue
        PROVE  /\ queue'[i] \in Operations /\ queue'[i].rest = queue[i].rest
               /\ queue'[i].owner = IF queue[i].owner = r THEN Nobody ELSE queue[i].owner
    BY <1>3, <2>1 DEF Operations
  <2>2. DOMAIN queue' = DOMAIN queue /\ DOMAIN queue = 1 .. Len(queue) /\ Len(queue) \in Nat
    BY <1>1
  <2>3. queue' = [i \in 1 .. Len(queue) |-> queue'[i]]
    BY <2>2
  <2> QED
    BY <2>1, <2>2, <2>3
<1>5. TypeOK'
  <2>1. \A i \in DOMAIN queue' : queue'[i].owner \in Runs \cup {Nobody} /\ queue'[i].rest # << >>
    BY <1>4 DEF MigrationInv, TypeOK
  <2> QED
    BY <1>2, <2>1 DEF MigrationInv, TypeOK, Active
<1>6. Waiting'
  <2>1. ASSUME NEW i \in DOMAIN queue, queue'[i].owner \in Runs
        PROVE  queue'[i].owner = queue[i].owner /\ queue[i].owner # r
    BY <1>1, <1>4, <2>1
  <2> QED
    BY <1>1, <1>2, <1>4, <2>1 DEF MigrationInv, Waiting, Waits
<1>7. LeftBehind'
  BY <1>1, <1>2 DEF MigrationInv, LeftBehind
<1>8. FirstRun'
  <2>1. starts # 0
    BY <1>1 DEF MigrationInv, FirstRun
  <2>2. ASSUME starts = 1
        PROVE  \A q \in Runs : pc'[q] # "refused" /\ pc'[q] \notin Active
    BY <1>1, <1>2, <2>2 DEF MigrationInv, FirstRun
  <2> QED
    BY <2>1, <2>2 DEF FirstRun
<1> QED
  BY <1>4, <1>5, <1>6, <1>7, <1>8 DEF MigrationInv

\* Spanner refuses the next statement, carries it out as the last one, or goes on.
LEMMA ExecuteKeepsInv ==
  ASSUME MigrationInv, ExecuteStatement
  PROVE  MigrationInv'
<1> PICK op : op = Head(queue)
  OBVIOUS
<1> PICK s : s = Head(op.rest)
  OBVIOUS
<1>1. /\ pc \in [Runs -> Ended \cup Active] /\ Ended \cap Active = {}
      /\ "awaitFile" \in Active /\ "files" \in Active /\ "refused" \in Ended /\ "done" \in Ended
      /\ file \in [Runs -> 1 .. Len(Files) + 1] /\ queue \in Seq(Operations) /\ Nobody \notin Runs
      /\ queue # << >> /\ UNCHANGED << instance, database, starts >>
  BY PcTyped, RunsAssumption DEF MigrationInv, TypeOK, Ended, Active, ExecuteStatement
<1>2. Len(Files) = 4 /\ DOMAIN Files = 1 .. 4
  BY FilesAre
<1>3. /\ op = queue[1] /\ op \in Operations /\ 1 \in DOMAIN queue /\ DOMAIN queue = 1 .. Len(queue)
      /\ Len(queue) \in Nat /\ Tail(queue) \in Seq(Operations)
      /\ DOMAIN Tail(queue) = 1 .. Len(queue) - 1 /\ Len(Tail(queue)) = Len(queue) - 1
      /\ \A i \in DOMAIN Tail(queue) : Tail(queue)[i] = queue[i + 1] /\ i + 1 \in DOMAIN queue
  BY <1>1
<1>4. /\ op.rest \in Seq(Statements) /\ op.rest # << >> /\ op.owner \in Runs \cup {Nobody}
  BY <1>3 DEF MigrationInv, TypeOK, Operations
<1>5. /\ s.object \in Objects /\ Tail(op.rest) \in Seq(Statements)
      /\ s = op.rest[1] /\ Len(Tail(op.rest)) = Len(op.rest) - 1 /\ Len(op.rest) \in Nat \ {0}
      /\ \A i \in 1 .. Len(op.rest) - 1 : Tail(op.rest)[i] = op.rest[i + 1]
      /\ ObjectsOf(op.rest) = {s.object} \cup ObjectsOf(Tail(op.rest))
      /\ Len(op.rest) = 1 => ObjectsOf(op.rest) = {s.object}
      /\ Len(op.rest) # 1 => Tail(op.rest) # << >>
  BY <1>4, FirstStatement
<1>6. ASSUME op.owner \in Runs
      PROVE  /\ pc[op.owner] = "awaitFile" /\ file[op.owner] \in DOMAIN Files
             /\ ObjectsOf(Files[file[op.owner]]) \subseteq schema \cup ObjectsOf(op.rest)
             /\ \A i \in DOMAIN queue : queue[i].owner = op.owner => i = 1
  BY <1>3, <1>6 DEF MigrationInv, Waiting, Waits
\* The others that wait are not told anything.
<1>7. ASSUME queue' = Tail(queue), schema \subseteq schema',
             \A q \in Runs : q # op.owner => pc'[q] = pc[q] /\ file'[q] = file[q]
      PROVE  /\ queue' \in Seq(Operations) /\ Waiting'
             /\ \A i \in DOMAIN queue' : queue'[i].owner \in Runs \cup {Nobody} /\ queue'[i].rest # << >>
  <2>1. ASSUME NEW i \in DOMAIN queue', queue'[i].owner \in Runs
        PROVE  /\ pc'[queue'[i].owner] = "awaitFile" /\ file'[queue'[i].owner] \in DOMAIN Files
               /\ ObjectsOf(Files[file'[queue'[i].owner]]) \subseteq schema' \cup ObjectsOf(queue'[i].rest)
               /\ \A j \in DOMAIN queue' : queue'[j].owner = queue'[i].owner => j = i
    <3>1. queue'[i] = queue[i + 1] /\ i + 1 \in DOMAIN queue /\ i \in Int /\ i + 1 # 1
      BY <1>3, <1>7
    <3>2. /\ Waits(queue[i + 1].owner, queue[i + 1])
          /\ \A j \in DOMAIN queue : queue[j].owner = queue[i + 1].owner => j = i + 1
      BY <2>1, <3>1 DEF MigrationInv, Waiting
    <3>3. queue[i + 1].owner # op.owner
      BY <1>3, <3>1, <3>2
    <3>4. PICK o : o = queue[i + 1]
      OBVIOUS
    <3>5. /\ pc'[o.owner] = pc[o.owner] /\ file'[o.owner] = file[o.owner]
      BY <1>7, <2>1, <3>1, <3>3, <3>4
    <3>6. /\ pc'[o.owner] = "awaitFile" /\ file'[o.owner] \in DOMAIN Files
          /\ ObjectsOf(Files[file'[o.owner]]) \subseteq schema' \cup ObjectsOf(o.rest)
      BY <1>7, <3>2, <3>4, <3>5 DEF Waits
    <3>7. queue'[i] = o
      BY <3>1, <3>4
    <3>8. \A j \in DOMAIN queue' : queue'[j].owner = queue'[i].owner => j = i
      BY <1>3, <1>7, <3>1, <3>2
    <3> QED
      BY <3>6, <3>7, <3>8
  <2>2. Waiting'
    BY <2>1 DEF Waiting, Waits
  <2>3. \A i \in DOMAIN queue' : queue'[i].owner \in Runs \cup {Nobody} /\ queue'[i].rest # << >>
    BY <1>3, <1>7 DEF MigrationInv, TypeOK
  <2> QED
    BY <1>3, <1>7, <2>2, <2>3
\* The first run: its operation does what comes next.
<1>8. ASSUME starts = 1, NEW r \in Runs, pc[r] \in Active
      PROVE  /\ \A q \in Runs \ {r} : pc[q] \in Ended
             /\ pc[r] = "awaitFile" /\ Len(queue) = 1 /\ op.owner = r /\ file[r] \in DOMAIN Files
             /\ \E k \in DOMAIN Files[file[r]] :
                  /\ k + Len(op.rest) = Len(Files[file[r]]) + 1
                  /\ \A i \in 1 .. Len(op.rest) : op.rest[i] = Files[file[r]][k + i - 1]
                  /\ schema = Before(file[r], k)
                  /\ s = Files[file[r]][k] /\ Accepted(s)
                  /\ schema \cup {s.object} = Before(file[r], k + 1)
  <2>1. Exact(r) /\ \A q \in Runs \ {r} : pc[q] \in Ended
    BY <1>1, <1>8 DEF MigrationInv, FirstRun
  <2>2. pc[r] = "awaitFile" /\ Len(queue) = 1 /\ op.owner = r /\ file[r] \in DOMAIN Files
        /\ Halfway(file[r], op)
    BY <1>1, <1>3, <2>1 DEF Exact
  <2>3. PICK k \in DOMAIN Files[file[r]] :
          /\ k + Len(op.rest) = Len(Files[file[r]]) + 1
          /\ \A i \in 1 .. Len(op.rest) : op.rest[i] = Files[file[r]][k + i - 1]
          /\ schema = Before(file[r], k)
    BY <2>2 DEF Halfway
  <2>4. k \in Nat
    BY <2>2, Counts
  <2>5. s = Files[file[r]][k]
    <3>1. 1 \in 1 .. Len(op.rest) /\ k + 1 - 1 = k
      BY <1>5, <2>4
    <3>2. op.rest[1] = Files[file[r]][k + 1 - 1]
      BY <2>3, <3>1
    <3> QED
      BY <1>5, <3>1, <3>2
  <2>6. Accepted(s)
    BY <2>2, <2>3, <2>5, FilesFit DEF Accepted
  <2>7. schema \cup {s.object} = Before(file[r], k + 1)
    BY <2>2, <2>3, <2>5, BeforeNext
  <2> QED
    BY <2>1, <2>2, <2>3, <2>5, <2>6, <2>7
<1>9. starts # 0
  BY <1>1 DEF MigrationInv, FirstRun
<1>10. CASE ~Accepted(s)
  <2>1. /\ queue' = Tail(queue) /\ schema' = schema /\ file' = file
        /\ pc' = [q \in Runs |-> IF q = op.owner THEN "refused" ELSE pc[q]]
    BY <1>10 DEF ExecuteStatement, TellRefused
  <2>2. pc' \in [Runs -> Ended \cup Active] /\ \A q \in Runs : q # op.owner => pc'[q] = pc[q]
    BY <1>1, <2>1
  <2>3. /\ queue' \in Seq(Operations) /\ Waiting'
        /\ \A i \in DOMAIN queue' : queue'[i].owner \in Runs \cup {Nobody} /\ queue'[i].rest # << >>
    BY <1>7, <2>1, <2>2
  <2>4. TypeOK'
    BY <1>1, <2>1, <2>2, <2>3 DEF MigrationInv, TypeOK, Active
  <2>5. LeftBehind'
    BY <1>1, <2>1 DEF MigrationInv, LeftBehind
  <2>6. FirstRun'
    <3>1. ASSUME starts = 1, NEW q \in Runs
          PROVE  pc[q] \notin Active /\ pc[q] # "refused" /\ q # op.owner
      BY <1>1, <1>6, <1>8, <1>10, <3>1 DEF MigrationInv, FirstRun
    <3> QED
      BY <1>1, <1>9, <2>2, <3>1 DEF FirstRun
  <2> QED
    BY <2>3, <2>4, <2>5, <2>6 DEF MigrationInv
<1>11. CASE Accepted(s) /\ IsLast(op)
  <2>1. /\ queue' = Tail(queue) /\ schema' = schema \cup {s.object}
        /\ pc' = [q \in Runs |-> IF q = op.owner THEN "files" ELSE pc[q]]
        /\ file' = [q \in Runs |-> IF q = op.owner THEN file[q] + 1 ELSE file[q]]
    BY <1>11 DEF ExecuteStatement, TellApplied
  <2>2. /\ pc' \in [Runs -> Ended \cup Active]
        /\ \A q \in Runs : q # op.owner => pc'[q] = pc[q] /\ file'[q] = file[q]
        /\ \A q \in Runs : q = op.owner => pc'[q] = "files" /\ file'[q] = file[q] + 1
    BY <1>1, <2>1
  <2>3. file' \in [Runs -> 1 .. Len(Files) + 1]
    BY <1>1, <1>2, <1>6, <2>1
  <2>4. /\ queue' \in Seq(Operations) /\ Waiting'
        /\ \A i \in DOMAIN queue' : queue'[i].owner \in Runs \cup {Nobody} /\ queue'[i].rest # << >>
    BY <1>7, <2>1, <2>2
  <2>5. TypeOK'
    BY <1>1, <1>5, <2>1, <2>2, <2>3, <2>4 DEF MigrationInv, TypeOK, Active
  <2>6. ASSUME op.owner \in Runs
        PROVE  ObjectsOf(Files[file[op.owner]]) \subseteq schema'
    BY <1>5, <1>6, <1>11, <2>1, <2>6 DEF IsLast
  <2>7. LeftBehind'
    <3>1. ASSUME NEW q \in Runs, NEW f \in DOMAIN Files, f < file'[q]
          PROVE  ObjectsOf(Files[f]) \subseteq schema'
      <4>1. CASE f < file[q]
        BY <2>1, <4>1 DEF MigrationInv, LeftBehind
      <4>2. CASE ~(f < file[q])
        <5>1. q = op.owner /\ f = file[q]
          BY <1>1, <1>2, <2>2, <3>1, <4>2
        <5> QED
          BY <2>6, <5>1
      <4> QED
        BY <4>1, <4>2
    <3>2. \A q \in Runs : pc'[q] = "done" => file'[q] > Len(Files)
      BY <2>2 DEF MigrationInv, LeftBehind
    <3> QED
      BY <3>1, <3>2 DEF LeftBehind
  <2>8. FirstRun'
    <3>1. ASSUME starts = 1, NEW r \in Runs, pc'[r] \in Active
          PROVE  Exact(r)' /\ \A q \in Runs \ {r} : pc'[q] \in Ended
      <4>1. pc[r] \in Active
        BY <1>6, <1>1, <2>2, <3>1
      <4>2. /\ \A q \in Runs \ {r} : pc[q] \in Ended
            /\ Len(queue) = 1 /\ op.owner = r /\ file[r] \in DOMAIN Files
        BY <1>8, <3>1, <4>1
      <4>3. PICK k \in DOMAIN Files[file[r]] :
              k + Len(op.rest) = Len(Files[file[r]]) + 1 /\ schema' = Before(file[r], k + 1)
        BY <1>8, <2>1, <3>1, <4>1
      <4>4. k \in Nat
        BY <4>2, Counts
      <4>5. Len(Files[file[r]]) \in Nat
        BY <4>2, FilesTyped
      <4>6. k = Len(Files[file[r]])
        <5>1. k + 1 = Len(Files[file[r]]) + 1
          BY <1>11, <4>3 DEF IsLast
        <5> QED
          BY <4>4, <4>5, <5>1
      <4>7. schema' = Before(file'[r], 1)
        BY <2>2, <4>2, <4>3, <4>6, BeforeNextFile
      <4>8. queue' = << >>
        BY <1>3, <2>1, <4>2
      <4> QED
        BY <2>2, <4>2, <4>7, <4>8 DEF Exact
    <3>2. starts = 1 => \A r \in Runs : pc'[r] # "refused"
      BY <1>1, <2>2 DEF MigrationInv, FirstRun
    <3> QED
      BY <1>1, <1>9, <3>1, <3>2 DEF FirstRun
  <2> QED
    BY <2>4, <2>5, <2>7, <2>8 DEF MigrationInv
<1>12. CASE Accepted(s) /\ ~IsLast(op)
  <2> PICK rest : rest = Tail(op.rest)
    OBVIOUS
  <2>1. queue' = [queue EXCEPT ![1].rest = rest] /\ schema' = schema \cup {s.object}
        /\ pc' = pc /\ file' = file
    BY <1>12 DEF ExecuteStatement
  <2>2. Len(op.rest) # 1 /\ rest # << >>
    BY <1>5, <1>12 DEF IsLast
  <2>3. queue' = [queue EXCEPT ![1] = [op EXCEPT !.rest = rest]]
    BY <1>3, <2>1
  <2>4. PICK o \in Operations : o = [op EXCEPT !.rest = rest] /\ o.owner = op.owner /\ o.rest = rest
    <3>1. op \in [owner : Runs \cup {Nobody}, rest : Seq(Statements)]
      BY <1>3 DEF Operations
    <3>2. rest \in Seq(Statements)
      BY <1>5
    <3>3. [op EXCEPT !.rest = rest] \in [owner : Runs \cup {Nobody}, rest : Seq(Statements)]
      BY <3>1, <3>2
    <3>4. [op EXCEPT !.rest = rest].owner = op.owner /\ [op EXCEPT !.rest = rest].rest = rest
      BY <3>1
    <3> QED
      BY <3>3, <3>4 DEF Operations
  <2>5. /\ queue' \in Seq(Operations) /\ DOMAIN queue' = DOMAIN queue /\ queue'[1] = o
        /\ Len(queue') = Len(queue)
        /\ \A i \in DOMAIN queue : i # 1 => queue'[i] = queue[i]
    BY <1>1, <1>3, <2>3, <2>4
  <2>6. TypeOK'
    <3>1. \A i \in DOMAIN queue' : queue'[i].owner \in Runs \cup {Nobody} /\ queue'[i].rest # << >>
      <4>1. ASSUME NEW i \in DOMAIN queue'
            PROVE  queue'[i].owner \in Runs \cup {Nobody} /\ queue'[i].rest # << >>
        <5>1. CASE i = 1
          BY <1>4, <2>2, <2>4, <2>5, <5>1
        <5>2. CASE i # 1
          BY <2>5, <5>2 DEF MigrationInv, TypeOK
        <5> QED
          BY <5>1, <5>2
      <4> QED
        BY <4>1
    <3> QED
      BY <1>1, <1>5, <2>1, <3>1 DEF MigrationInv, TypeOK
  <2>7. Waiting'
    <3>1. ASSUME NEW i \in DOMAIN queue', queue'[i].owner \in Runs
          PROVE  /\ Waits(queue[i].owner, queue[i])
                 /\ queue'[i].owner = queue[i].owner
                 /\ \A j \in DOMAIN queue' : queue'[j].owner = queue'[i].owner => j = i
      <4>1. \A j \in DOMAIN queue : queue'[j].owner = queue[j].owner
        BY <1>3, <2>4, <2>5
      <4> QED
        BY <2>5, <3>1, <4>1 DEF MigrationInv, Waiting
    <3>2. ASSUME NEW i \in DOMAIN queue', queue'[i].owner \in Runs
          PROVE  /\ pc'[queue'[i].owner] = "awaitFile" /\ file'[queue'[i].owner] \in DOMAIN Files
                 /\ ObjectsOf(Files[file'[queue'[i].owner]]) \subseteq schema' \cup ObjectsOf(queue'[i].rest)
      <4>1. CASE i = 1
        <5>1. queue'[i] = o /\ op.owner \in Runs
          BY <2>4, <2>5, <3>2, <4>1
        <5>2. /\ pc[op.owner] = "awaitFile" /\ file[op.owner] \in DOMAIN Files
              /\ ObjectsOf(Files[file[op.owner]]) \subseteq schema \cup ObjectsOf(op.rest)
          BY <1>6, <5>1
        <5>3. ObjectsOf(op.rest) = {s.object} \cup ObjectsOf(rest)
          BY <1>5
        <5>4. ObjectsOf(Files[file[op.owner]]) \subseteq schema' \cup ObjectsOf(rest)
          BY <2>1, <5>2, <5>3
        <5> QED
          BY <2>1, <2>4, <5>1, <5>2, <5>4
      <4>2. CASE i # 1
        BY <2>1, <2>5, <3>1, <3>2, <4>2 DEF Waits
      <4> QED
        BY <4>1, <4>2
    <3> QED
      BY <3>1, <3>2 DEF Waiting, Waits
  <2>8. LeftBehind'
    BY <2>1 DEF MigrationInv, LeftBehind
  <2>9. FirstRun'
    <3>1. ASSUME starts = 1, NEW r \in Runs, pc'[r] \in Active
          PROVE  Exact(r)' /\ \A q \in Runs \ {r} : pc'[q] \in Ended
      <4>1. /\ \A q \in Runs \ {r} : pc[q] \in Ended
            /\ pc[r] = "awaitFile" /\ Len(queue) = 1 /\ op.owner = r /\ file[r] \in DOMAIN Files
        BY <1>8, <2>1, <3>1
      <4>2. PICK k \in DOMAIN Files[file[r]] :
              /\ k + Len(op.rest) = Len(Files[file[r]]) + 1
              /\ \A i \in 1 .. Len(op.rest) : op.rest[i] = Files[file[r]][k + i - 1]
              /\ schema' = Before(file[r], k + 1)
        BY <1>8, <2>1, <3>1
      <4>3. k \in Nat /\ Len(Files[file[r]]) \in Nat /\ DOMAIN Files[file[r]] = 1 .. Len(Files[file[r]])
        BY <4>1, Counts, FilesTyped
      <4>4. k + 1 \in DOMAIN Files[file[r]] /\ (k + 1) + Len(rest) = Len(Files[file[r]]) + 1
        <5>1. PICK n \in Nat \ {0}, m \in Nat : n = Len(op.rest) /\ m = Len(Files[file[r]])
          BY <1>5, <4>3
        <5>2. Len(rest) = n - 1 /\ n # 1 /\ k + n = m + 1 /\ DOMAIN Files[file[r]] = 1 .. m
          BY <1>5, <2>2, <4>2, <4>3, <5>1
        <5>3. \A a \in Nat : a + n = m + 1 => a + 1 \in 1 .. m /\ (a + 1) + (n - 1) = m + 1
          BY <5>2
        <5> QED
          BY <4>3, <5>1, <5>2, <5>3
      <4>5. ASSUME NEW i \in 1 .. Len(rest)
            PROVE  rest[i] = Files[file[r]][(k + 1) + i - 1]
        <5>1. i \in 1 .. Len(op.rest) - 1 /\ i + 1 \in 1 .. Len(op.rest)
          BY <1>5
        <5>2. rest[i] = op.rest[i + 1]
          BY <1>5, <5>1
        <5>3. op.rest[i + 1] = Files[file[r]][k + (i + 1) - 1]
          BY <4>2, <5>1
        <5>4. k + (i + 1) - 1 = (k + 1) + i - 1
          BY <4>3
        <5> QED
          BY <5>2, <5>3, <5>4
      <4>6. Halfway(file[r], o)'
        BY <2>1, <2>4, <4>2, <4>4, <4>5 DEF Halfway
      <4> QED
        BY <2>1, <2>4, <2>5, <4>1, <4>6 DEF Exact
    <3>2. starts = 1 => \A r \in Runs : pc'[r] # "refused"
      BY <1>1, <2>1 DEF MigrationInv, FirstRun
    <3> QED
      BY <1>1, <1>9, <3>1, <3>2 DEF FirstRun
  <2> QED
    BY <2>5, <2>6, <2>7, <2>8, <2>9 DEF MigrationInv
<1> QED
  BY <1>10, <1>11, <1>12

\* What a run does by itself.
LEMMA WorkKeepsInv ==
  ASSUME MigrationInv, NEW r \in Runs, Work(r) \/ CheckFails(r) \/ NoFiles(r)
  PROVE  MigrationInv'
<1>1. /\ instance \in BOOLEAN /\ database \in {"none", "creating", "ready"}
      /\ {"instance", "database", "createDatabase", "awaitDatabase", "files"} \subseteq Active \ {"awaitFile"}
  BY DEF MigrationInv, TypeOK, Active
<1>2. CASE EnsureInstance(r)
  <2>1. \/ Go(r, "instance", "database") /\ instance' \in BOOLEAN
        \/ Go(r, "instance", "failed") /\ instance' \in BOOLEAN
    BY <1>1, <1>2 DEF EnsureInstance
  <2>2. UNCHANGED << database, schema, queue, file, starts >>
    BY <1>2 DEF EnsureInstance
  <2> QED
    BY <1>1, <2>1, <2>2, MoveKeepsInv
<1>3. CASE CheckDatabase(r) \/ CheckFails(r)
  <2>1. \/ Go(r, "database", "createDatabase") \/ Go(r, "database", "files")
        \/ Go(r, "database", "failed")
    BY <1>3 DEF CheckDatabase, CheckFails
  <2>2. UNCHANGED << instance, database, schema, queue, file, starts >>
    BY <1>3 DEF CheckDatabase, CheckFails
  <2> QED
    BY <1>1, <2>1, <2>2, MoveKeepsInv
<1>4. CASE CreateDatabase(r)
  <2>1. /\ \/ Go(r, "createDatabase", "awaitDatabase") \/ Go(r, "createDatabase", "failed")
           \/ Go(r, "createDatabase", "files")
        /\ database' \in {"none", "creating", "ready"}
    BY <1>1, <1>4 DEF CreateDatabase
  <2>2. UNCHANGED << instance, schema, queue, file, starts >>
    BY <1>4 DEF CreateDatabase
  <2> QED
    BY <1>1, <2>1, <2>2, MoveKeepsInv
<1>5. CASE AwaitDatabase(r)
  <2>1. Go(r, "awaitDatabase", "files") /\ UNCHANGED << instance, database, schema, queue, file, starts >>
    BY <1>5 DEF AwaitDatabase
  <2> QED
    BY <1>1, <2>1, MoveKeepsInv
<1>6. CASE ApplyFile(r) /\ database # "ready"
  <2>1. Go(r, "files", "failed") /\ UNCHANGED << instance, database, schema, queue, file, starts >>
    BY <1>6 DEF ApplyFile
  <2> QED
    BY <1>1, <2>1, MoveKeepsInv
<1>7. CASE NoFiles(r)
  <2>1. Go(r, "files", "nothing") /\ UNCHANGED << instance, database, schema, queue, file, starts >>
    BY <1>7 DEF NoFiles
  <2> QED
    BY <1>1, <2>1, MoveKeepsInv
<1> QED
  BY <1>2, <1>3, <1>4, <1>5, <1>6, <1>7, SkipFileKeepsInv, ApplyFileKeepsInv DEF Work

\* Every step keeps the invariant.
LEMMA StepInv ==
  MigrationInv /\ [Next]_vars => MigrationInv'
<1> SUFFICES ASSUME MigrationInv, [Next]_vars
             PROVE  MigrationInv'
  OBVIOUS
<1>1. pc \in [Runs -> Ended \cup Active]
  BY PcTyped DEF MigrationInv
<1>2. ASSUME NEW r \in Runs, CallFails(r) \/ Kill(r)
      PROVE  MigrationInv'
  <2>1. pc[r] \in Active
    BY <1>1, <1>2 DEF CallFails, Kill, Go, Active
  <2>2. \E to \in {"failed", "idle"} : pc' = [pc EXCEPT ![r] = to]
    BY <1>2 DEF CallFails, Kill, Go
  <2>3. /\ queue' = [i \in DOMAIN queue |->
             IF queue[i].owner = r THEN [queue[i] EXCEPT !.owner = Nobody] ELSE queue[i]]
        /\ UNCHANGED << instance, database, schema, file, starts >>
    BY <1>2 DEF CallFails, Kill
  <2> QED
    BY <2>1, <2>2, <2>3, DisownKeepsInv
<1>3. ASSUME UNCHANGED << schema, queue, pc, file, starts, instance >>,
             database' \in {"none", "creating", "ready"}
      PROVE  MigrationInv'
  BY <1>3 DEF MigrationInv, TypeOK, Waiting, Waits, LeftBehind, FirstRun, Exact, Halfway
<1>4. CASE DatabaseCreated
  BY <1>3, <1>4 DEF DatabaseCreated
<1>5. CASE Finished \/ UNCHANGED vars
  BY <1>3, <1>5 DEF Finished, vars, MigrationInv, TypeOK
<1> QED
  BY <1>2, <1>4, <1>5, StartKeepsInv, WorkKeepsInv, ExecuteKeepsInv DEF Next, Spanner

\* The invariant holds always.
LEMMA SpecInv == Spec => []MigrationInv
BY InitInv, StepInv, PTL DEF Spec

--------------------------------------------------------------------------------
\* The types, and that Spanner never has an operation without a statement to do.
THEOREM TypesHold == Spec => []TypeOK
<1>1. MigrationInv => TypeOK
  BY DEF MigrationInv
<1> QED
  BY <1>1, SpecInv, PTL

\* Success means that everything is there, for any number of runs that overlap, fail,
\* find no files or are killed, if the run found its files: a run leaves a file behind only when the whole of it is in the schema.
THEOREM DoneIsComplete == Spec => []SuccessMeansComplete
<1>1. MigrationInv => SuccessMeansComplete
  <2> SUFFICES ASSUME MigrationInv, NEW r \in Runs, pc[r] = "done"
               PROVE  schema = Objects
    BY DEF SuccessMeansComplete
  <2>1. schema \subseteq Objects /\ file[r] \in 1 .. Len(Files) + 1 /\ file[r] > Len(Files)
    BY DEF MigrationInv, TypeOK, LeftBehind
  <2>2. \A f \in DOMAIN Files : ObjectsOf(Files[f]) \subseteq schema
    BY <2>1, FilesAre DEF MigrationInv, LeftBehind
  <2> QED
    BY <2>1, <2>2 DEF Objects, ObjectsOf
<1> QED
  BY <1>1, SpecInv, PTL

\* The first run is not refused: the schema is exactly what it has sent so far, in
\* which the next statement of the four files has what it needs and finds nothing of
\* its own.
THEOREM FirstRunPasses == Spec => []FirstRunIsNotRefused
<1>1. MigrationInv => FirstRunIsNotRefused
  BY DEF MigrationInv, FirstRun, FirstRunIsNotRefused
<1> QED
  BY <1>1, SpecInv, PTL
=============================================================================
