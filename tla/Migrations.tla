------------------------------- MODULE Migrations -------------------------------
(***************************************************************************)
(* cmd/migrate: makes sure that instance and database exist, then sends    *)
(* Spanner the statements of one migration file after the other and waits  *)
(* for each file.  Which files have been applied is written nowhere.       *)
(* Several runs may be under way; a run may be killed, and what it has     *)
(* sent is carried out all the same.                                       *)
(***************************************************************************)
EXTENDS Integers, Sequences

CONSTANTS
  Runs,        \* processes that may run at the same time
  Emulator,    \* whether SPANNER_EMULATOR_HOST is set
  Nobody,      \* the owner of an operation whose process is gone
  MaxStarts    \* bound: how many processes are started in all

ASSUME RunsAssumption == Nobody \notin Runs /\ Emulator \in BOOLEAN /\ MaxStarts \in Nat

VARIABLES
  instance,    \* whether the instance exists
  database,    \* "none", "creating" or "ready"
  schema,      \* the tables, columns and indexes of the database
  queue,       \* the schema changes Spanner has accepted: who waits, what is left
  pc,          \* how far each run has come
  file,        \* the number of the file it applies
  starts       \* how many processes have been started

vars == << instance, database, schema, queue, pc, file, starts >>

--------------------------------------------------------------------------------
\* A statement that creates something, in something else, with or without
\* IF NOT EXISTS.
Statement(object, needs, guarded) == [object |-> object, needs |-> needs, guarded |-> guarded]

InitialSchema ==
  << Statement("products", {}, TRUE),
     Statement("idx_products_category_status", {"products"}, TRUE),
     Statement("idx_products_status_created", {"products"}, TRUE),
     Statement("outbox_events", {}, TRUE),
     Statement("idx_outbox_status_created", {"outbox_events"}, TRUE),
     Statement("idx_outbox_aggregate", {"outbox_events"}, TRUE) >>

AddVersionColumn == << Statement("products.version", {"products"}, FALSE) >>

AddPriceHistory ==
  << Statement("price_history", {"products"}, FALSE),
     Statement("idx_price_history_product_time", {"price_history"}, FALSE) >>

\* 004_add_outbox_retention.sql holds comments only: nothing is left of it.
AddOutboxRetention == << >>

\* Mutant: the files come in another order.
FilesUnsorted == << AddVersionColumn, InitialSchema, AddPriceHistory, AddOutboxRetention >>

\* The migrations directory, in the order of Glob.
Files == << InitialSchema, AddVersionColumn, AddPriceHistory, AddOutboxRetention >>

Objects == UNION {{Files[f][i].object : i \in DOMAIN Files[f]} : f \in DOMAIN Files}

Ended == {"idle", "done", "nothing", "failed", "refused"}

Init ==
  /\ instance \in BOOLEAN
  /\ database = "none"
  /\ schema = {}
  /\ queue = << >>
  /\ pc = [r \in Runs |-> "idle"]
  /\ file = [r \in Runs |-> 1]
  /\ starts = 0

Go(r, from, to) == pc[r] = from /\ pc' = [pc EXCEPT ![r] = to]

--------------------------------------------------------------------------------
Start(r) ==
  /\ pc[r] \in Ended /\ starts < MaxStarts
  /\ pc' = [pc EXCEPT ![r] = "instance"]
  /\ file' = [file EXCEPT ![r] = 1]
  /\ starts' = starts + 1
  /\ UNCHANGED << instance, database, schema, queue >>

\* ensureInstance: it is there, it is created, or there is no client to ask with, or
\* the question or the creation failed; a failed question is logged and the run
\* goes on.
EnsureInstance(r) ==
  /\ \/ Go(r, "instance", "database") /\ instance' = TRUE
     \/ Go(r, "instance", "database") /\ UNCHANGED instance
     \/ Go(r, "instance", "failed") /\ UNCHANGED instance
  /\ UNCHANGED << database, schema, queue, file, starts >>

\* ensureDatabase asks first ...
CheckDatabase(r) ==
  /\ Go(r, "database", IF database = "none" THEN "createDatabase" ELSE "files")
  /\ UNCHANGED << instance, database, schema, queue, file, starts >>

\* ... without a client to ask with the run ends; an error other than not found
\* ends it, too, but not on the emulator ...
CheckFails(r) ==
  /\ \/ Go(r, "database", "failed")
     \/ Emulator /\ Go(r, "database", "files")
  /\ UNCHANGED << instance, database, schema, queue, file, starts >>

\* ... and creates it, unless another run has been quicker.
CreateDatabase(r) ==
  /\ \/ /\ database = "none" /\ instance
        /\ Go(r, "createDatabase", "awaitDatabase")
        /\ database' = "creating"
     \/ /\ database = "none"
        /\ Go(r, "createDatabase", "failed")
        /\ UNCHANGED database
     \/ /\ database # "none"
        /\ Go(r, "createDatabase", "files")
        /\ UNCHANGED database
  /\ UNCHANGED << instance, schema, queue, file, starts >>

AwaitDatabase(r) ==
  /\ database = "ready"
  /\ Go(r, "awaitDatabase", "files")
  /\ UNCHANGED << instance, database, schema, queue, file, starts >>

\* applyMigrations lists the directory.  Glob gives an empty list for one that is
\* missing or cannot be read, and the run reports success having done nothing.
NoFiles(r) ==
  /\ file[r] = 1
  /\ Go(r, "files", "nothing")
  /\ UNCHANGED << instance, database, schema, queue, file, starts >>

\* Past a file that holds no statement, or after the last one.
SkipFile(r) ==
  /\ IF file[r] > Len(Files)
     THEN Go(r, "files", "done") /\ UNCHANGED file
     ELSE /\ Files[file[r]] = << >>
          /\ pc[r] = "files" /\ UNCHANGED pc
          /\ file' = [file EXCEPT ![r] = @ + 1]
  /\ UNCHANGED << instance, database, schema, queue, starts >>

\* Mutant: the run does not wait for the operation.
ApplyFileAsync(r) ==
  /\ file[r] <= Len(Files) /\ Files[file[r]] # << >>
  /\ pc[r] = "files" /\ UNCHANGED pc
  /\ database = "ready"
  /\ queue' = Append(queue, [owner |-> r, rest |-> Files[file[r]]])
  /\ file' = [file EXCEPT ![r] = @ + 1]
  /\ UNCHANGED << instance, database, schema, starts >>

ApplyFile(r) ==
  /\ file[r] <= Len(Files) /\ Files[file[r]] # << >>
  /\ IF database = "ready"
     THEN /\ Go(r, "files", "awaitFile")
          /\ queue' = Append(queue, [owner |-> r, rest |-> Files[file[r]]])
     ELSE Go(r, "files", "failed") /\ UNCHANGED queue
  /\ UNCHANGED << instance, database, schema, file, starts >>

\* A call to Spanner fails, or waiting for it does.
CallFails(r) ==
  /\ \E from \in {"createDatabase", "awaitDatabase", "files", "awaitFile"} :
       Go(r, from, "failed")
  /\ queue' = [i \in DOMAIN queue |->
       IF queue[i].owner = r THEN [queue[i] EXCEPT !.owner = Nobody] ELSE queue[i]]
  /\ UNCHANGED << instance, database, schema, file, starts >>

\* The process is killed.
Kill(r) ==
  /\ pc[r] \notin Ended
  /\ pc' = [pc EXCEPT ![r] = "idle"]
  /\ queue' = [i \in DOMAIN queue |->
       IF queue[i].owner = r THEN [queue[i] EXCEPT !.owner = Nobody] ELSE queue[i]]
  /\ UNCHANGED << instance, database, schema, file, starts >>

--------------------------------------------------------------------------------
(***************************************************************************)
(* Spanner: schema changes of a database are carried out one after the     *)
(* other, statement by statement; a statement that fails ends its          *)
(* operation, and those before it stay.                                    *)
(***************************************************************************)
DatabaseCreated ==
  /\ database = "creating"
  /\ database' = "ready"
  /\ UNCHANGED << instance, schema, queue, pc, file, starts >>

Accepted(s) == s.needs \subseteq schema /\ (s.object \in schema => s.guarded)

\* Mutant: the operation is left in the queue after its last statement.
IsLastLate(op) == op.rest = << >>

IsLast(op) == Len(op.rest) = 1

\* Mutant: a run sends a file again that was refused.
TellRefusedAgain(owner) ==
  /\ pc' = [r \in Runs |-> IF r = owner THEN "files" ELSE pc[r]]
  /\ UNCHANGED file

\* The run that waits gets the error and ends.
TellRefused(owner) ==
  /\ pc' = [r \in Runs |-> IF r = owner THEN "refused" ELSE pc[r]]
  /\ UNCHANGED file

TellApplied(owner) ==
  /\ pc' = [r \in Runs |-> IF r = owner THEN "files" ELSE pc[r]]
  /\ file' = [r \in Runs |-> IF r = owner THEN file[r] + 1 ELSE file[r]]

ExecuteStatement ==
  /\ queue # << >>
  /\ LET op == Head(queue)
         s == Head(op.rest)
     IN  IF ~Accepted(s)
         THEN /\ queue' = Tail(queue)
              /\ TellRefused(op.owner)
              /\ UNCHANGED schema
         ELSE /\ schema' = schema \cup {s.object}
              /\ IF IsLast(op)
                 THEN queue' = Tail(queue) /\ TellApplied(op.owner)
                 ELSE /\ queue' = [queue EXCEPT ![1].rest = Tail(op.rest)]
                      /\ UNCHANGED << pc, file >>
  /\ UNCHANGED << instance, database, starts >>

Work(r) ==
  \/ EnsureInstance(r) \/ CheckDatabase(r) \/ CreateDatabase(r) \/ AwaitDatabase(r)
  \/ SkipFile(r) \/ ApplyFile(r)

Spanner == DatabaseCreated \/ ExecuteStatement

Finished ==
  /\ starts = MaxStarts /\ queue = << >> /\ \A r \in Runs : pc[r] \in Ended
  /\ UNCHANGED vars

Next ==
  \/ \E r \in Runs : Start(r) \/ Work(r) \/ CheckFails(r) \/ NoFiles(r) \/ CallFails(r) \/ Kill(r)
  \/ Spanner
  \/ Finished

Spec == Init /\ [][Next]_vars

\* A process runs, and Spanner carries out what it has accepted.
FairSpec == Spec /\ WF_vars(Spanner) /\ \A r \in Runs : WF_vars(Work(r))

--------------------------------------------------------------------------------
\* An operation in the queue has statements left.
TypeOK ==
  /\ instance \in BOOLEAN
  /\ database \in {"none", "creating", "ready"}
  /\ schema \subseteq Objects
  /\ \A i \in DOMAIN queue : queue[i].owner \in Runs \cup {Nobody} /\ queue[i].rest # << >>
  /\ pc \in [Runs -> Ended \cup {"instance", "database", "createDatabase",
                                 "awaitDatabase", "files", "awaitFile"}]
  /\ file \in [Runs -> 1 .. Len(Files) + 1]
  /\ starts \in 0 .. MaxStarts

\* A run that found its files and reports success leaves every table, column and
\* index in place, whatever other runs, earlier or at the same time, did or failed to
\* do.  (One that found none, "nothing", reports success as well and says nothing
\* about the schema.)
SuccessMeansComplete == \A r \in Runs : pc[r] = "done" => schema = Objects

\* The files fit together: the first run on a new database, if nothing fails,
\* has no statement refused.
FirstRunIsNotRefused == starts = 1 => \A r \in Runs : pc[r] # "refused"

\* Every run ends: none waits for a database or an operation that does not come.
RunsEnd == \A r \in Runs : pc[r] \notin Ended ~> pc[r] \in Ended

\* cmd/migrate/README.md: "Idempotent: Safe to run multiple times".
SafeToRunAgain == \A r \in Runs : pc[r] # "refused"
================================================================================
