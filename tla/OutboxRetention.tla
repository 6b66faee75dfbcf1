---------------------------- MODULE OutboxRetention ----------------------------
(***************************************************************************)
(* The table outbox_events from the commit of an event to its deletion:    *)
(* commands insert pending events, a processor outside this repository     *)
(* publishes them, the clean-up job (cmd/cleanup_outbox) deletes the old   *)
(* ones, and a client polls the table through ListEvents, over gRPC or     *)
(* through the HTTP endpoint.                                              *)
(*                                                                         *)
(* created_at is a commit timestamp and counts commits here; processed_at  *)
(* and the cutoffs of the job are readings of a clock.                     *)
(***************************************************************************)
EXTENDS Listing

CONSTANTS
  Events,               \* event ids (uuids)
  Subjects,             \* the event type and the aggregate id of an event
  Jobs,                 \* runs of the clean-up job that may overlap
  Filters,              \* the filter a polling client uses
  Asked,                \* the limits it asks for
  None,                 \* SQL NULL, an optional field left out
  DefaultLimit, MaxLimit,
  Width,                \* 2^32: the limit of the proto message is an int32
  CompletedRetention, FailedRetention,
  MaxRetries,           \* bound: how often the processor retries an event
  Horizon,              \* bound: the last time at which the processor works
  MaxTime               \* bound: the last reading of the clock

Stati == {"pending", "processing", "completed", "failed"}

ASSUME LimitAssumption ==
  /\ DefaultLimit \in Nat \ {0} /\ MaxLimit \in Nat /\ DefaultLimit <= MaxLimit
  /\ Width \in Nat /\ 2 * MaxLimit < Width /\ Width % 2 = 0
  /\ Asked \subseteq Int
ASSUME TimeAssumption ==
  /\ CompletedRetention \in Nat /\ FailedRetention \in Nat
  /\ MaxRetries \in Nat /\ Horizon \in Nat /\ MaxTime \in Nat
  /\ Horizon + CompletedRetention < MaxTime /\ Horizon + FailedRetention < MaxTime

Filter == [subject : Subjects \cup {None}, status : {None, "pending"}]

Row == [subject : Subjects, status : Stati, createdAt : Nat,
        processedAt : Nat \cup {None}, retries : Nat]

\* A run that has ended is "idle"; "failed" after an error of its own making.
Job == [state : {"idle", "running", "failed"}, dryRun : BOOLEAN,
        completedCutoff : Int, failedCutoff : Int]

Ended(state, dryRun) ==
  [state |-> state, dryRun |-> dryRun, completedCutoff |-> 0, failedCutoff |-> 0]

ASSUME FilterAssumption == Filters \subseteq Filter
ASSUME NoneAssumption ==
  None \notin Row /\ None \notin Nat /\ None \notin Subjects /\ None \notin Stati
ASSUME EventsAssumption == IsFiniteSet(Events)

VARIABLES
  events,     \* the table: a row, or None, for each id
  issued,     \* the ids ever inserted
  commitTs,   \* the timestamp of the last commit
  clock,      \* the time
  job,        \* what each run of the clean-up job holds
  filter,     \* the filter the polling client uses
  lastPoll,   \* ghost: commitTs when the client polled last
  seen,       \* ghost: the events some answer has shown the client
  keepsUp     \* ghost: no poll came so late that more had happened than its limit

table == << events, issued, commitTs >>
client == << filter, lastPoll, seen, keepsUp >>
vars == << events, issued, commitTs, clock, job, filter, lastPoll, seen, keepsUp >>

Init ==
  /\ events = [e \in Events |-> None]
  /\ issued = {}
  /\ commitTs = 0
  /\ clock = 0
  /\ job = [j \in Jobs |-> Ended("idle", FALSE)]
  /\ filter \in Filters
  /\ lastPoll = 0
  /\ seen = {}
  /\ keepsUp = TRUE

Stored == {e \in Events : events[e] # None}

--------------------------------------------------------------------------------
\* A pending event as InsertMut writes it.
NewRow(subject, at) ==
  [subject |-> subject, status |-> "pending", createdAt |-> at, processedAt |-> None,
   retries |-> 0]

\* A command commits one event, or two (archiving with a discount), about one
\* product; two have the same created_at, and no column keeps their order.
Insert(e, f, subject) ==
  /\ {e, f} \cap issued = {}
  /\ issued' = issued \cup {e, f}
  /\ commitTs' = commitTs + 1
  /\ events' = [events EXCEPT ![e] = NewRow(subject, commitTs'),
                              ![f] = NewRow(subject, commitTs')]
  /\ UNCHANGED << clock, job, client >>

--------------------------------------------------------------------------------
(***************************************************************************)
(* The processor, known from docs/DESIGN.md and the columns it would use.  *)
(***************************************************************************)
Move(e, from, row) ==
  /\ events[e] # None /\ events[e].status = from
  /\ clock <= Horizon
  /\ events' = [events EXCEPT ![e] = row]
  /\ UNCHANGED << issued, commitTs, clock, job, client >>

Claim(e) == Move(e, "pending", [events[e] EXCEPT !.status = "processing"])

Publish(e) ==
  Move(e, "processing", [events[e] EXCEPT !.status = "completed", !.processedAt = clock])

GiveUp(e) ==
  Move(e, "processing", [events[e] EXCEPT !.status = "failed", !.processedAt = clock])

\* The processed_at of the failed attempt stays in the row.
Retry(e) ==
  /\ events[e] # None /\ events[e].retries < MaxRetries
  /\ Move(e, "failed", [events[e] EXCEPT !.status = "processing", !.retries = @ + 1])

Tick ==
  /\ clock < MaxTime
  /\ clock' = clock + 1
  /\ UNCHANGED << table, job, client >>

--------------------------------------------------------------------------------
(***************************************************************************)
(* The clean-up job.                                                       *)
(***************************************************************************)
\* The job reads the clock once and derives both cutoffs from it.
StartJob(j, dryRun) ==
  /\ job[j].state # "running"
  /\ job' = [job EXCEPT ![j] =
       [state |-> "running", dryRun |-> dryRun,
        completedCutoff |-> clock - CompletedRetention,
        failedCutoff |-> clock - FailedRetention]]
  /\ UNCHANGED << table, clock, client >>

\* Mutant: the status is not tested, as if only settled events were stamped.
ExpiredAnyStatus(row, completedCutoff, failedCutoff) ==
  row.processedAt # None /\ row.processedAt < failedCutoff

\* Mutant: failed events are not deleted.
ExpiredCompletedOnly(row, completedCutoff, failedCutoff) ==
  row.processedAt # None /\ row.status = "completed" /\ row.processedAt < completedCutoff

\* The WHERE of the clean-up; a NULL processed_at compares with nothing.
Expired(row, completedCutoff, failedCutoff) ==
  /\ row.processedAt # None
  /\ \/ row.status = "completed" /\ row.processedAt < completedCutoff
     \/ row.status = "failed" /\ row.processedAt < failedCutoff

\* One read-write transaction counts and deletes by the rows as they are then.
CleanUp(j) ==
  /\ job[j].state = "running" /\ ~job[j].dryRun
  /\ events' = [e \in Events |->
       IF e \in Stored /\ Expired(events[e], job[j].completedCutoff, job[j].failedCutoff)
       THEN None ELSE events[e]]
  /\ job' = [job EXCEPT ![j] = Ended("idle", FALSE)]
  /\ UNCHANGED << issued, commitTs, clock, client >>

\* The dry run counts and expects this text at the end of its result ...
EndOfResult(text) == text = "iterator done"

\* ... the iterator of the Spanner client ends with this one.
IteratorDone == "no more items in iterator"

DryRun(j) ==
  /\ job[j].state = "running" /\ job[j].dryRun
  /\ job' = [job EXCEPT ![j] =
       Ended(IF EndOfResult(IteratorDone) THEN "idle" ELSE "failed", TRUE)]
  /\ UNCHANGED << table, clock, client >>

\* Spanner fails the job, or it is killed: its transaction has no effect.
FailJob(j) ==
  /\ job[j].state = "running"
  /\ job' = [job EXCEPT ![j] = Ended("idle", FALSE)]
  /\ UNCHANGED << table, clock, client >>

--------------------------------------------------------------------------------
(***************************************************************************)
(* ListEvents.                                                             *)
(***************************************************************************)
\* int32(n)
Int32(n) == ((n + Width \div 2) % Width) - Width \div 2

\* ServeHTTP: what does not parse as a positive number leaves the default.
HttpLimit(n) == IF n > 0 THEN Int32(n) ELSE DefaultLimit

\* Mutant: only a limit left out gets the default.
EffectiveZeroOnly(n) == IF n = 0 THEN DefaultLimit ELSE IF n > MaxLimit THEN MaxLimit ELSE n

\* Query.Execute
Effective(n) == IF n <= 0 THEN DefaultLimit ELSE IF n > MaxLimit THEN MaxLimit ELSE n

\* The limits Spanner is given: over HTTP, and over gRPC, where a limit is an
\* int32 to begin with.
Limits == {Effective(HttpLimit(n)) : n \in Asked}
            \cup {Effective(n) : n \in {m \in Asked : Int32(m) = m}}

\* The filters of ListEvents.  The type and the aggregate of an event are
\* compared for equality like the status, but never change.
Matches(row, f) ==
  /\ f.subject # None => row.subject = f.subject
  /\ f.status # None => row.status = f.status

Matching == {e \in Stored : Matches(events[e], filter)}

CreatedAt == [e \in Stored |-> events[e].createdAt]

New == {e \in Matching : events[e].createdAt > lastPoll}

\* ListEvents: the rows the query may return.
Answer(S, n) == Newest(S, Matching, n, CreatedAt)

Poll(n) ==
  /\ \E S \in SUBSET Matching : Answer(S, n) /\ seen' = seen \cup S
  /\ keepsUp' = (keepsUp /\ Cardinality(New) <= n)
  /\ lastPoll' = commitTs
  /\ UNCHANGED << table, clock, job, filter >>

--------------------------------------------------------------------------------
Processor(e) == Claim(e) \/ Publish(e) \/ GiveUp(e) \/ Retry(e)

Next ==
  \/ \E e, f \in Events, subject \in Subjects : Insert(e, f, subject)
  \/ \E e \in Events : Processor(e)
  \/ Tick
  \/ \E j \in Jobs :
       (\E dryRun \in BOOLEAN : StartJob(j, dryRun)) \/ CleanUp(j) \/ DryRun(j) \/ FailJob(j)
  \/ \E n \in Limits : Poll(n)

Spec == Init /\ [][Next]_vars

(***************************************************************************)
(* Fairness: time passes; the scheduler starts the job again and again     *)
(* (004_add_outbox_retention.sql: daily), not only as a dry run; and       *)
(* no run hangs, and Spanner does not fail all of them.                    *)
(***************************************************************************)
Fairness ==
  /\ WF_vars(Tick)
  /\ \A j \in Jobs :
       SF_vars(StartJob(j, FALSE)) /\ SF_vars(CleanUp(j)) /\ WF_vars(DryRun(j))

FairSpec == Spec /\ Fairness

--------------------------------------------------------------------------------
TypeOK ==
  /\ events \in [Events -> Row \cup {None}]
  /\ issued \subseteq Events
  /\ commitTs \in Nat
  /\ clock \in Nat
  /\ job \in [Jobs -> Job]
  /\ filter \in Filter
  /\ lastPoll \in Nat
  /\ seen \subseteq Events
  /\ keepsUp \in BOOLEAN

\* The retention policy of 004_add_outbox_retention.sql, whatever happened
\* between the job's reading of the clock and its transaction: an event goes only
\* while it is completed or failed, and its last attempt is older than its status
\* allows; one that is waiting, or being retried, never goes.
RetentionKept ==
  [][\A e \in Stored : events'[e] = None =>
       \/ events[e].status = "completed" /\ clock - events[e].processedAt > CompletedRetention
       \/ events[e].status = "failed" /\ clock - events[e].processedAt > FailedRetention]_vars

\* A client that polls often enough for its limit, by type and aggregate or for
\* pending events, misses nothing, although an answer has no continuation: every
\* event that matches has been shown to it or is newer than its last poll.
PollerMissesNothing == keepsUp => Matching \subseteq seen \cup New

\* Whatever number a client asks for, also one that does not fit the 32 bits of
\* the message, the query has an answer, which shows an event if any matches and
\* no more than the maximum; and over HTTP, which takes any integer, no more than a
\* positive number asked for.
PollsAreAnswered ==
  Matching # {} =>
    /\ \A n \in Limits :
         /\ \E S \in SUBSET Matching : Answer(S, n)
         /\ \A S \in SUBSET Matching :
              Answer(S, n) => S # {} /\ Cardinality(S) <= MaxLimit
    /\ \A n \in Asked, S \in SUBSET Matching :
         n > 0 /\ Answer(S, Effective(HttpLimit(n))) => Cardinality(S) <= n

\* Events that were published, or given up, do not stay for ever: they are
\* deleted, or a failed one is retried.
OldEventsGo ==
  \A e \in Events :
    (events[e] # None /\ events[e].status \in {"completed", "failed"})
      ~> (events[e] = None \/ events[e].status = "processing")

================================================================================
