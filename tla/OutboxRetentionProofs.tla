------------------------- MODULE OutboxRetentionProofs -------------------------
(***************************************************************************)
(* Proofs about OutboxRetention, for any events, filters, limits, clean-up *)
(* runs and retention times.  Retention rests on the cutoffs a run holds,  *)
(* which only grow older; what a polling client has not missed, on events  *)
(* that never begin to match again.                                        *)
(***************************************************************************)
EXTENDS OutboxRetention, FiniteSetTheorems, TLAPS

StoredWereIssued == Stored \subseteq issued

CutoffsArePast ==
  \A j \in Jobs : job[j].state = "running" =>
    /\ job[j].completedCutoff <= clock - CompletedRetention
    /\ job[j].failedCutoff <= clock - FailedRetention

EventsInv ==
  /\ TypeOK
  /\ StoredWereIssued
  /\ CutoffsArePast
  /\ lastPoll <= commitTs
  /\ PollerMissesNothing

\* The invariant holds of the empty table.
LEMMA EventsInitially == Init => EventsInv
<1> SUFFICES ASSUME Init PROVE EventsInv
  OBVIOUS
<1> USE NoneAssumption, FilterAssumption
<1>1. Stored = {}
  BY DEF Init, Stored
<1>2. TypeOK
  <2>1. \A j \in Jobs : job[j] \in Job /\ job[j].state = "idle"
    BY DEF Init, Ended, Job
  <2>2. job \in [Jobs -> Job]
    BY <2>1 DEF Init
  <2>3. filter \in Filter
    BY DEF Init
  <2>4. QED
    BY <2>2, <2>3 DEF Init, TypeOK
<1>3. CutoffsArePast
  BY DEF Init, CutoffsArePast, Ended
<1>4. QED
  BY <1>1, <1>2, <1>3 DEF Init, EventsInv, StoredWereIssued, PollerMissesNothing, Matching

--------------------------------------------------------------------------------
(***************************************************************************)
(* The table: what a step that changes it does to a polling client.        *)
(***************************************************************************)

\* No row changes so that it begins to match, or looks newer.
Fading ==
  \A e \in Stored' :
    \/ e \in Stored /\ events'[e].createdAt = events[e].createdAt
       /\ (Matches(events'[e], filter) => Matches(events[e], filter))
    \/ events'[e].createdAt > lastPoll

\* Events that only get older, settle or vanish take nothing from the poller.
LEMMA PollerStillMissesNothing ==
  ASSUME PollerMissesNothing, Fading, UNCHANGED client
  PROVE  PollerMissesNothing'
<1> SUFFICES ASSUME keepsUp, NEW e \in Matching', e \notin seen
             PROVE  e \in New'
  BY DEF PollerMissesNothing, client
<1>1. e \in Stored' /\ Matches(events'[e], filter)
  BY DEF Matching, client
<1>2. CASE e \in Stored /\ events'[e].createdAt = events[e].createdAt
           /\ (Matches(events'[e], filter) => Matches(events[e], filter))
  <2>1. e \in New
    BY <1>1, <1>2 DEF PollerMissesNothing, Matching
  <2>2. QED
    BY <1>2, <2>1 DEF New, client
<1>3. CASE events'[e].createdAt > lastPoll
  BY <1>3 DEF New, client
<1>4. QED
  BY <1>1, <1>2, <1>3 DEF Fading

\* A commit stamps its events later than any poll before it.
LEMMA InsertStep ==
  ASSUME EventsInv, NEW e \in Events, NEW f \in Events, NEW subject \in Subjects,
         Insert(e, f, subject)
  PROVE  EventsInv'
<1> USE NoneAssumption
<1> DEFINE row == NewRow(subject, commitTs + 1)
<1>1. row \in Row /\ row # None /\ row.createdAt = commitTs + 1
  BY DEF EventsInv, TypeOK, NewRow, Row, Stati
<1> HIDE DEF row
<1>2. /\ events' = [events EXCEPT ![e] = row, ![f] = row]
      /\ commitTs' = commitTs + 1 /\ issued' = issued \cup {e, f}
      /\ e \notin issued /\ f \notin issued
      /\ UNCHANGED << clock, job, client >>
  BY DEF Insert, row
<1>3. /\ Stored' = Stored \cup {e, f}
      /\ \A x \in Events : events'[x] = IF x \in {e, f} THEN row ELSE events[x]
  BY <1>1, <1>2 DEF EventsInv, TypeOK, Stored
<1>4. TypeOK'
  BY <1>1, <1>2, <1>3 DEF EventsInv, TypeOK, client
<1>5. commitTs + 1 > lastPoll
  BY DEF EventsInv, TypeOK
<1>6. Fading
  BY <1>1, <1>3, <1>5 DEF Fading, Stored
<1>7. PollerMissesNothing'
  BY <1>2, <1>6, PollerStillMissesNothing DEF EventsInv
<1>8. lastPoll' <= commitTs'
  BY <1>2 DEF EventsInv, TypeOK, client
<1>9. QED
  BY <1>2, <1>3, <1>4, <1>7, <1>8 DEF EventsInv, StoredWereIssued, CutoffsArePast

\* The processor moves an event on, never back to pending.
LEMMA MoveStep ==
  ASSUME EventsInv, NEW e \in Events, NEW from, NEW row \in Row,
         Move(e, from, row), row.status # "pending",
         row.subject = events[e].subject, row.createdAt = events[e].createdAt
  PROVE  EventsInv'
<1> USE NoneAssumption
<1>1. /\ events' = [events EXCEPT ![e] = row] /\ e \in Stored /\ row # None
      /\ UNCHANGED << issued, commitTs, clock, job, client >>
  BY DEF Move, Stored
<1>2. Stored' = Stored /\ \A x \in Events : events'[x] = IF x = e THEN row ELSE events[x]
  BY <1>1 DEF EventsInv, TypeOK, Stored
<1>3. TypeOK'
  BY <1>1, <1>2 DEF EventsInv, TypeOK, client
<1>4. Matches(row, filter) => Matches(events[e], filter)
  BY DEF Matches, EventsInv, TypeOK, Filter
<1>5. Fading
  BY <1>1, <1>2, <1>4 DEF Fading, Stored
<1>6. PollerMissesNothing'
  BY <1>1, <1>5, PollerStillMissesNothing DEF EventsInv
<1>7. QED
  BY <1>1, <1>2, <1>3, <1>6 DEF EventsInv, StoredWereIssued, CutoffsArePast, client

\* A retry writes a row, and touches only its status and its count of retries.
LEMMA RetriedIsRow ==
  ASSUME NEW old \in Row
  PROVE  LET row == [old EXCEPT !.status = "processing", !.retries = @ + 1]
         IN  /\ row \in Row /\ row.status = "processing"
             /\ row.subject = old.subject /\ row.createdAt = old.createdAt
<1> DEFINE retries == old.retries + 1
<1>1. retries \in Nat
  BY DEF Row
<1> HIDE DEF retries
<1>2. [old EXCEPT !.status = "processing", !.retries = retries] \in Row
  BY <1>1 DEF Row, Stati
<1>3. QED
  BY <1>2 DEF retries, Row

\* The processor keeps the invariant: it moves one event, and stamps it with now.
LEMMA ProcessorStep ==
  ASSUME EventsInv, NEW e \in Events, Processor(e)
  PROVE  EventsInv'
<1>1. events[e] \in Row /\ clock \in Nat
  <2>1. events[e] # None
    BY DEF Processor, Claim, Publish, GiveUp, Retry, Move
  <2>2. QED
    BY <2>1 DEF EventsInv, TypeOK
<1>2. CASE Claim(e)
  <2> DEFINE row == [events[e] EXCEPT !.status = "processing"]
  <2>1. row \in Row /\ row.status = "processing" /\ row.subject = events[e].subject
        /\ row.createdAt = events[e].createdAt
    BY <1>1 DEF Row, Stati
  <2>2. Move(e, "pending", row)
    BY <1>2 DEF Claim
  <2> HIDE DEF row
  <2>3. QED
    BY <2>1, <2>2, MoveStep
<1>3. CASE Publish(e)
  <2> DEFINE row == [events[e] EXCEPT !.status = "completed", !.processedAt = clock]
  <2>1. row \in Row /\ row.status = "completed" /\ row.subject = events[e].subject
        /\ row.createdAt = events[e].createdAt
    BY <1>1 DEF Row, Stati
  <2>2. Move(e, "processing", row)
    BY <1>3 DEF Publish
  <2> HIDE DEF row
  <2>3. QED
    BY <2>1, <2>2, MoveStep
<1>4. CASE GiveUp(e)
  <2> DEFINE row == [events[e] EXCEPT !.status = "failed", !.processedAt = clock]
  <2>1. row \in Row /\ row.status = "failed" /\ row.subject = events[e].subject
        /\ row.createdAt = events[e].createdAt
    BY <1>1 DEF Row, Stati
  <2>2. Move(e, "processing", row)
    BY <1>4 DEF GiveUp
  <2> HIDE DEF row
  <2>3. QED
    BY <2>1, <2>2, MoveStep
<1>5. CASE Retry(e)
  <2> DEFINE row == [events[e] EXCEPT !.status = "processing", !.retries = @ + 1]
  <2>1. row \in Row /\ row.status = "processing" /\ row.subject = events[e].subject
        /\ row.createdAt = events[e].createdAt
    BY <1>1, RetriedIsRow
  <2>2. Move(e, "failed", row)
    BY <1>5 DEF Retry
  <2> HIDE DEF row
  <2>3. QED
    BY <2>1, <2>2, MoveStep
<1>6. QED
  BY <1>2, <1>3, <1>4, <1>5 DEF Processor

--------------------------------------------------------------------------------
(***************************************************************************)
(* The clean-up job and the clock.                                         *)
(***************************************************************************)
LEMMA TickStep ==
  ASSUME EventsInv, Tick
  PROVE  EventsInv'
<1>1. clock' = clock + 1 /\ UNCHANGED << events, issued, commitTs, job, client >>
  BY DEF Tick, table
<1>2. TypeOK'
  BY <1>1 DEF EventsInv, TypeOK, client
<1>3. CutoffsArePast'
  <2> SUFFICES ASSUME NEW j \in Jobs, job[j].state = "running"
               PROVE  /\ job[j].completedCutoff <= clock' - CompletedRetention
                      /\ job[j].failedCutoff <= clock' - FailedRetention
    BY <1>1 DEF CutoffsArePast
  <2>1. job[j].completedCutoff \in Int /\ job[j].failedCutoff \in Int /\ clock \in Nat
    BY DEF EventsInv, TypeOK, Job
  <2>2. /\ job[j].completedCutoff <= clock - CompletedRetention
        /\ job[j].failedCutoff <= clock - FailedRetention
    BY DEF EventsInv, CutoffsArePast
  <2>3. QED
    BY <1>1, <2>1, <2>2, TimeAssumption
<1>4. Fading
  BY <1>1 DEF Fading, Stored
<1>5. PollerMissesNothing'
  BY <1>1, <1>4, PollerStillMissesNothing DEF EventsInv
<1>6. QED
  BY <1>1, <1>2, <1>3, <1>5 DEF EventsInv, StoredWereIssued, Stored, client

\* A run of the job that ends holds no cutoffs, and one that begins holds those of
\* the clock.
LEMMA JobStep ==
  ASSUME EventsInv, NEW j \in Jobs,
         (\E dryRun \in BOOLEAN : StartJob(j, dryRun)) \/ DryRun(j) \/ FailJob(j)
  PROVE  EventsInv'
<1>1. UNCHANGED << events, issued, commitTs, clock, client >>
  BY DEF StartJob, DryRun, FailJob, table
<1>2. PICK new \in Job :
        /\ job' = [job EXCEPT ![j] = new]
        /\ new.state = "running" =>
             /\ new.completedCutoff = clock - CompletedRetention
             /\ new.failedCutoff = clock - FailedRetention
  <2>1. CASE \E dryRun \in BOOLEAN : StartJob(j, dryRun)
    <3>1. PICK dryRun \in BOOLEAN : StartJob(j, dryRun)
      BY <2>1
    <3> DEFINE new == [state |-> "running", dryRun |-> dryRun,
                       completedCutoff |-> clock - CompletedRetention,
                       failedCutoff |-> clock - FailedRetention]
    <3>2. new \in Job
      BY TimeAssumption DEF EventsInv, TypeOK, Job
    <3>3. job' = [job EXCEPT ![j] = new]
      BY <3>1 DEF StartJob
    <3>4. QED
      BY <3>2, <3>3
  <2>2. CASE DryRun(j)
    <3> DEFINE state == IF EndOfResult(IteratorDone) THEN "idle" ELSE "failed"
    <3>1. state \in {"idle", "failed"}
      OBVIOUS
    <3>2. job' = [job EXCEPT ![j] = Ended(state, TRUE)]
      BY <2>2 DEF DryRun
    <3> HIDE DEF state
    <3>3. Ended(state, TRUE) \in Job /\ Ended(state, TRUE).state # "running"
      BY <3>1 DEF Ended, Job
    <3>4. QED
      BY <3>2, <3>3
  <2>3. CASE FailJob(j)
    <3>1. Ended("idle", FALSE) \in Job /\ Ended("idle", FALSE).state # "running"
      BY DEF Ended, Job
    <3>2. QED
      BY <2>3, <3>1 DEF FailJob
  <2>4. QED
    BY <2>1, <2>2, <2>3
<1>3. /\ job' \in [Jobs -> Job]
      /\ \A i \in Jobs : job'[i] = IF i = j THEN new ELSE job[i]
  BY <1>2 DEF EventsInv, TypeOK
<1>4. TypeOK'
  BY <1>1, <1>3 DEF EventsInv, TypeOK, client
<1>5. CutoffsArePast'
  <2>1. clock - CompletedRetention \in Int /\ clock - FailedRetention \in Int
    BY TimeAssumption DEF EventsInv, TypeOK
  <2>2. QED
    BY <1>1, <1>2, <1>3, <2>1 DEF EventsInv, CutoffsArePast
<1>6. Fading
  BY <1>1 DEF Fading, Stored
<1>7. PollerMissesNothing'
  BY <1>1, <1>6, PollerStillMissesNothing DEF EventsInv
<1>8. QED
  BY <1>1, <1>4, <1>5, <1>7 DEF EventsInv, StoredWereIssued, Stored, client

\* The clean-up keeps it: it deletes settled rows before cutoffs that are past.
LEMMA CleanUpStep ==
  ASSUME EventsInv, NEW j \in Jobs, CleanUp(j)
  PROVE  EventsInv'
<1>1. UNCHANGED << issued, commitTs, clock, client >>
      /\ job' = [job EXCEPT ![j] = Ended("idle", FALSE)]
  BY DEF CleanUp
<1>2. /\ events' \in [Events -> Row \cup {None}]
      /\ \A e \in Events : events'[e] = None \/ events'[e] = events[e]
  BY DEF CleanUp, EventsInv, TypeOK
<1>3. Stored' \subseteq Stored /\ \A e \in Stored' : events'[e] = events[e]
  BY <1>2 DEF Stored
<1>4. Ended("idle", FALSE) \in Job /\ Ended("idle", FALSE).state # "running"
  BY DEF Ended, Job
<1>5. /\ job' \in [Jobs -> Job]
      /\ \A i \in Jobs : job'[i] = IF i = j THEN Ended("idle", FALSE) ELSE job[i]
  BY <1>1, <1>4 DEF EventsInv, TypeOK
<1>6. TypeOK'
  BY <1>1, <1>2, <1>5 DEF EventsInv, TypeOK, client
<1>7. CutoffsArePast'
  BY <1>1, <1>4, <1>5 DEF EventsInv, CutoffsArePast
<1>8. Fading
  BY <1>3 DEF Fading
<1>9. PollerMissesNothing'
  BY <1>1, <1>8, PollerStillMissesNothing DEF EventsInv
<1>10. QED
  BY <1>1, <1>3, <1>6, <1>7, <1>9 DEF EventsInv, StoredWereIssued, client

--------------------------------------------------------------------------------
(***************************************************************************)
(* A poll.  If some new event were left out, the answer would hold only    *)
(* newer ones, and be full: there would be more of them than the limit.    *)
(***************************************************************************)
LEMMA PollStep ==
  ASSUME EventsInv, NEW n \in Limits, n \in Nat, Poll(n)
  PROVE  EventsInv'
<1>1. PICK S \in SUBSET Matching : Answer(S, n) /\ seen' = seen \cup S
  BY DEF Poll
<1>2. /\ keepsUp' = (keepsUp /\ Cardinality(New) <= n) /\ lastPoll' = commitTs
      /\ UNCHANGED << events, issued, commitTs, clock, job, filter >>
  BY DEF Poll, table
<1>3. Matching \subseteq Stored /\ Stored \subseteq Events /\ New \subseteq Matching
  BY DEF Matching, Stored, New
<1>4. TypeOK'
  BY <1>1, <1>2, <1>3 DEF EventsInv, TypeOK
<1>5. \A e \in Matching : CreatedAt[e] = events[e].createdAt /\ events[e].createdAt \in Nat
  BY <1>3 DEF CreatedAt, EventsInv, TypeOK, Stored, Row
<1>6. ASSUME keepsUp', NEW e \in Matching, e \notin seen
      PROVE  e \in S
  <2> SUFFICES ASSUME e \notin S PROVE FALSE
    OBVIOUS
  <2>1. e \in New
    BY <1>2, <1>6 DEF EventsInv, PollerMissesNothing
  <2>2. IsFiniteSet(New) /\ Cardinality(New) \in Nat
    BY <1>3, EventsAssumption, FS_Subset, FS_CardinalityType
  <2>3. IsFiniteSet(S) /\ Cardinality(S) \in Nat
    BY <1>3, EventsAssumption, FS_Subset, FS_CardinalityType
  <2>4. S \subseteq New \ {e}
    <3> SUFFICES ASSUME NEW f \in S PROVE f \in New
      OBVIOUS
    <3>1. CreatedAt[f] >= CreatedAt[e]
      BY <1>1, <1>6 DEF Answer, Newest
    <3>2. events[e].createdAt > lastPoll /\ f \in Matching
      BY <2>1 DEF New
    <3>3. lastPoll \in Nat
      BY DEF EventsInv, TypeOK
    <3>4. QED
      BY <1>5, <3>1, <3>2, <3>3 DEF New
  <2>5. /\ IsFiniteSet(New \ {e}) /\ Cardinality(New \ {e}) = Cardinality(New) - 1
    BY <2>1, <2>2, FS_RemoveElement
  <2>6. Cardinality(S) <= Cardinality(New \ {e})
    BY <2>4, <2>5, FS_Subset
  <2>7. Cardinality(New) <= n
    BY <1>2, <1>6
  <2>8. Cardinality(S) < n
    BY <2>2, <2>3, <2>5, <2>6, <2>7
  <2>9. S = Matching
    BY <1>1, <2>8 DEF Answer, Newest
  <2>10. QED
    BY <1>6, <2>9
<1>7. Matching' = Matching
  BY <1>2 DEF Matching, Stored
<1>8. PollerMissesNothing'
  BY <1>1, <1>6, <1>7 DEF PollerMissesNothing
<1>9. lastPoll' <= commitTs'
  BY <1>2 DEF EventsInv, TypeOK
<1>10. QED
  BY <1>2, <1>4, <1>8, <1>9 DEF EventsInv, StoredWereIssued, Stored, CutoffsArePast

\* The limit Spanner is given is one.
LEMMA LimitsInRange == Limits \subseteq 1 .. MaxLimit
<1>1. ASSUME NEW n \in Int PROVE Effective(n) \in 1 .. MaxLimit
  BY LimitAssumption DEF Effective
<1>2. ASSUME NEW n \in Asked PROVE n \in Int /\ HttpLimit(n) \in Int
  <2>1. n \in Int /\ Width \in Nat /\ Width > 0
    BY LimitAssumption
  <2>2. Width \div 2 \in Int
    BY <2>1
  <2>3. (n + Width \div 2) % Width \in Int
    BY <2>1, <2>2
  <2>4. Int32(n) \in Int
    BY <2>2, <2>3 DEF Int32
  <2>5. QED
    BY <2>1, <2>4, LimitAssumption DEF HttpLimit
<1>3. QED
  BY <1>1, <1>2 DEF Limits

--------------------------------------------------------------------------------
\* The invariant is inductive.
LEMMA EventsInductive == EventsInv /\ [Next]_vars => EventsInv'
<1> SUFFICES ASSUME EventsInv, [Next]_vars PROVE EventsInv'
  OBVIOUS
<1>1. CASE UNCHANGED vars
  BY <1>1 DEF vars, EventsInv, TypeOK, StoredWereIssued, Stored, CutoffsArePast,
              PollerMissesNothing, Matching, New
<1>2. ASSUME NEW n \in Limits, Poll(n) PROVE EventsInv'
  <2>1. n \in Nat
    BY LimitsInRange
  <2>2. QED
    BY <1>2, <2>1, PollStep
<1>3. QED
  BY <1>1, <1>2, InsertStep, ProcessorStep, TickStep, JobStep, CleanUpStep DEF Next

\* It holds for ever.
LEMMA EventsInvariant == Spec => []EventsInv
BY EventsInitially, EventsInductive, PTL DEF Spec

\* Every variable keeps its range, the rows of the table included.
THEOREM EventsTyped == Spec => []TypeOK
<1>1. EventsInv => TypeOK
  BY DEF EventsInv
<1>2. QED
  BY <1>1, EventsInvariant, PTL

\* A client that polls often enough for its limit misses no event.
THEOREM NothingMissedByPoller == Spec => []PollerMissesNothing
<1>1. EventsInv => PollerMissesNothing
  BY DEF EventsInv
<1>2. QED
  BY <1>1, EventsInvariant, PTL

\* The clean-up deletes no event that is waiting, in work, or younger than its
\* status allows, however long its transaction comes after its reading of the
\* clock.
THEOREM RetentionIsKept == Spec => RetentionKept
<1> DEFINE Keeps ==
      \A e \in Stored : events'[e] = None =>
        \/ events[e].status = "completed" /\ clock - events[e].processedAt > CompletedRetention
        \/ events[e].status = "failed" /\ clock - events[e].processedAt > FailedRetention
<1>1. EventsInv /\ [Next]_vars => [Keeps]_vars
  <2> SUFFICES ASSUME EventsInv, Next, NEW e \in Stored, events'[e] = None
               PROVE  \/ /\ events[e].status = "completed"
                         /\ clock - events[e].processedAt > CompletedRetention
                      \/ /\ events[e].status = "failed"
                         /\ clock - events[e].processedAt > FailedRetention
    OBVIOUS
  <2> USE NoneAssumption
  <2>1. e \in Events /\ events[e] # None /\ events[e] \in Row
    BY DEF Stored, EventsInv, TypeOK
  <2>2. ASSUME NEW a \in Events, NEW b \in Events, NEW subject \in Subjects,
               Insert(a, b, subject)
        PROVE  FALSE
    <3>1. e \in issued /\ e # a /\ e # b
      BY <2>2 DEF EventsInv, StoredWereIssued, Insert
    <3>2. QED
      BY <2>1, <2>2, <3>1 DEF Insert, EventsInv, TypeOK
  <2>3. ASSUME NEW a \in Events, Processor(a) PROVE FALSE
    <3>1. EventsInv' /\ events[a] # None
      BY <2>3, ProcessorStep DEF Processor, Claim, Publish, GiveUp, Retry, Move
    <3>2. events[a] \in Row /\ clock \in Nat
      BY <3>1 DEF EventsInv, TypeOK
    <3>3. PICK row : row # None /\ events' = [events EXCEPT ![a] = row]
      <4>1. CASE Claim(a)
        BY <3>2, <4>1, [events[a] EXCEPT !.status = "processing"] \in Row
           DEF Claim, Move, Row, Stati
      <4>2. CASE Publish(a)
        BY <3>2, <4>2, [events[a] EXCEPT !.status = "completed", !.processedAt = clock] \in Row
           DEF Publish, Move, Row, Stati
      <4>3. CASE GiveUp(a)
        BY <3>2, <4>3, [events[a] EXCEPT !.status = "failed", !.processedAt = clock] \in Row
           DEF GiveUp, Move, Row, Stati
      <4>4. CASE Retry(a)
        <5>1. [events[a] EXCEPT !.status = "processing", !.retries = @ + 1] \in Row
          BY <3>2, RetriedIsRow
        <5>2. QED
          BY <4>4, <5>1 DEF Retry, Move
      <4>5. QED
        BY <2>3, <4>1, <4>2, <4>3, <4>4 DEF Processor
    <3>4. QED
      BY <2>1, <3>3 DEF EventsInv, TypeOK
  <2>4. ASSUME NEW j \in Jobs, CleanUp(j)
        PROVE  \/ /\ events[e].status = "completed"
                  /\ clock - events[e].processedAt > CompletedRetention
               \/ /\ events[e].status = "failed"
                  /\ clock - events[e].processedAt > FailedRetention
    <3>1. Expired(events[e], job[j].completedCutoff, job[j].failedCutoff)
      BY <2>1, <2>4 DEF CleanUp
    <3>2. /\ job[j].completedCutoff <= clock - CompletedRetention
          /\ job[j].failedCutoff <= clock - FailedRetention
      BY <2>4 DEF CleanUp, EventsInv, CutoffsArePast
    <3>3. /\ job[j].completedCutoff \in Int /\ job[j].failedCutoff \in Int
          /\ clock \in Nat
      BY DEF EventsInv, TypeOK, Job
    <3>4. events[e].processedAt \in Nat
      BY <2>1, <3>1 DEF Row, Expired
    <3>5. QED
      BY <3>1, <3>2, <3>3, <3>4, TimeAssumption DEF Expired
  <2>5. ASSUME UNCHANGED events PROVE FALSE
    BY <2>1, <2>5
  <2>6. QED
    BY <2>2, <2>3, <2>4, <2>5
       DEF Next, Tick, StartJob, DryRun, FailJob, Poll, table
<1>2. QED
  BY <1>1, EventsInvariant, PTL DEF Spec, RetentionKept
--------------------------------------------------------------------------------
(***************************************************************************)
(* Every query has an answer.  By induction on the limit: where the newest *)
(* rows are taken, the newest of the rest can be taken too.                *)
(***************************************************************************)

\* A set of numbers that is not empty has a least member.
LEMMA LeastNumber ==
  ASSUME NEW T, T \subseteq Nat, T # {}
  PROVE  \E x \in T : \A y \in T : x <= y
<1> DEFINE R == OpToRel(<, Nat)
<1>1. IsWellFoundedOn(R, Nat)
  BY NatLessThanWellFounded
<1>2. \A x, y \in Nat : x < y => << x, y >> \in R
  BY DEF OpToRel
<1> HIDE DEF R
<1>3. PICK x \in T : \A y \in T : ~ (<< y, x >> \in R)
  BY <1>1, WFMin
<1>4. \A y \in T : ~(y < x)
  BY <1>2, <1>3
<1>5. QED
  BY <1>4

\* A finite set of rows that is not empty has one no other is newer than: the one
\* with the fewest newer rows.
LEMMA NewestRow ==
  ASSUME NEW M, IsFiniteSet(M), M # {}, NEW at, \A x \in M : at[x] \in Nat
  PROVE  \E x \in M : \A y \in M : at[x] >= at[y]
<1> DEFINE newer(x) == {y \in M : at[y] > at[x]}
           T == {Cardinality(newer(x)) : x \in M}
<1>1. \A x \in M : IsFiniteSet(newer(x)) /\ Cardinality(newer(x)) \in Nat
  BY FS_Subset, FS_CardinalityType
<1>2. T \subseteq Nat /\ T # {}
  BY <1>1
<1>3. PICK c \in T : \A d \in T : c <= d
  BY <1>2, LeastNumber
<1>4. PICK x \in M : \A y \in M : Cardinality(newer(x)) <= Cardinality(newer(y))
  BY <1>3
<1>5. ASSUME NEW y \in M, at[y] > at[x] PROVE FALSE
  <2>1. newer(y) \subseteq newer(x) /\ y \in newer(x) /\ y \notin newer(y)
    BY <1>5
  <2>2. /\ IsFiniteSet(newer(x) \ {y})
        /\ Cardinality(newer(x) \ {y}) = Cardinality(newer(x)) - 1
    BY <1>1, <2>1, FS_RemoveElement
  <2>3. Cardinality(newer(y)) <= Cardinality(newer(x) \ {y})
    BY <2>1, <2>2, FS_Subset
  <2>4. Cardinality(newer(x)) <= Cardinality(newer(y))
    BY <1>4
  <2> HIDE DEF newer
  <2>5. QED
    BY <1>1, <2>2, <2>3, <2>4
<1>6. \A y \in M : at[x] >= at[y]
  BY <1>5
<1>7. QED
  BY <1>6

\* The answer to a limit of n, and the newest row it leaves out, answer n + 1.
LEMMA NewestExtends ==
  ASSUME NEW M, IsFiniteSet(M), NEW at, \A x \in M : at[x] \in Nat,
         NEW n \in Nat, NEW S, Newest(S, M, n, at)
  PROVE  \E U \in SUBSET M : Newest(U, M, n + 1, at)
<1>1. /\ S \subseteq M /\ Cardinality(S) <= n
      /\ Cardinality(S) < n => S = M
      /\ \A x \in S, y \in M \ S : at[x] >= at[y]
  BY DEF Newest
<1>2. IsFiniteSet(S) /\ Cardinality(S) \in Nat
  BY <1>1, FS_Subset, FS_CardinalityType
<1>3. CASE S = M
  <2>1. Cardinality(S) <= n + 1
    BY <1>1, <1>2
  <2>2. Newest(S, M, n + 1, at)
    BY <1>1, <1>3, <2>1 DEF Newest
  <2>3. QED
    BY <1>1, <2>2
<1>4. CASE S # M
  <2>1. M \ S # {} /\ IsFiniteSet(M \ S) /\ \A x \in M \ S : at[x] \in Nat
    BY <1>1, <1>4, FS_Difference
  <2>2. PICK x \in M \ S : \A y \in M \ S : at[x] >= at[y]
    BY <2>1, NewestRow
  <2>3. Cardinality(S \cup {x}) = n + 1
    <3>1. Cardinality(S) = n
      BY <1>1, <1>2, <1>4
    <3>2. Cardinality(S \cup {x}) = Cardinality(S) + 1
      BY <1>2, FS_AddElement
    <3>3. QED
      BY <3>1, <3>2
  <2>4. Newest(S \cup {x}, M, n + 1, at)
    <3>1. S \cup {x} \subseteq M
      BY <1>1
    <3>2. \A u \in S \cup {x}, v \in M \ (S \cup {x}) : at[u] >= at[v]
      BY <1>1, <2>2
    <3>3. Cardinality(S \cup {x}) <= n + 1 /\ ~(Cardinality(S \cup {x}) < n + 1)
      BY <2>3
    <3>4. QED
      BY <3>1, <3>2, <3>3 DEF Newest
  <2>5. QED
    BY <1>1, <2>4
<1>5. QED
  BY <1>3, <1>4

\* A query over finitely many rows has an answer, whatever its limit.
LEMMA NewestExist ==
  ASSUME NEW M, IsFiniteSet(M), NEW at, \A x \in M : at[x] \in Nat, NEW n \in Nat
  PROVE  \E S \in SUBSET M : Newest(S, M, n, at)
<1> DEFINE answered(k) == \E S \in SUBSET M : Newest(S, M, k, at)
           T == {k \in Nat : ~answered(k)}
<1>1. answered(0)
  <2>1. Cardinality({}) = 0
    BY FS_EmptySet
  <2>2. Newest({}, M, 0, at)
    BY <2>1 DEF Newest
  <2>3. QED
    BY <2>2
<1>2. \A k \in Nat : answered(k) => answered(k + 1)
  BY NewestExtends
<1> HIDE DEF answered
<1>3. ASSUME T # {} PROVE FALSE
  <2>1. PICK k \in T : \A j \in T : k <= j
    BY <1>3, LeastNumber
  <2>2. k \in Nat /\ k # 0
    BY <1>1
  <2>3. k - 1 \in Nat /\ k - 1 \notin T /\ (k - 1) + 1 = k
    BY <2>1, <2>2
  <2>4. answered(k)
    BY <1>2, <2>3
  <2>5. QED
    BY <2>4
<1>4. answered(n)
  BY <1>3
<1>5. QED
  BY <1>4 DEF answered

\* Over HTTP never is more asked of Spanner than the positive number given: a number
\* that does not fit an int32 is above the maximum.
LEMMA HttpAsksNoMore ==
  ASSUME NEW n \in Int, n > 0
  PROVE  Effective(HttpLimit(n)) <= n
<1> DEFINE half == Width \div 2
<1>1. Width \in Nat /\ Width > 0 /\ half \in Nat /\ Width = 2 * half
  BY LimitAssumption
<1>2. MaxLimit \in Nat /\ MaxLimit < half /\ DefaultLimit \in Nat /\ DefaultLimit <= MaxLimit
  BY <1>1, LimitAssumption
<1>3. HttpLimit(n) = ((n + half) % Width) - half
  BY DEF HttpLimit, Int32
<1> HIDE DEF half
<1>4. CASE n < half
  <2>1. n + half \in Nat /\ n + half < Width
    BY <1>1, <1>4
  <2>2. (n + half) % Width = n + half
    BY <1>1, <2>1
  <2>3. HttpLimit(n) = n
    BY <1>1, <1>3, <2>2
  <2>4. QED
    BY <1>2, <2>3 DEF Effective
<1>5. CASE n >= half
  <2>1. (n + half) % Width \in Int
    BY <1>1
  <2>2. HttpLimit(n) \in Int
    BY <1>1, <1>3, <2>1
  <2>3. Effective(HttpLimit(n)) <= MaxLimit
    BY <1>2, <2>2 DEF Effective
  <2>4. Effective(HttpLimit(n)) \in Int
    BY <1>2, <2>2 DEF Effective
  <2>5. QED
    BY <1>1, <1>2, <1>5, <2>3, <2>4
<1>6. QED
  BY <1>1, <1>4, <1>5

\* Every poll is answered, with no more events than its limit, and with one if any
\* matches.
LEMMA PollsAnswered == TypeOK => PollsAreAnswered
<1> SUFFICES ASSUME TypeOK, Matching # {} PROVE PollsAreAnswered
  BY DEF PollsAreAnswered
<1>1. IsFiniteSet(Matching) /\ Matching \subseteq Stored
  <2>1. Matching \subseteq Events
    BY DEF Matching, Stored
  <2>2. QED
    BY <2>1, EventsAssumption, FS_Subset DEF Matching
<1>2. \A e \in Matching : CreatedAt[e] \in Nat
  BY <1>1 DEF CreatedAt, TypeOK, Stored, Row
<1>3. ASSUME NEW n \in Nat, NEW S \in SUBSET Matching, Answer(S, n)
      PROVE  IsFiniteSet(S) /\ Cardinality(S) \in Nat /\ Cardinality(S) <= n
  BY <1>1, <1>3, FS_Subset, FS_CardinalityType DEF Answer, Newest
<1>4. ASSUME NEW n \in Limits
      PROVE  /\ n \in Nat /\ n > 0 /\ n <= MaxLimit
             /\ \E S \in SUBSET Matching : Answer(S, n)
  <2>1. n \in 1 .. MaxLimit
    BY LimitsInRange
  <2>2. n \in Nat /\ n > 0 /\ n <= MaxLimit
    BY <2>1, LimitAssumption
  <2>3. QED
    BY <1>1, <1>2, <2>2, NewestExist DEF Answer
<1>5. ASSUME NEW n \in Limits, NEW S \in SUBSET Matching, Answer(S, n)
      PROVE  S # {} /\ Cardinality(S) <= MaxLimit
  <2>1. n \in Nat /\ n > 0 /\ n <= MaxLimit
    BY <1>4
  <2>2. Cardinality(S) \in Nat /\ Cardinality(S) <= n
    BY <1>3, <1>5, <2>1
  <2>3. Cardinality(S) <= MaxLimit
    BY <2>1, <2>2, LimitAssumption
  <2>4. ASSUME S = {} PROVE FALSE
    <3>1. Cardinality(S) = 0
      BY <2>4, FS_EmptySet
    <3>2. S = Matching
      BY <1>5, <2>1, <3>1 DEF Answer, Newest
    <3>3. QED
      BY <2>4, <3>2
  <2>5. QED
    BY <2>3, <2>4
<1>6. ASSUME NEW n \in Asked, NEW S \in SUBSET Matching, n > 0,
             Answer(S, Effective(HttpLimit(n)))
      PROVE  Cardinality(S) <= n
  <2>1. Effective(HttpLimit(n)) \in Limits
    BY DEF Limits
  <2> DEFINE limit == Effective(HttpLimit(n))
  <2>2. limit \in Nat
    BY <1>4, <2>1
  <2>3. n \in Int /\ limit <= n
    BY <1>6, HttpAsksNoMore, LimitAssumption
  <2>4. Answer(S, limit)
    BY <1>6
  <2> HIDE DEF limit
  <2>5. Cardinality(S) \in Nat /\ Cardinality(S) <= limit
    BY <1>3, <2>2, <2>4
  <2>6. QED
    BY <2>2, <2>3, <2>5
<1>7. QED
  BY <1>4, <1>5, <1>6 DEF PollsAreAnswered

\* Whatever limit a client gives, also one the 32 bits of the message wrap, its query
\* has an answer that shows an event if one matches, and not more than it may.
THEOREM EveryPollIsAnswered == Spec => []PollsAreAnswered
<1>1. EventsInv => PollsAreAnswered
  BY PollsAnswered DEF EventsInv
<1>2. QED
  BY <1>1, EventsInvariant, PTL
================================================================================
