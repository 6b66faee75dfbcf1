----------------------------- MODULE CommandReplies -----------------------------
(***************************************************************************)
(* The clients of the command side: each has one update in mind, sends it, *)
(* may lose the answer, and sends it again.  A worker whose client no      *)
(* longer waits goes on all the same, and may still commit.                *)
(***************************************************************************)
EXTENDS ProductCommands

CONSTANTS
  Clients,
  VersionGiven,   \* whether clients put a version into their requests
  MaxAttempts     \* bound: how often a client sends its request

ASSUME ClientsAssumption ==
  /\ VersionGiven \subseteq BOOLEAN /\ MaxAttempts \in Nat
  /\ None \notin Clients /\ None \notin Workers

VARIABLES
  command,    \* the request each client has in mind, or None
  given,      \* whether it holds a version
  attempts,   \* how often the client has sent it
  server,     \* the worker whose answer the client is waiting for, or None
  answer,     \* what ended its last attempt, "none" before and "waiting" during it
  client,     \* the client each worker is serving, or None
  applied     \* ghost: the versions that commits of a client's request have made,
              \* one entry for each commit

clients == << command, given, attempts, server, answer, client, applied >>
all == << vars, clients >>

ReplyInit ==
  /\ Init
  /\ command = [c \in Clients |-> None]
  /\ given \in [Clients -> VersionGiven]
  /\ attempts = [c \in Clients |-> 0]
  /\ server = [c \in Clients |-> None]
  /\ answer = [c \in Clients |-> "none"]
  /\ client = [w \in Workers |-> None]
  /\ applied = [c \in Clients |-> << >>]

--------------------------------------------------------------------------------
\* Mutant: a failure of Spanner is taken for a precondition.
CodeGuessed(cause) ==
  CASE cause = "nil" -> "OK"
    [] cause \in {"conflict", "ErrMoneyOverflow", "ErrInvalidDiscount"} -> "Internal"
    [] cause \in {"unavailable", "deadline"} -> "Unavailable"
    [] OTHER -> "FailedPrecondition"

(***************************************************************************)
(* The code a client gets.  mapDomainErrorToGRPC knows the errors of the   *)
(* domain by name; whatever else ends a call is Internal: a version        *)
(* conflict, a price that does not fit, a failure of Spanner.  A discount  *)
(* whose end is not after its start has a code, one that lasts too long    *)
(* has none.  A client without an answer sees its own deadline or a broken *)
(* connection.                                                             *)
(***************************************************************************)
Code(cause) ==
  CASE cause = "nil" -> "OK"
    [] cause = "ErrProductNotFound" -> "NotFound"
    [] cause \in {"ErrEmptyName", "ErrInvalidPrice", "ErrInvalidCategory",
                  "ErrInvalidDiscountPeriod"} -> "InvalidArgument"
    [] cause \in {"ErrDiscountAlreadyActive", "ErrCannotApplyToInactive",
                  "ErrAlreadyActive", "ErrAlreadyInactive", "ErrAlreadyArchived",
                  "ErrCannotModifyArchived"} -> "FailedPrecondition"
    [] cause \in {"unavailable", "deadline"} -> "Unavailable"
    [] OTHER -> "Internal"

\* The error of the domain part of a call.
ErrorOf(w) ==
  LET r == request[w].body
      err == Execute(r, product[w], clock).err
  IN  IF err = "ErrInvalidDiscount" /\ r.arg.start >= r.arg.end
      THEN "ErrInvalidDiscountPeriod" ELSE err

Waiting(c) == answer[c] = "waiting"

\* The worker's call returns: its client, if it still waits, gets the answer.
Reply(w, cause) ==
  /\ client' = [client EXCEPT ![w] = None]
  /\ IF client[w] # None /\ server[client[w]] = w
     THEN /\ answer' = [answer EXCEPT ![client[w]] = cause]
          /\ server' = [server EXCEPT ![client[w]] = None]
     ELSE UNCHANGED << answer, server >>

--------------------------------------------------------------------------------
\* A client sends its request: the first time any, then the same again as long
\* as the code it got leaves the outcome open.
Undecided(c) ==
  \/ answer[c] = "none"
  \/ answer[c] # "waiting" /\ Code(answer[c]) \in {"Internal", "Unavailable"}

Send(c, w) ==
  /\ Undecided(c) /\ attempts[c] < MaxAttempts
  /\ Receive(w)
  /\ command[c] # None => request'[w] = command[c]
  /\ ~given[c] => request'[w].version = 0
  /\ command' = [command EXCEPT ![c] = request'[w]]
  /\ attempts' = [attempts EXCEPT ![c] = @ + 1]
  /\ client' = [client EXCEPT ![w] = c]
  /\ server' = [server EXCEPT ![c] = w]
  /\ answer' = [answer EXCEPT ![c] = "waiting"]
  /\ UNCHANGED << given, applied >>

\* Mutant: the client is still taken to wait for its worker.
GiveUpWaitingOpen(c) ==
  /\ Waiting(c)
  /\ answer' = [answer EXCEPT ![c] = "deadline"]
  /\ UNCHANGED << vars, command, given, attempts, server, client, applied >>

\* The deadline of the client passes; the worker notices later or not at all.
GiveUpWaiting(c) ==
  /\ Waiting(c)
  /\ answer' = [answer EXCEPT ![c] = "deadline"]
  /\ server' = [server EXCEPT ![c] = None]
  /\ UNCHANGED << vars, command, given, attempts, client, applied >>

\* A creation, by a client that does not count here.
Found(w) == StartCreate(w) /\ UNCHANGED clients

\* GetByID fails with not found; with any other error there is no name for it.
LoadCause(w) ==
  IF rows[request[w].id] = None THEN "ErrProductNotFound" ELSE "unloadable"

Serve(w) ==
  /\ \/ Load(w) /\ (IF pc'[w] = "loaded" THEN UNCHANGED << client, answer, server >>
                    ELSE Reply(w, LoadCause(w)))
     \/ Mutate(w) /\ (IF pc'[w] = "mutated" THEN UNCHANGED << client, answer, server >>
                      ELSE Reply(w, ErrorOf(w)))
     \/ Plan(w) /\ (IF pc'[w] = "planned" THEN UNCHANGED << client, answer, server >>
                    ELSE Reply(w, "ErrMoneyOverflow"))
  /\ UNCHANGED << command, given, attempts, applied >>

CommitWith(w, cause) ==
  /\ Commit(w)
  /\ Reply(w, cause)
  /\ applied' = IF client[w] = None THEN applied
                ELSE [applied EXCEPT ![client[w]] = Append(@, rows'[request[w].id].version)]
  /\ UNCHANGED << command, given, attempts >>

CommitReply(w) == CommitWith(w, "nil")

\* The transaction took effect, and Spanner's answer to the server is lost.
CommitInDoubt(w) == CommitWith(w, "failed")

\* Mutant: a conflict starts the call again, with the version that was refused.
ConflictStartsAgain(w) ==
  /\ pc[w] = "planned"
  /\ ~VersionCheck(w)
  /\ pc' = [pc EXCEPT ![w] = "received"]
  /\ product' = [product EXCEPT ![w] = None]
  /\ outcome' = [outcome EXCEPT ![w] = None]
  /\ record' = [record EXCEPT ![w] = None]
  /\ UNCHANGED << tables, clock, request, clients >>

ConflictReply(w) ==
  /\ Conflict(w)
  /\ Reply(w, "conflict")
  /\ UNCHANGED << command, given, attempts, applied >>

FailReply(w) ==
  /\ Fail(w)
  /\ Reply(w, "failed")
  /\ UNCHANGED << command, given, attempts, applied >>

\* The connections break with the process.
CrashReply ==
  /\ Crash
  /\ client' = [w \in Workers |-> None]
  /\ server' = [c \in Clients |-> None]
  /\ answer' = [c \in Clients |-> IF Waiting(c) THEN "unavailable" ELSE answer[c]]
  /\ UNCHANGED << command, given, attempts, applied >>

PanicReply(w) == Panic(w) /\ CrashReply

Finish(w) == Serve(w) \/ CommitReply(w) \/ ConflictReply(w) \/ PanicReply(w)

\* All clients have what they wanted, or give up; no call is under way.
Settled ==
  /\ \A w \in Workers : pc[w] = "idle"
  /\ \A c \in Clients : ~Waiting(c) /\ answer[c] # "none"
  /\ UNCHANGED all

ReplyNext ==
  \/ \E c \in Clients :
       GiveUpWaiting(c) \/ \E w \in Workers : Send(c, w)
  \/ \E w \in Workers : Found(w) \/ Finish(w) \/ CommitInDoubt(w) \/ FailReply(w)
  \/ CrashReply
  \/ Settled

ReplySpec == ReplyInit /\ [][ReplyNext]_all

\* A goroutine that is serving a call is scheduled.
FairReplySpec == ReplySpec /\ \A w \in Workers : WF_all(Finish(w))

--------------------------------------------------------------------------------
Causes ==
  {"none", "waiting", "nil", "ErrProductNotFound", "unloadable", "ErrMoneyOverflow",
   "conflict", "failed", "unavailable", "deadline", "ErrEmptyName", "ErrInvalidPrice",
   "ErrInvalidCategory", "ErrInvalidDiscount", "ErrInvalidDiscountPeriod",
   "ErrDiscountAlreadyActive", "ErrCannotApplyToInactive", "ErrAlreadyActive",
   "ErrAlreadyInactive", "ErrAlreadyArchived", "ErrCannotModifyArchived"}

\* A client waits for the worker that serves it, and for no other.
ReplyTypeOK ==
  /\ command \in [Clients -> Request \cup {None}]
  /\ given \in [Clients -> BOOLEAN]
  /\ attempts \in [Clients -> 0 .. MaxAttempts]
  /\ answer \in [Clients -> Causes]
  /\ client \in [Workers -> Clients \cup {None}]
  /\ applied \in [Clients -> Seq(Nat)]
  /\ server \in [Clients -> Workers \cup {None}]
  /\ \A c \in Clients :
       /\ Waiting(c) <=> server[c] # None
       /\ Waiting(c) => client[server[c]] = c /\ pc[server[c]] # "idle"

\* However often a client sends one update, after lost answers, crashes and
\* deadlines, and whichever of its attempts are still running: at most one of them
\* commits, because all carry the same version and the first that commits moves the
\* row past it.
AppliedAtMostOnce == \A c \in Clients : Len(applied[c]) <= 1

\* An OK says that the update was applied, once, and that it made the version after
\* the one sent, which is how a client has to learn it: no query returns it.
OKTellsTheVersion ==
  \A c \in Clients : answer[c] = "nil" => applied[c] = << command[c].version + 1 >>

\* A refusal by the domain is the truth about an update sent once.  (Of one sent
\* again it is not: an activation that was applied and whose answer was lost is
\* refused as already active.)
FirstRefusalIsFinal ==
  \A c \in Clients :
    attempts[c] = 1 /\ Code(answer[c]) \in {"NotFound", "InvalidArgument", "FailedPrecondition"}
      => applied[c] = << >>

\* Every call comes to an end for its client, with an answer or without.
CallsEnd == \A c \in Clients : Waiting(c) ~> ~Waiting(c)

\* docs/USAGE.md and docs/REQUIREMENTS.md: a version conflict is answered ABORTED.
ConflictIsAborted ==
  \A c \in Clients : answer[c] = "conflict" => Code(answer[c]) = "Aborted"

================================================================================
