-------------------------- MODULE CommandRepliesProofs --------------------------
(***************************************************************************)
(* Why a client may send its update again.  Every attempt carries the same *)
(* request; the first to commit takes the row past the version they carry, *)
(* the row never returns to it, and the version check refuses the others.  *)
(* And before a client has sent its update twice, one worker at most can   *)
(* commit it.                                                              *)
(***************************************************************************)
EXTENDS CommandReplies, ProductCommandsProofs

Refusal(cause) == Code(cause) \in {"NotFound", "InvalidArgument", "FailedPrecondition"}

ReplyTyped ==
  /\ client \in [Workers -> Clients \cup {None}]
  /\ command \in [Clients -> Request \cup {None}]
  /\ attempts \in [Clients -> Nat]
  /\ applied \in [Clients -> Seq(Nat)]
  /\ DOMAIN answer = Clients

\* A worker that serves a client works on the request the client has in mind.
Serving ==
  \A w \in Workers : client[w] # None =>
    /\ command[client[w]] # None /\ command[client[w]].body \in UpdateRequests
    /\ request[w] = command[client[w]]

\* What was applied for a client was applied once, and made the version after the
\* one it sent.
AppliedVersions ==
  \A c \in Clients :
    /\ applied[c] \in {<< >>, << command[c].version + 1 >>}
    /\ command[c] = None => applied[c] = << >>
    /\ answer[c] = "nil" => applied[c] # << >>

\* While the first attempt of a client runs nothing is applied for it, and only
\* its own deadline can have ended its wait.
FirstAttempt ==
  \A c \in Clients :
    /\ attempts[c] = 0 => applied[c] = << >> /\ \A w \in Workers : client[w] # c
    /\ attempts[c] = 1 => \A v, w \in Workers : client[v] = c /\ client[w] = c => v = w
    /\ attempts[c] = 1 /\ (\E w \in Workers : client[w] = c) =>
         applied[c] = << >> /\ answer[c] \in {"waiting", "deadline"}
    /\ attempts[c] = 1 /\ Refusal(answer[c]) => applied[c] = << >>

\* The row is past the version of an update that was applied.
RowsMovedOn ==
  \A c \in Clients : applied[c] # << >> =>
    command[c] # None /\ command[c].version < Reached(command[c].id)

ReplyInv == ReplyTyped /\ Serving /\ AppliedVersions /\ FirstAttempt

\* Success, and the answers that leave the outcome open, are no refusals.
LEMMA OpenCodes ==
  /\ ~Refusal("nil") /\ ~Refusal("failed") /\ ~Refusal("waiting")
  /\ ~Refusal("deadline") /\ ~Refusal("unavailable")
BY DEF Refusal, Code

\* The invariant holds before any client has sent anything.
LEMMA RepliesInitially == ReplyInit => ReplyInv
BY ClientsAssumption
   DEF ReplyInit, ReplyInv, ReplyTyped, Serving, AppliedVersions, FirstAttempt

--------------------------------------------------------------------------------
(***************************************************************************)
(* Steps that commit nothing for a client.                                 *)
(***************************************************************************)

\* Workers go on, or stop serving; an answer that changes is no OK, and its client
\* is served no longer, or ran into its deadline.
LEMMA NothingApplied ==
  ASSUME ReplyInv, UNCHANGED << command, attempts, applied >>,
         client' \in [Workers -> Clients \cup {None}], DOMAIN answer' = Clients,
         \A w \in Workers :
           client'[w] = None \/ (client'[w] = client[w] /\ request'[w] = request[w]),
         \A c \in Clients :
           \/ answer'[c] = answer[c]
           \/ answer'[c] \in {"deadline", "unavailable"}
              /\ (answer'[c] = "deadline" \/ \A w \in Workers : client'[w] # c)
           \/ /\ answer'[c] # "nil"
              /\ \E w \in Workers : client[w] = c /\ client'[w] = None
  PROVE  ReplyInv'
<1> USE ClientsAssumption
<1>1. ReplyTyped'
  BY DEF ReplyInv, ReplyTyped
<1>2. Serving'
  BY DEF ReplyInv, ReplyTyped, Serving
<1>3. AppliedVersions'
  BY DEF ReplyInv, AppliedVersions
<1>4. FirstAttempt'
  <2> SUFFICES ASSUME NEW c \in Clients
               PROVE  /\ attempts[c] = 0 => applied[c] = << >> /\ \A w \in Workers : client'[w] # c
                      /\ attempts[c] = 1 =>
                           \A v, w \in Workers : client'[v] = c /\ client'[w] = c => v = w
                      /\ attempts[c] = 1 /\ (\E w \in Workers : client'[w] = c) =>
                           applied[c] = << >> /\ answer'[c] \in {"waiting", "deadline"}
                      /\ attempts[c] = 1 /\ Refusal(answer'[c]) => applied[c] = << >>
    BY DEF FirstAttempt, Refusal
  <2>1. \A w \in Workers : client'[w] = c => client[w] = c
    OBVIOUS
  <2>2. ASSUME attempts[c] = 1, \E w \in Workers : client'[w] = c
        PROVE  applied[c] = << >> /\ answer'[c] \in {"waiting", "deadline"}
    <3>1. applied[c] = << >> /\ answer[c] \in {"waiting", "deadline"}
      BY <2>1, <2>2 DEF ReplyInv, FirstAttempt
    <3>2. answer'[c] = answer[c] \/ answer'[c] = "deadline"
      BY <2>1, <2>2 DEF ReplyInv, FirstAttempt
    <3>3. QED
      BY <3>1, <3>2
  <2>3. ASSUME attempts[c] = 1, Refusal(answer'[c]) PROVE applied[c] = << >>
    <3>1. answer'[c] = answer[c] \/ \E w \in Workers : client[w] = c
      BY <2>3, OpenCodes
    <3>2. QED
      BY <2>3, <3>1 DEF ReplyInv, FirstAttempt
  <2>4. QED
    BY <2>1, <2>2, <2>3 DEF ReplyInv, FirstAttempt
<1>5. QED
  BY <1>1, <1>2, <1>3, <1>4 DEF ReplyInv

\* A call ends without a commit.
LEMMA ReplyStep ==
  ASSUME ReplyInv, CallsOK, NEW w \in Workers, NEW cause, cause # "nil",
         Reply(w, cause), Answer(w), UNCHANGED << command, attempts, applied >>
  PROVE  ReplyInv'
<1>1. client' = [client EXCEPT ![w] = None] /\ request' = [request EXCEPT ![w] = None]
  BY DEF Reply, Answer
<1>2. /\ client' \in [Workers -> Clients \cup {None}] /\ client'[w] = None
      /\ \A v \in Workers \ {w} : client'[v] = client[v] /\ request'[v] = request[v]
  BY <1>1 DEF ReplyInv, ReplyTyped, CallsOK, TypeOK
<1>3. \/ UNCHANGED answer
      \/ client[w] # None /\ answer' = [answer EXCEPT ![client[w]] = cause]
  BY DEF Reply
<1>4. /\ DOMAIN answer' = Clients
      /\ \A c \in Clients :
           answer'[c] = answer[c] \/ (answer'[c] = cause /\ client[w] = c)
  BY <1>3 DEF ReplyInv, ReplyTyped
<1>5. QED
  BY <1>2, <1>4, NothingApplied

\* The domain refuses, the row is not there, the price does not fit.
LEMMA ServeStep ==
  ASSUME ReplyInv, CallsOK, NEW w \in Workers, Serve(w)
  PROVE  ReplyInv'
<1>1. UNCHANGED << command, attempts, applied >>
  BY DEF Serve
<1>2. CASE UNCHANGED << client, answer, request >>
  BY <1>1, <1>2, NothingApplied DEF ReplyInv, ReplyTyped
<1>3. CASE \E cause : cause # "nil" /\ Reply(w, cause) /\ Answer(w)
  BY <1>1, <1>3, ReplyStep
<1>4. pc \in [Workers -> {"idle", "received", "loaded", "mutated", "planned"}]
  BY DEF CallsOK, TypeOK
<1>5. CASE /\ Load(w)
           /\ IF pc'[w] = "loaded" THEN UNCHANGED << client, answer, server >>
              ELSE Reply(w, LoadCause(w))
  <2>1. LoadCause(w) # "nil"
    BY DEF LoadCause
  <2>2. Answer(w) \/ (pc'[w] = "loaded" /\ UNCHANGED request)
    BY <1>4, <1>5 DEF Load
  <2>3. Answer(w) => pc'[w] = "idle"
    BY <1>4 DEF Answer
  <2>4. QED
    BY <1>2, <1>3, <1>5, <2>1, <2>2, <2>3
<1>6. CASE /\ Mutate(w)
           /\ IF pc'[w] = "mutated" THEN UNCHANGED << client, answer, server >>
              ELSE Reply(w, ErrorOf(w))
  <2> DEFINE done == Execute(request[w].body, product[w], clock)
  <2>1. \/ done.err # "nil" /\ Answer(w)
        \/ pc'[w] = "mutated" /\ UNCHANGED request
    BY <1>4, <1>6 DEF Mutate
  <2>2. done.err # "nil" => ErrorOf(w) # "nil"
    BY DEF ErrorOf
  <2>3. Answer(w) => pc'[w] = "idle"
    BY <1>4 DEF Answer
  <2> HIDE DEF done
  <2>4. QED
    BY <1>2, <1>3, <1>6, <2>1, <2>2, <2>3
<1>7. CASE /\ Plan(w)
           /\ IF pc'[w] = "planned" THEN UNCHANGED << client, answer, server >>
              ELSE Reply(w, "ErrMoneyOverflow")
  <2>1. Answer(w) \/ (pc'[w] = "planned" /\ UNCHANGED request)
    BY <1>4, <1>7 DEF Plan
  <2>2. Answer(w) => pc'[w] = "idle"
    BY <1>4 DEF Answer
  <2>3. QED
    BY <1>2, <1>3, <1>7, <2>1, <2>2
<1>8. QED
  BY <1>5, <1>6, <1>7 DEF Serve

\* An idle worker serves nobody.
LEMMA IdleServesNobody ==
  ASSUME ReplyInv, CallsOK, NEW w \in Workers, pc[w] = "idle"
  PROVE  client[w] = None
BY DEF ReplyInv, Serving, CallsOK, CallsAreWellFormed, WellFormed

--------------------------------------------------------------------------------
\* The first sending, or the same request again.
LEMMA SendStep ==
  ASSUME ReplyInv, CallsOK, NEW c \in Clients, NEW w \in Workers, Send(c, w)
  PROVE  ReplyInv'
<1> USE ClientsAssumption
<1>1. client[w] = None
  BY IdleServesNobody DEF Send, Receive
<1>2. PICK r \in Request : r.body \in UpdateRequests /\ request' = [request EXCEPT ![w] = r]
  <2>1. PICK b \in UpdateRequests, p \in Products :
          \E v \in 0 .. Reached(p) + MaxLead :
            request' = [request EXCEPT ![w] = [body |-> b, id |-> p, version |-> v]]
    BY DEF Send, Receive
  <2>2. PICK v \in 0 .. Reached(p) + MaxLead :
          request' = [request EXCEPT ![w] = [body |-> b, id |-> p, version |-> v]]
    BY <2>1
  <2>3. b \in UpdateRequest /\ v \in Nat
    BY RequestsAssumption
  <2>4. [body |-> b, id |-> p, version |-> v] \in Request
    BY <2>3 DEF Request
  <2>5. QED
    BY <2>2, <2>4
<1>3. /\ \A v \in Workers : request'[v] = IF v = w THEN r ELSE request[v]
      /\ command[c] # None => r = command[c]
      /\ command' = [command EXCEPT ![c] = r]
      /\ attempts' = [attempts EXCEPT ![c] = attempts[c] + 1]
      /\ client' = [client EXCEPT ![w] = c]
      /\ answer' = [answer EXCEPT ![c] = "waiting"]
      /\ UNCHANGED applied
  BY <1>2 DEF Send, CallsOK, TypeOK
<1>4. ReplyTyped'
  BY <1>3 DEF ReplyInv, ReplyTyped
<1>5. /\ \A v \in Workers : client'[v] = IF v = w THEN c ELSE client[v]
      /\ \A d \in Clients :
           /\ command'[d] = IF d = c THEN r ELSE command[d]
           /\ attempts'[d] = IF d = c THEN attempts[c] + 1 ELSE attempts[d]
           /\ answer'[d] = IF d = c THEN "waiting" ELSE answer[d]
      /\ \A d \in Clients : attempts[d] \in Nat
  BY <1>3 DEF ReplyInv, ReplyTyped
<1>6. r # None
  BY NoneIsNoCall
<1>7. Serving'
  <2> SUFFICES ASSUME NEW v \in Workers, client'[v] # None
               PROVE  /\ command'[client'[v]] # None
                      /\ command'[client'[v]].body \in UpdateRequests
                      /\ request'[v] = command'[client'[v]]
    BY DEF Serving
  <2>1. CASE v = w
    BY <1>2, <1>3, <1>5, <1>6, <2>1
  <2>2. CASE v # w
    <3>1. client'[v] = client[v] /\ client[v] \in Clients
      BY <1>5, <2>2 DEF ReplyInv, ReplyTyped
    <3>2. command'[client[v]] = command[client[v]]
      BY <1>3, <1>5, <3>1 DEF ReplyInv, Serving
    <3>3. QED
      BY <1>3, <2>2, <3>1, <3>2 DEF ReplyInv, Serving
  <2>3. QED
    BY <2>1, <2>2
<1>8. AppliedVersions'
  BY <1>3, <1>5, <1>6 DEF ReplyInv, AppliedVersions
<1>9. FirstAttempt'
  <2> SUFFICES ASSUME NEW d \in Clients
               PROVE  /\ attempts'[d] = 0 => applied[d] = << >> /\ \A v \in Workers : client'[v] # d
                      /\ attempts'[d] = 1 =>
                           \A u, v \in Workers : client'[u] = d /\ client'[v] = d => u = v
                      /\ attempts'[d] = 1 /\ (\E v \in Workers : client'[v] = d) =>
                           applied[d] = << >> /\ answer'[d] \in {"waiting", "deadline"}
                      /\ attempts'[d] = 1 /\ Refusal(answer'[d]) => applied[d] = << >>
    BY <1>3 DEF FirstAttempt, Refusal
  <2>1. CASE d # c
    BY <1>5, <2>1 DEF ReplyInv, FirstAttempt
  <2>2. CASE d = c
    <3>1. attempts'[c] = attempts[c] + 1 /\ attempts[c] \in Nat
      BY <1>5
    <3>2. attempts'[c] # 0 /\ (attempts'[c] = 1 => attempts[c] = 0)
      BY <3>1
    <3>3. attempts[c] = 0 => applied[c] = << >> /\ \A v \in Workers : client[v] # c
      BY DEF ReplyInv, FirstAttempt
    <3>4. QED
      BY <1>5, <2>2, <3>2, <3>3
  <2>3. QED
    BY <2>1, <2>2
<1>10. QED
  BY <1>4, <1>7, <1>8, <1>9 DEF ReplyInv

--------------------------------------------------------------------------------
\* A commit makes the version after the one the client sent, and is the first that
\* the version check lets through.
LEMMA CommitStep ==
  ASSUME ReplyInv, RowsMovedOn, IInv, NEW w \in Workers, NEW cause \in {"nil", "failed"},
         CommitWith(w, cause)
  PROVE  ReplyInv'
<1> USE ClientsAssumption
<1>1. CallsOK /\ VersionsAreOrdered
  BY DEF IInv, CallsOK
<1>2. /\ pc[w] = "planned" /\ VersionCheck(w) /\ Answer(w)
      /\ rows' = [rows EXCEPT ![request[w].id] = Written(w)]
      /\ UNCHANGED << command, attempts >>
      /\ Reply(w, cause)
  BY DEF CommitWith, Commit
<1>3. CASE client[w] = None
  <2>1. UNCHANGED << client, answer, applied >>
    BY <1>2, <1>3 DEF CommitWith, Reply, ReplyInv, ReplyTyped
  <2>2. \A v \in Workers \ {w} : request'[v] = request[v]
    BY <1>1, <1>2 DEF Answer, CallsOK, TypeOK
  <2>3. \A v \in Workers : client'[v] = None \/ (client'[v] = client[v] /\ request'[v] = request[v])
    BY <1>3, <2>1, <2>2
  <2>4. QED
    BY <1>2, <2>1, <2>3, NothingApplied DEF ReplyInv, ReplyTyped
<1>4. CASE client[w] # None
  <2> DEFINE c == client[w]  made == command[c].version + 1
  <2>1. /\ c \in Clients /\ request[w] = command[c] /\ command[c] # None
        /\ request[w].body \in UpdateRequests /\ command[c] \in Request
    BY <1>4 DEF ReplyInv, ReplyTyped, Serving
  <2>2. Updates(w) /\ request[w].id \in Products
    BY <1>2, <2>1, RequestsAssumption DEF Updates, Busy, UpdateRequest, Request
  <2>3. rows[request[w].id].version = request[w].version
    BY <1>2, <2>2 DEF VersionCheck, Updates
  <2>4. Written(w).version = request[w].version + 1
    <3>1. HasLoaded(w)
      BY <1>2, <2>2 DEF HasLoaded
    <3>2. rows[request[w].id] # None
      BY <1>1, <3>1 DEF CallsOK, CallsAreWellFormed, WellFormed
    <3>3. QED
      BY <1>1, <1>2, <2>3, <3>2, CommittedVersion
  <2>5. applied[c] = << >>
    <3>1. HasLoaded(w)
      BY <1>2, <2>2 DEF HasLoaded
    <3>2. Reached(request[w].id) = request[w].version
      BY <1>1, <2>3, <3>1 DEF CallsOK, CallsAreWellFormed, WellFormed, Reached
    <3>3. ~(command[c].version < Reached(command[c].id))
      BY <2>1, <3>2 DEF Request
    <3>4. QED
      BY <2>1, <3>3 DEF RowsMovedOn
  <2>6. rows'[request[w].id] = Written(w)
    BY <1>1, <1>2, <2>2 DEF CallsOK, TypeOK
  <2>7. applied' = [applied EXCEPT ![c] = Append(applied[c], made)]
    BY <1>4, <2>1, <2>4, <2>6 DEF CommitWith
  <2>8. client' = [client EXCEPT ![w] = None] /\ request' = [request EXCEPT ![w] = None]
    BY <1>2 DEF Reply, Answer
  <2>9. UNCHANGED answer \/ answer' = [answer EXCEPT ![c] = cause]
    BY <1>2 DEF Reply
  <2>10. made \in Nat
    BY <2>1 DEF Request
  <2> HIDE DEF c, made
  <2>11. ReplyTyped'
    BY <1>2, <2>1, <2>7, <2>8, <2>9, <2>10 DEF ReplyInv, ReplyTyped
  <2>12. /\ client'[w] = None
         /\ \A v \in Workers \ {w} : client'[v] = client[v] /\ request'[v] = request[v]
         /\ \A d \in Clients :
              applied'[d] = IF d = c THEN Append(applied[c], made) ELSE applied[d]
         /\ \A d \in Clients : answer'[d] = answer[d] \/ (d = c /\ answer'[d] = cause)
    BY <1>1, <2>1, <2>7, <2>8, <2>9 DEF ReplyInv, ReplyTyped, CallsOK, TypeOK
  <2>13. Serving'
    BY <1>2, <2>12 DEF ReplyInv, Serving
  <2>14. AppliedVersions'
    <3> SUFFICES ASSUME NEW d \in Clients
                 PROVE  /\ applied'[d] \in {<< >>, << command[d].version + 1 >>}
                        /\ command[d] = None => applied'[d] = << >>
                        /\ answer'[d] = "nil" => applied'[d] # << >>
      BY <1>2 DEF AppliedVersions
    <3>1. CASE d = c
      <4>1. Append(applied[c], made) = << made >> /\ << made >> # << >>
        BY <2>5
      <4>2. QED
        BY <2>1, <2>12, <3>1, <4>1 DEF made
    <3>2. CASE d # c
      BY <2>12, <3>2 DEF ReplyInv, AppliedVersions
    <3>3. QED
      BY <3>1, <3>2
  <2>15. FirstAttempt'
    <3> SUFFICES ASSUME NEW d \in Clients
                 PROVE  /\ attempts[d] = 0 => applied'[d] = << >> /\ \A v \in Workers : client'[v] # d
                        /\ attempts[d] = 1 =>
                             \A u, v \in Workers : client'[u] = d /\ client'[v] = d => u = v
                        /\ attempts[d] = 1 /\ (\E v \in Workers : client'[v] = d) =>
                             applied'[d] = << >> /\ answer'[d] \in {"waiting", "deadline"}
                        /\ attempts[d] = 1 /\ Refusal(answer'[d]) => applied'[d] = << >>
      BY <1>2 DEF FirstAttempt, Refusal
    <3>1. CASE d # c
      BY <2>12, <3>1 DEF ReplyInv, FirstAttempt
    <3>2. CASE d = c
      <4>1. client[w] = c /\ attempts[c] # 0
        BY <2>1 DEF c, ReplyInv, FirstAttempt
      <4>2. attempts[c] = 1 => \A v \in Workers : client'[v] # c
        BY <2>1, <2>12, <4>1 DEF ReplyInv, FirstAttempt
      <4>3. attempts[c] = 1 => answer[c] \in {"waiting", "deadline"}
        BY <2>1, <4>1 DEF ReplyInv, FirstAttempt
      <4>4. attempts[c] = 1 => ~Refusal(answer'[c])
        BY <2>1, <2>12, <4>3, OpenCodes
      <4>5. QED
        BY <3>2, <4>1, <4>2, <4>4
    <3>3. QED
      BY <3>1, <3>2
  <2>16. QED
    BY <2>11, <2>13, <2>14, <2>15 DEF ReplyInv
<1>5. QED
  BY <1>3, <1>4

--------------------------------------------------------------------------------
\* The invariant is inductive, beside that of the service.
LEMMA RepliesInductive == ReplyInv /\ RowsMovedOn /\ IInv /\ [ReplyNext]_all => ReplyInv'
<1> SUFFICES ASSUME ReplyInv, RowsMovedOn, IInv, [ReplyNext]_all PROVE ReplyInv'
  OBVIOUS
<1> USE ClientsAssumption
<1>1. CallsOK
  BY DEF IInv, CallsOK
<1>2. ASSUME NEW c \in Clients, GiveUpWaiting(c) PROVE ReplyInv'
  <2>1. /\ UNCHANGED << command, attempts, applied, client, request >>
        /\ answer' = [answer EXCEPT ![c] = "deadline"]
    BY <1>2 DEF GiveUpWaiting, vars, session
  <2>2. /\ DOMAIN answer' = Clients
        /\ \A d \in Clients : answer'[d] = answer[d] \/ answer'[d] = "deadline"
    BY <2>1 DEF ReplyInv, ReplyTyped
  <2>3. QED
    BY <2>1, <2>2, NothingApplied DEF ReplyInv, ReplyTyped
<1>3. ASSUME NEW w \in Workers, Found(w) PROVE ReplyInv'
  <2>1. client[w] = None
    BY <1>1, <1>3, IdleServesNobody DEF Found, StartCreate
  <2>2. UNCHANGED << command, attempts, applied, client, answer >>
    BY <1>3 DEF Found, clients
  <2>3. \A v \in Workers \ {w} : request'[v] = request[v]
    BY <1>1, <1>3 DEF Found, StartCreate, CallsOK, TypeOK
  <2>4. \A v \in Workers :
          client'[v] = None \/ (client'[v] = client[v] /\ request'[v] = request[v])
    BY <2>1, <2>2, <2>3
  <2>5. QED
    BY <2>2, <2>4, NothingApplied DEF ReplyInv, ReplyTyped
<1>4. ASSUME NEW w \in Workers, ConflictReply(w) \/ FailReply(w) PROVE ReplyInv'
  <2>1. /\ UNCHANGED << command, attempts, applied >> /\ Answer(w)
        /\ Reply(w, "conflict") \/ Reply(w, "failed")
    BY <1>4 DEF ConflictReply, FailReply, Conflict, Fail
  <2>2. QED
    BY <1>1, <2>1, ReplyStep
<1>5. ASSUME NEW w \in Workers, CommitReply(w) \/ CommitInDoubt(w) PROVE ReplyInv'
  BY <1>5, CommitStep DEF CommitReply, CommitInDoubt
<1>6. CASE CrashReply
  <2>1. /\ UNCHANGED << command, attempts, applied >>
        /\ client' = [w \in Workers |-> None]
        /\ answer' = [c \in Clients |-> IF Waiting(c) THEN "unavailable" ELSE answer[c]]
    BY <1>6 DEF CrashReply
  <2>2. QED
    BY <2>1, NothingApplied
<1>7. CASE Settled \/ UNCHANGED all
  <2>1. UNCHANGED << command, attempts, applied, client, answer, request >>
    BY <1>7 DEF Settled, all, clients, vars, session
  <2>2. QED
    BY <2>1, NothingApplied DEF ReplyInv, ReplyTyped
<1>8. QED
  BY <1>1, <1>2, <1>3, <1>4, <1>5, <1>6, <1>7, SendStep, ServeStep
     DEF ReplyNext, Finish, PanicReply

\* The clients add nothing to what the service does.
LEMMA ServiceStep == [ReplyNext]_all => [Next]_vars
<1> SUFFICES ASSUME ReplyNext PROVE [Next]_vars
  BY DEF all
<1>1. ASSUME NEW c \in Clients, GiveUpWaiting(c) \/ Settled PROVE [Next]_vars
  BY <1>1 DEF GiveUpWaiting, Settled, all
<1>2. ASSUME NEW c \in Clients, NEW w \in Workers, Send(c, w) PROVE Next
  BY <1>2 DEF Send, Next
<1>3. ASSUME NEW w \in Workers,
             Found(w) \/ Finish(w) \/ CommitInDoubt(w) \/ FailReply(w)
      PROVE  Next
  BY <1>3 DEF Found, Finish, Serve, CommitReply, CommitInDoubt, CommitWith, ConflictReply,
              FailReply, PanicReply, Next, Step
<1>4. CrashReply => Next
  BY DEF CrashReply, Next
<1>5. Settled => UNCHANGED vars
  BY DEF Settled, all
<1>6. QED
  BY <1>1, <1>2, <1>3, <1>4, <1>5 DEF ReplyNext

\* Clients that wait, give up and send again do nothing to the service that
\* ProductCommands does not allow: what is proved of the service holds with them.
THEOREM ClientsUseTheService == ReplySpec => Spec
<1>1. ReplyInit => Init
  BY DEF ReplyInit
<1>2. QED
  BY <1>1, ServiceStep, PTL DEF ReplySpec, Spec

\* The version of a product never falls.
LEMMA VersionsGrow ==
  ASSUME IInv, [Next]_vars, NEW p \in Products
  PROVE  Reached(p) \in Nat /\ Reached(p)' \in Nat /\ Reached(p) <= Reached(p)'
<1>1. CallsOK /\ VersionsAreOrdered /\ rows \in [Products -> Aggregate \cup {None}]
  BY DEF IInv, CallsOK, TypeOK
<1>2. Reached(p) \in Nat
  BY <1>1 DEF Reached, Aggregate
<1>3. CASE rows'[p] = rows[p]
  BY <1>2, <1>3 DEF Reached
<1>4. CASE rows'[p] # rows[p]
  <2>1. PICK w \in Workers :
          /\ pc[w] = "planned" /\ VersionCheck(w)
          /\ request[w].id \in Products
          /\ rows' = [rows EXCEPT ![request[w].id] = Written(w)]
    BY <1>1, <1>4, OnlyCommitsWrite
  <2>2. p = request[w].id /\ rows'[p] = Written(w)
    BY <1>1, <1>4, <2>1
  <2>3. Written(w) \in Aggregate /\ Written(w) # None
    BY <1>1, <2>1, PlannedCall, NoneAssumption
  <2>4. \/ rows[p] = None /\ Written(w).version = 0
        \/ rows[p] # None /\ Written(w).version = rows[p].version + 1
    BY <1>1, <2>1, <2>2, CommittedVersion
  <2>5. Reached(p)' = Written(w).version
    BY <2>2, <2>3 DEF Reached
  <2>6. QED
    BY <1>2, <2>3, <2>4, <2>5 DEF Reached, Aggregate
<1>5. QED
  BY <1>3, <1>4

\* What is applied for a client takes the row past the version it sent.
LEMMA AppliedMovesRow ==
  ASSUME ReplyInv, IInv, NEW w \in Workers, NEW cause \in {"nil", "failed"},
         CommitWith(w, cause), client[w] # None
  PROVE  /\ command[client[w]] # None
         /\ \A p \in Products :
              p = command[client[w]].id => command[client[w]].version < Reached(p)'
<1> DEFINE c == client[w]
<1>1. CallsOK /\ VersionsAreOrdered
  BY DEF IInv, CallsOK
<1>2. /\ pc[w] = "planned" /\ VersionCheck(w)
      /\ rows' = [rows EXCEPT ![request[w].id] = Written(w)]
  BY DEF CommitWith, Commit
<1>3. /\ request[w] = command[c] /\ command[c] # None
      /\ request[w].body \in UpdateRequests /\ command[c] \in Request
  BY DEF ReplyInv, ReplyTyped, Serving
<1>4. Updates(w) /\ HasLoaded(w) /\ request[w].id \in Products
  BY <1>2, <1>3, RequestsAssumption DEF Updates, HasLoaded, Busy, UpdateRequest, Request
<1>5. rows[request[w].id].version = request[w].version /\ rows[request[w].id] # None
  BY <1>1, <1>2, <1>4 DEF VersionCheck, Updates, CallsOK, CallsAreWellFormed, WellFormed
<1>6. Written(w).version = request[w].version + 1
  BY <1>1, <1>2, <1>5, CommittedVersion
<1>7. rows'[request[w].id] = Written(w) /\ Written(w) # None
  BY <1>1, <1>2, <1>4, PlannedCall, NoneAssumption DEF CallsOK, TypeOK
<1>8. ASSUME NEW p \in Products, p = command[c].id
      PROVE  command[c].version < Reached(p)'
  <2>1. Reached(p)' = Written(w).version
    BY <1>3, <1>7, <1>8 DEF Reached
  <2>2. QED
    BY <1>3, <1>6, <2>1 DEF Request
<1>9. QED
  BY <1>3, <1>8

\* Rows stay past what was applied.
LEMMA RowsMoveOn == ReplyInv /\ RowsMovedOn /\ IInv /\ [ReplyNext]_all => RowsMovedOn'
<1> SUFFICES ASSUME ReplyInv, RowsMovedOn, IInv, [ReplyNext]_all, NEW c \in Clients,
                    applied'[c] # << >>
             PROVE  (command[c] # None /\ command[c].version < Reached(command[c].id))'
  BY DEF RowsMovedOn
<1>1. CASE applied'[c] = applied[c]
  <2>1. command[c] # None /\ command[c].version < Reached(command[c].id)
    BY <1>1 DEF RowsMovedOn
  <2>2. command'[c] = command[c]
    <3>1. ASSUME NEW d \in Clients, NEW w \in Workers, Send(d, w) PROVE command'[c] = command[c]
      BY <2>1, <3>1 DEF Send, ReplyInv, ReplyTyped
    <3>2. (\E d \in Clients, w \in Workers : Send(d, w)) \/ UNCHANGED command
      BY DEF ReplyNext, GiveUpWaiting, Found, Finish, Serve, CommitReply, CommitInDoubt,
             CommitWith, ConflictReply, FailReply, PanicReply, CrashReply, Settled, all,
             clients
    <3>3. QED
      BY <3>1, <3>2
  <2>3. command[c].id \in Products /\ command[c].version \in Nat
    BY <2>1 DEF ReplyInv, ReplyTyped, Request
  <2>4. PICK p \in Products : p = command[c].id
    BY <2>3
  <2>5. Reached(p) \in Nat /\ Reached(p)' \in Nat /\ Reached(p) <= Reached(p)'
    BY ServiceStep, VersionsGrow
  <2>6. command[c].version < Reached(p)'
    BY <2>1, <2>3, <2>4, <2>5
  <2>7. QED
    BY <2>1, <2>2, <2>4, <2>6 DEF Reached
<1>2. CASE applied'[c] # applied[c]
  <2>1. PICK w \in Workers, cause \in {"nil", "failed"} : CommitWith(w, cause)
    BY <1>2 DEF ReplyNext, GiveUpWaiting, Send, Found, Finish, Serve, CommitReply,
                CommitInDoubt, ConflictReply, FailReply, PanicReply, CrashReply, Settled,
                all, clients
  <2>2. client[w] = c /\ UNCHANGED command
    BY <1>2, <2>1 DEF CommitWith, ReplyInv, ReplyTyped
  <2>3. client[w] # None
    BY <2>2, ClientsAssumption
  <2>4. /\ command[c] # None
        /\ \A p \in Products : p = command[c].id => command[c].version < Reached(p)'
    BY <2>1, <2>2, <2>3, AppliedMovesRow
  <2>5. PICK p \in Products : p = command[c].id
    BY <2>4 DEF ReplyInv, ReplyTyped, Request
  <2>6. QED
    BY <2>2, <2>4, <2>5 DEF Reached
<1>3. QED
  BY <1>1, <1>2

\* All invariants hold for ever.
LEMMA RepliesInvariant ==
  ASSUME MaxLead = 0
  PROVE  ReplySpec => [](IInv /\ ReplyInv /\ RowsMovedOn)
<1>1. ReplyInit => RowsMovedOn
  BY DEF ReplyInit, RowsMovedOn
<1>2. QED
  BY <1>1, ClientsUseTheService, VersionsOrdered, RepliesInitially, RepliesInductive,
     RowsMoveOn, PTL
  DEF ReplySpec

--------------------------------------------------------------------------------
\* However often an update is sent, after whatever failures, one commit of it takes
\* effect or none (ApplyWithVersionCheck under retries).
THEOREM UpdatesApplyOnce ==
  ASSUME MaxLead = 0
  PROVE  ReplySpec => []AppliedAtMostOnce
<1>1. ReplyInv => AppliedAtMostOnce
  <2> SUFFICES ASSUME ReplyInv, NEW c \in Clients PROVE Len(applied[c]) <= 1
    BY DEF AppliedAtMostOnce
  <2> DEFINE made == command[c].version + 1
  <2>1. applied[c] = << >> \/ applied[c] = << made >>
    BY DEF ReplyInv, AppliedVersions
  <2> HIDE DEF made
  <2>2. applied[c] = << >> => Len(applied[c]) = 0
    OBVIOUS
  <2>3. applied[c] = << made >> => Len(applied[c]) = 1
    OBVIOUS
  <2>4. PICK n \in 0 .. 1 : Len(applied[c]) = n
    BY <2>1, <2>2, <2>3
  <2>5. QED
    BY <2>4
<1>2. QED
  BY <1>1, RepliesInvariant, PTL

\* A client that is told OK knows the version that its commit, the only one, made.
THEOREM OKVersionKnown ==
  ASSUME MaxLead = 0
  PROVE  ReplySpec => []OKTellsTheVersion
<1>1. ReplyInv => OKTellsTheVersion
  BY DEF ReplyInv, AppliedVersions, OKTellsTheVersion
<1>2. QED
  BY <1>1, RepliesInvariant, PTL

\* A refusal of an update that was sent once means that it was not applied.
THEOREM RefusalIsFinal ==
  ASSUME MaxLead = 0
  PROVE  ReplySpec => []FirstRefusalIsFinal
<1>1. ReplyInv => FirstRefusalIsFinal
  BY DEF ReplyInv, FirstAttempt, Refusal, FirstRefusalIsFinal
<1>2. QED
  BY <1>1, RepliesInvariant, PTL

--------------------------------------------------------------------------------
(***************************************************************************)
(* Who waits for whom.  This needs no order of versions, and so no bound   *)
(* on the versions that clients send.                                      *)
(***************************************************************************)

\* A refused command ends with an error of the domain.
LEMMA ErrorsOfExecute ==
  ASSUME NEW r \in UpdateRequest, NEW p, NEW now
  PROVE  Execute(r, p, now).err \in
           {"nil", "ErrEmptyName", "ErrInvalidPrice", "ErrInvalidCategory",
            "ErrInvalidDiscount", "ErrDiscountAlreadyActive", "ErrCannotApplyToInactive",
            "ErrAlreadyActive", "ErrAlreadyInactive", "ErrAlreadyArchived",
            "ErrCannotModifyArchived"}
<1> USE DEF Accept, Reject
<1>1. CASE r.op = "update"
  BY <1>1 DEF Execute, UpdateDetails
<1>2. CASE r.op = "price"
  BY <1>2 DEF Execute, SetBasePrice
<1>3. CASE r.op = "applyDiscount"
  BY <1>3 DEF Execute, ApplyDiscount
<1>4. CASE r.op = "removeDiscount"
  BY <1>4 DEF Execute, RemoveDiscount
<1>5. CASE r.op = "activate"
  BY <1>5 DEF Execute, Activate
<1>6. CASE r.op = "deactivate"
  BY <1>6 DEF Execute, Deactivate
<1>7. CASE r.op = "archive"
  BY <1>7 DEF Execute, Archive
<1>8. QED
  BY <1>1, <1>2, <1>3, <1>4, <1>5, <1>6, <1>7 DEF UpdateRequest

\* No call begins or ends for a client that waits, and what clients have sent stays.
LEMMA WaitingUndisturbed ==
  ASSUME ReplyTypeOK, pc' \in [Workers -> {"idle", "received", "loaded", "mutated", "planned"}],
         UNCHANGED << command, given, attempts, server, answer, client >>,
         applied' \in [Clients -> Seq(Nat)],
         \A w \in Workers : pc[w] # "idle" => pc'[w] # "idle"
  PROVE  ReplyTypeOK'
BY DEF ReplyTypeOK, Waiting

\* A worker whose call returns is awaited by nobody any more.
LEMMA ReturnStep ==
  ASSUME ReplyTypeOK, NEW w \in Workers, NEW cause \in Causes \ {"waiting"},
         Reply(w, cause), pc \in [Workers -> {"idle", "received", "loaded", "mutated", "planned"}],
         pc' = [pc EXCEPT ![w] = "idle"],
         UNCHANGED << command, given, attempts >>, applied' \in [Clients -> Seq(Nat)]
  PROVE  ReplyTypeOK'
<1> USE ClientsAssumption
<1>1. /\ client' = [client EXCEPT ![w] = None]
      /\ \A v \in Workers : client'[v] = IF v = w THEN None ELSE client[v]
      /\ client' \in [Workers -> Clients \cup {None}]
      /\ \A v \in Workers : pc'[v] = IF v = w THEN "idle" ELSE pc[v]
  BY DEF Reply, ReplyTypeOK
<1>2. /\ server' \in [Clients -> Workers \cup {None}] /\ answer' \in [Clients -> Causes]
      /\ \A c \in Clients :
           IF server[c] = w THEN server'[c] = None /\ answer'[c] = cause
           ELSE server'[c] = server[c] /\ answer'[c] = answer[c]
  <2>1. \A c \in Clients : server[c] = w => client[w] = c
    BY DEF ReplyTypeOK
  <2>2. CASE client[w] # None /\ server[client[w]] = w
    <3> DEFINE c == client[w]
    <3>1. c \in Clients
      BY <2>2 DEF ReplyTypeOK
    <3>2. answer' = [answer EXCEPT ![c] = cause] /\ server' = [server EXCEPT ![c] = None]
      BY <2>2 DEF Reply
    <3>3. \A d \in Clients : server[d] = w <=> d = c
      BY <2>1, <2>2
    <3> HIDE DEF c
    <3>4. QED
      BY <3>1, <3>2, <3>3 DEF ReplyTypeOK
  <2>3. CASE ~(client[w] # None /\ server[client[w]] = w)
    <3>1. UNCHANGED << answer, server >>
      BY <2>3 DEF Reply
    <3>2. \A c \in Clients : server[c] # w
      BY <2>1, <2>3
    <3>3. QED
      BY <3>1, <3>2 DEF ReplyTypeOK
  <2>4. QED
    BY <2>2, <2>3
<1>3. ASSUME NEW c \in Clients
      PROVE  /\ answer'[c] = "waiting" <=> server'[c] # None
             /\ answer'[c] = "waiting" =>
                  client'[server'[c]] = c /\ pc'[server'[c]] # "idle"
  <2>1. CASE server[c] = w
    BY <1>2, <2>1
  <2>2. CASE server[c] # w
    <3>1. /\ answer[c] = "waiting" <=> server[c] # None
          /\ answer[c] = "waiting" => client[server[c]] = c /\ pc[server[c]] # "idle"
      BY DEF ReplyTypeOK, Waiting
    <3>2. server[c] \in Workers \cup {None}
      BY DEF ReplyTypeOK
    <3>3. server'[c] = server[c] /\ answer'[c] = answer[c]
      BY <1>2, <2>2
    <3>4. QED
      BY <1>1, <2>2, <3>1, <3>2, <3>3
  <2>3. QED
    BY <2>1, <2>2
<1>4. QED
  BY <1>1, <1>2, <1>3 DEF ReplyTypeOK, Waiting

\* The worker that takes a call is idle, so nobody waits for it, and the client
\* that sends it has given up on every other.
LEMMA SendKeepsTypes ==
  ASSUME ReplyTypeOK, CallsOK, CallsOK', NEW c \in Clients, NEW w \in Workers, Send(c, w)
  PROVE  ReplyTypeOK'
<1> USE ClientsAssumption
<1>1. /\ pc[w] = "idle" /\ pc' = [pc EXCEPT ![w] = "received"]
      /\ command' = [command EXCEPT ![c] = request'[w]]
      /\ attempts[c] < MaxAttempts /\ attempts' = [attempts EXCEPT ![c] = @ + 1]
      /\ client' = [client EXCEPT ![w] = c]
      /\ server' = [server EXCEPT ![c] = w]
      /\ answer' = [answer EXCEPT ![c] = "waiting"]
      /\ UNCHANGED << given, applied >>
  BY DEF Send, Receive
<1>2. request'[w] \in Request \cup {None}
  BY DEF CallsOK, TypeOK
<1>3. command' \in [Clients -> Request \cup {None}]
  BY <1>1, <1>2 DEF ReplyTypeOK
<1>4. attempts' \in [Clients -> 0 .. MaxAttempts]
  BY <1>1 DEF ReplyTypeOK
<1>5. /\ client' \in [Workers -> Clients \cup {None}]
      /\ server' \in [Clients -> Workers \cup {None}]
      /\ answer' \in [Clients -> Causes]
  BY <1>1 DEF ReplyTypeOK, Causes
<1>6. ASSUME NEW d \in Clients
      PROVE  /\ answer'[d] = "waiting" <=> server'[d] # None
             /\ answer'[d] = "waiting" =>
                  client'[server'[d]] = d /\ pc'[server'[d]] # "idle"
  <2>1. pc \in [Workers -> {"idle", "received", "loaded", "mutated", "planned"}]
    BY DEF CallsOK, TypeOK
  <2>2. CASE d = c
    BY <1>1, <2>1, <2>2 DEF ReplyTypeOK
  <2>3. CASE d # c
    <3>1. /\ answer[d] = "waiting" <=> server[d] # None
          /\ answer[d] = "waiting" => client[server[d]] = d /\ pc[server[d]] # "idle"
          /\ server[d] \in Workers \cup {None}
      BY DEF ReplyTypeOK, Waiting
    <3>2. answer'[d] = answer[d] /\ server'[d] = server[d]
      BY <1>1, <2>3 DEF ReplyTypeOK
    <3>3. QED
      BY <1>1, <2>1, <3>1, <3>2 DEF ReplyTypeOK
  <2>4. QED
    BY <2>2, <2>3
<1>7. QED
  BY <1>1, <1>3, <1>4, <1>5, <1>6 DEF ReplyTypeOK, Waiting

\* Load, domain method and plan, as far as the client sees them.
LEMMA ServeKeepsTypes ==
  ASSUME ReplyTypeOK, CallsOK, CallsOK', NEW w \in Workers, Serve(w)
  PROVE  ReplyTypeOK'
<1>1. /\ pc \in [Workers -> {"idle", "received", "loaded", "mutated", "planned"}]
      /\ pc' \in [Workers -> {"idle", "received", "loaded", "mutated", "planned"}]
  BY DEF CallsOK, TypeOK
<1>2. UNCHANGED << command, given, attempts, applied >> /\ applied' \in [Clients -> Seq(Nat)]
  BY DEF Serve, ReplyTypeOK
<1>3. ASSUME NEW step \in {"loaded", "mutated", "planned"}, pc' = [pc EXCEPT ![w] = step],
             UNCHANGED << client, answer, server >>
      PROVE  ReplyTypeOK'
  BY <1>1, <1>2, <1>3, WaitingUndisturbed
<1>4. ASSUME NEW cause \in Causes \ {"waiting"}, Reply(w, cause), Answer(w) PROVE ReplyTypeOK'
  BY <1>1, <1>2, <1>4, ReturnStep DEF Answer
<1>5. CASE /\ Load(w)
           /\ IF pc'[w] = "loaded" THEN UNCHANGED << client, answer, server >>
              ELSE Reply(w, LoadCause(w))
  <2>1. LoadCause(w) \in Causes \ {"waiting"}
    BY DEF LoadCause, Causes
  <2>2. Answer(w) \/ pc' = [pc EXCEPT ![w] = "loaded"]
    BY <1>5 DEF Load
  <2>3. Answer(w) => pc'[w] = "idle"
    BY <1>1 DEF Answer
  <2>4. QED
    BY <1>1, <1>3, <1>4, <1>5, <2>1, <2>2, <2>3
<1>6. CASE /\ Mutate(w)
           /\ IF pc'[w] = "mutated" THEN UNCHANGED << client, answer, server >>
              ELSE Reply(w, ErrorOf(w))
  <2>1. request[w].body \in UpdateRequest
    <3>1. pc[w] = "loaded" /\ WellFormed(w)
      BY <1>6 DEF Mutate, CallsOK, CallsAreWellFormed
    <3>2. Updates(w) /\ HasLoaded(w)
      BY <3>1 DEF WellFormed, Creates, Updates, Busy, HasLoaded
    <3>3. QED
      BY <3>2, LoadedCall
  <2>2. ErrorOf(w) \in Causes \ {"waiting"}
    <3> DEFINE err == Execute(request[w].body, product[w], clock).err
    <3>1. err \in Causes \ {"waiting"}
      BY <2>1, ErrorsOfExecute DEF Causes
    <3>2. ErrorOf(w) = err \/ ErrorOf(w) = "ErrInvalidDiscountPeriod"
      BY DEF ErrorOf
    <3> HIDE DEF err
    <3>3. QED
      BY <3>1, <3>2 DEF Causes
  <2>3. Answer(w) \/ pc' = [pc EXCEPT ![w] = "mutated"]
    BY <1>6 DEF Mutate
  <2>4. Answer(w) => pc'[w] = "idle"
    BY <1>1 DEF Answer
  <2>5. QED
    BY <1>1, <1>3, <1>4, <1>6, <2>2, <2>3, <2>4
<1>7. CASE /\ Plan(w)
           /\ IF pc'[w] = "planned" THEN UNCHANGED << client, answer, server >>
              ELSE Reply(w, "ErrMoneyOverflow")
  <2>1. "ErrMoneyOverflow" \in Causes \ {"waiting"}
    BY DEF Causes
  <2>2. Answer(w) \/ pc' = [pc EXCEPT ![w] = "planned"]
    BY <1>7 DEF Plan
  <2>3. Answer(w) => pc'[w] = "idle"
    BY <1>1 DEF Answer
  <2>4. QED
    BY <1>1, <1>3, <1>4, <1>7, <2>1, <2>2, <2>3
<1>8. QED
  BY <1>5, <1>6, <1>7 DEF Serve

\* Every step keeps who waits for whom.
LEMMA RepliesKeepTypes ==
  ASSUME ReplyTypeOK, CallsOK, CallsOK', [ReplyNext]_all
  PROVE  ReplyTypeOK'
<1>1. /\ pc \in [Workers -> {"idle", "received", "loaded", "mutated", "planned"}]
      /\ pc' \in [Workers -> {"idle", "received", "loaded", "mutated", "planned"}]
  BY DEF CallsOK, TypeOK
<1>2. ASSUME NEW c \in Clients, GiveUpWaiting(c) PROVE ReplyTypeOK'
  <2>1. /\ answer' = [answer EXCEPT ![c] = "deadline"] /\ server' = [server EXCEPT ![c] = None]
        /\ UNCHANGED << command, given, attempts, client, applied, pc >>
    BY <1>2 DEF GiveUpWaiting, vars, session
  <2>2. QED
    BY <2>1, ClientsAssumption DEF ReplyTypeOK, Waiting, Causes
<1>3. ASSUME NEW w \in Workers, NEW cause \in {"nil", "failed"}, CommitWith(w, cause)
      PROVE  ReplyTypeOK'
  <2>1. cause \in Causes \ {"waiting"}
    BY DEF Causes
  <2>2. /\ pc[w] = "planned" /\ Reply(w, cause) /\ pc' = [pc EXCEPT ![w] = "idle"]
        /\ rows' = [rows EXCEPT ![request[w].id] = Written(w)]
        /\ UNCHANGED << command, given, attempts >>
    BY <1>3 DEF CommitWith, Commit, Answer
  <2>3. rows'[request[w].id].version \in Nat
    <3>1. Written(w) \in Aggregate /\ request[w].id \in Products
      BY <2>2, PlannedCall DEF Request
    <3>2. rows'[request[w].id] = Written(w)
      BY <2>2, <3>1 DEF CallsOK, TypeOK
    <3>3. QED
      BY <3>1, <3>2 DEF Aggregate
  <2>4. applied' \in [Clients -> Seq(Nat)]
    <3> DEFINE made == rows'[request[w].id].version
    <3>1. applied' = applied
            \/ (client[w] # None /\ applied' = [applied EXCEPT ![client[w]] = Append(@, made)])
      BY <1>3 DEF CommitWith
    <3>2. /\ made \in Nat /\ applied \in [Clients -> Seq(Nat)]
          /\ client[w] # None => client[w] \in Clients
      BY <2>3 DEF ReplyTypeOK
    <3> HIDE DEF made
    <3>3. CASE client[w] # None
      <4>1. Append(applied[client[w]], made) \in Seq(Nat)
        BY <3>2, <3>3
      <4>2. QED
        BY <3>1, <3>2, <3>3, <4>1
    <3>4. QED
      BY <3>1, <3>2, <3>3
  <2>5. QED
    BY <1>1, <2>1, <2>2, <2>4, ReturnStep
<1>4. ASSUME NEW w \in Workers, ConflictReply(w) \/ FailReply(w) PROVE ReplyTypeOK'
  <2>1. PICK cause \in Causes \ {"waiting"} : Reply(w, cause)
    BY <1>4 DEF ConflictReply, FailReply, Causes
  <2>2. /\ pc' = [pc EXCEPT ![w] = "idle"]
        /\ UNCHANGED << command, given, attempts, applied >>
    BY <1>4 DEF ConflictReply, FailReply, Conflict, Fail, Answer
  <2>3. applied' \in [Clients -> Seq(Nat)]
    BY <2>2 DEF ReplyTypeOK
  <2>4. QED
    BY <1>1, <2>1, <2>2, <2>3, ReturnStep
<1>5. ASSUME NEW w \in Workers, Found(w) PROVE ReplyTypeOK'
  <2>1. pc' = [pc EXCEPT ![w] = "planned"] /\ UNCHANGED clients
    BY <1>5 DEF Found, StartCreate
  <2>2. applied' \in [Clients -> Seq(Nat)]
    BY <2>1 DEF ReplyTypeOK, clients
  <2>3. QED
    BY <1>1, <2>1, <2>2, WaitingUndisturbed DEF clients
<1>6. CASE CrashReply
  <2>1. /\ client' = [w \in Workers |-> None] /\ server' = [c \in Clients |-> None]
        /\ answer' = [c \in Clients |-> IF answer[c] = "waiting" THEN "unavailable"
                                        ELSE answer[c]]
        /\ UNCHANGED << command, given, attempts, applied >>
    BY <1>6 DEF CrashReply, Waiting
  <2>2. QED
    BY <2>1 DEF ReplyTypeOK, Waiting, Causes
<1>7. CASE Settled \/ UNCHANGED all
  <2>1. UNCHANGED << pc, command, given, attempts, server, answer, client, applied >>
    BY <1>7 DEF Settled, all, vars, session, clients
  <2>2. QED
    BY <2>1 DEF ReplyTypeOK, Waiting
<1>8. QED
  BY <1>2, <1>3, <1>4, <1>5, <1>6, <1>7, SendKeepsTypes, ServeKeepsTypes
     DEF ReplyNext, Finish, PanicReply, CommitReply, CommitInDoubt

\* A client waits for the one worker that serves it, and for no other, through
\* answers, deadlines and crashes; and gets no cause but those Code is made for.
THEOREM WaitingIsServed == ReplySpec => []ReplyTypeOK
<1>1. ReplyInit => ReplyTypeOK
  BY ClientsAssumption DEF ReplyInit, ReplyTypeOK, Waiting, Causes
<1>2. ReplyTypeOK /\ CallsOK /\ CallsOK' /\ [ReplyNext]_all => ReplyTypeOK'
  BY RepliesKeepTypes
<1>3. QED
  BY <1>1, <1>2, ClientsUseTheService, CallsAlwaysOK, PTL DEF ReplySpec
================================================================================
