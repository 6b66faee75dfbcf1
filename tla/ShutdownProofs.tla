----------------------------- MODULE ShutdownProofs -----------------------------
(***************************************************************************)
(* Proofs about Shutdown, for any number of requests and calls under way.  *)
(* What a step may do depends on how far the main goroutine is: Stages     *)
(* says what the servers are at each stage, and Quiet who may still run.   *)
(***************************************************************************)
EXTENDS Shutdown, TLAPS

Stages ==
  /\ main = "starting" => grpc = "down" /\ http = "down" /\ spanner = "none"
  /\ main \in {"waiting", "stoppingHttp"} =>
       grpc \in {"bound", "serving", "failed", "broken"} /\ spanner = "open"
  /\ main = "stoppingHttp" => http = "stopping"
  /\ main = "stoppingGrpc" =>
       grpc = "stopping" /\ http = "stopped" /\ spanner = "open"
  /\ main = "exited" =>
       \/ grpc = "down" /\ http = "down" /\ spanner = "none"
       \/ grpc = "stopped" /\ http = "stopped" /\ spanner = "closed"

Quiet ==
  /\ main \notin {"waiting", "stoppingHttp"} =>
       \A r \in HttpRequests : request[r] = "none"
  /\ main \in {"starting", "exited"} =>
       \A c \in HttpRequests \cup GrpcCalls : call[c] = "none"

FailedNeedsFailure ==
  \A r \in HttpRequests : request[r] = "failed" => grpc \in {"failed", "broken"}

ShutdownInv == TypeOK /\ Stages /\ Quiet /\ FailedNeedsFailure

\* At the start no server is up and nothing runs.
LEMMA ShutdownInitially == Init => ShutdownInv
BY DEF Init, ShutdownInv, TypeOK, Stages, Quiet, FailedNeedsFailure

\* The steps of the main goroutine and of the goroutines that serve: those change
\* no request and no call, and each stage is entered with what it promises.
LEMMA ServersStep ==
  ASSUME ShutdownInv,
         \/ Start \/ StartFails \/ ServeGrpc \/ ServeHttp \/ ListenerFails
         \/ Signal \/ Shutting
  PROVE  ShutdownInv'
<1> USE DEF ShutdownInv, TypeOK, Stages, Quiet, FailedNeedsFailure
<1>1. CASE Start
  BY <1>1 DEF Start
<1>2. CASE StartFails
  BY <1>2 DEF StartFails
<1>3. CASE ServeGrpc
  BY <1>3 DEF ServeGrpc
<1>4. CASE ServeHttp
  BY <1>4 DEF ServeHttp
<1>5. CASE ListenerFails
  BY <1>5 DEF ListenerFails
<1>6. CASE Signal
  BY <1>6 DEF Signal
<1>7. CASE Shutting
  <2>1. CASE HttpStopped
    BY <2>1 DEF HttpStopped
  <2>2. CASE GrpcStopped
    BY <2>2 DEF GrpcStopped
  <2>3. QED
    BY <1>7, <2>1, <2>2 DEF Shutting
<1>8. QED
  BY <1>1, <1>2, <1>3, <1>4, <1>5, <1>6, <1>7

\* The steps of an HTTP request.  One that has begun shows that the main goroutine
\* has not passed Shutdown, so the gRPC server is at its port or has failed.
LEMMA RequestStep ==
  ASSUME ShutdownInv, NEW r \in HttpRequests,
         \/ Accept(r) \/ Arrive(r) \/ CallGrpc(r) \/ ReturnToHandler(r) \/ Respond(r)
         \/ LetGoHttp(r)
  PROVE  ShutdownInv'
<1> USE DEF ShutdownInv, TypeOK, Stages, Quiet, FailedNeedsFailure
<1>1. CASE Accept(r)
  <2>1. main = "waiting"
    BY <1>1 DEF Accept
  <2>2. QED
    BY <1>1, <2>1 DEF Accept
<1>2. CASE CallGrpc(r)
  <2>1. main \in {"waiting", "stoppingHttp"}
    BY <1>2 DEF CallGrpc
  <2>2. CASE grpc \in {"bound", "serving"}
    BY <1>2, <2>1, <2>2 DEF CallGrpc
  <2>3. CASE grpc \notin {"bound", "serving"}
    BY <1>2, <2>1, <2>3 DEF CallGrpc
  <2>4. QED
    BY <2>2, <2>3
<1>3. CASE Arrive(r) \/ Respond(r) \/ LetGoHttp(r)
  <2>1. /\ call[r] = "none" /\ main \in {"waiting", "stoppingHttp"}
        /\ request[r] # "calling"
    BY <1>3 DEF Arrive, Respond, LetGoHttp
  <2>2. PICK new \in {"none", "accepted", "unread"} :
           request' = [request EXCEPT ![r] = new]
    BY <1>3 DEF Arrive, Respond, LetGoHttp
  <2>3. UNCHANGED << main, grpc, http, spanner, call >>
    BY <1>3 DEF Arrive, Respond, LetGoHttp
  <2>4. QED
    BY <2>1, <2>2, <2>3
<1>4. CASE ReturnToHandler(r)
  <2>1. request[r] = "calling" /\ main \in {"waiting", "stoppingHttp"}
    BY <1>4 DEF ReturnToHandler
  <2>2. PICK result \in {"returned", "failed"} :
           /\ request' = [request EXCEPT ![r] = result]
           /\ result = "failed" => grpc \in {"failed", "broken"}
    BY <1>4 DEF ReturnToHandler
  <2>3. call' = [call EXCEPT ![r] = "none"] /\ UNCHANGED << main, grpc, http, spanner >>
    BY <1>4 DEF ReturnToHandler
  <2>4. QED
    BY <2>1, <2>2, <2>3
<1>5. QED
  BY <1>1, <1>2, <1>3, <1>4

\* The steps of a call that a client of the gRPC API makes.
LEMMA CallStep ==
  ASSUME ShutdownInv, NEW c \in GrpcCalls, Dial(c) \/ Return(c) \/ LetGo(c)
  PROVE  ShutdownInv'
<1> USE DEF ShutdownInv, TypeOK, Stages, Quiet, FailedNeedsFailure
<1>1. main \notin {"starting", "exited"} /\ c \notin HttpRequests
  BY SlotsAssumption DEF Dial, Return, LetGo
<1>2. PICK new \in {"none", "running", "held"} : call' = [call EXCEPT ![c] = new]
  BY DEF Dial, Return, LetGo, Lingering
<1>3. UNCHANGED << main, grpc, http, spanner, request >>
  BY DEF Dial, Return, LetGo
<1>4. QED
  BY <1>1, <1>2, <1>3

\* Every step keeps the invariant.
LEMMA ShutdownInductive == ShutdownInv /\ [Next]_vars => ShutdownInv'
<1> SUFFICES ASSUME ShutdownInv, [Next]_vars PROVE ShutdownInv'
  OBVIOUS
<1>1. CASE UNCHANGED vars
  BY <1>1 DEF vars, ShutdownInv, TypeOK, Stages, Quiet, FailedNeedsFailure
<1>2. CASE Exited
  BY <1>1, <1>2 DEF Exited
<1>3. QED
  BY <1>1, <1>2, ServersStep, RequestStep, CallStep DEF Next

\* The invariant holds for ever.
LEMMA ShutdownInvariant == Spec => []ShutdownInv
BY ShutdownInitially, ShutdownInductive, PTL DEF Spec

\* Every variable keeps its range, and an HTTP request waits for its call exactly
\* while that call runs.
THEOREM ShutdownTyped == Spec => []TypeOK
<1>1. ShutdownInv => TypeOK
  BY DEF ShutdownInv
<1>2. QED
  BY <1>1, ShutdownInvariant, PTL

\* The order of the shutdown, HTTP before gRPC: no accepted request loses the gRPC
\* server it depends on.
THEOREM RequestsKeepServer == Spec => []RequestsKeepTheirServer
<1>1. ShutdownInv => RequestsKeepTheirServer
  BY DEF ShutdownInv, TypeOK, Stages, Quiet, FailedNeedsFailure,
         RequestsKeepTheirServer, Active
<1>2. QED
  BY <1>1, ShutdownInvariant, PTL

\* The deferred Close runs last: no handler meets a Spanner client that is closed.
THEOREM SpannerClosedLast == Spec => []SpannerOutlivesCalls
<1>1. ShutdownInv => SpannerOutlivesCalls
  BY DEF ShutdownInv, TypeOK, Stages, Quiet, SpannerOutlivesCalls, Active
<1>2. QED
  BY <1>1, ShutdownInvariant, PTL
=================================================================================
