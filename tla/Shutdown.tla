-------------------------------- MODULE Shutdown --------------------------------
(***************************************************************************)
(* cmd/server: one process with a gRPC server, an HTTP server whose only   *)
(* handler calls the gRPC server over a connection of its own, and the     *)
(* Spanner client both depend on.  The main goroutine starts them, waits   *)
(* for a signal and takes them down one after the other.  Neither server   *)
(* has a timeout: how long a connection is in use can be up to its client. *)
(***************************************************************************)
CONSTANTS
  HttpRequests,   \* slots for HTTP requests under way at one time
  GrpcCalls       \* slots for calls of gRPC clients under way at one time

ASSUME SlotsAssumption == HttpRequests \cap GrpcCalls = {}

VARIABLES
  main,       \* how far run has come
  grpc,       \* the gRPC server: bound to its port, serving, stopping ...
  http,       \* the HTTP server
  spanner,    \* the Spanner client
  request,    \* each HTTP request: what its handler is doing
  call        \* each gRPC call, an HTTP request's or a client's own

vars == << main, grpc, http, spanner, request, call >>

Init ==
  /\ main = "starting"
  /\ grpc = "down" /\ http = "down"
  /\ spanner = "none"
  /\ request = [r \in HttpRequests |-> "none"]
  /\ call = [c \in HttpRequests \cup GrpcCalls |-> "none"]

--------------------------------------------------------------------------------
\* The main goroutine.  The port is bound before the goroutines start that serve
\* the two servers; an error up to here ends the process.
Start ==
  /\ main = "starting"
  /\ main' = "waiting"
  /\ grpc' = "bound" /\ http' = "launched"
  /\ spanner' = "open"
  /\ UNCHANGED << request, call >>

StartFails ==
  /\ main = "starting"
  /\ main' = "exited"
  /\ UNCHANGED << grpc, http, spanner, request, call >>

\* The two goroutines.  An error of Serve or ListenAndServe (the HTTP port is
\* taken, say) is logged, and the process runs on with the other server.
ServeGrpc ==
  /\ grpc = "bound"
  /\ grpc' \in {"serving", "failed"}
  /\ UNCHANGED << main, http, spanner, request, call >>

ServeHttp ==
  /\ http = "launched"
  /\ http' \in {"serving", "failed"}
  /\ UNCHANGED << main, grpc, spanner, request, call >>

\* A listener breaks later on; the connections it has accepted stay in use.
ListenerFails ==
  /\ \/ grpc = "serving" /\ grpc' = "broken" /\ UNCHANGED http
     \/ http = "serving" /\ http' = "broken" /\ UNCHANGED grpc
  /\ UNCHANGED << main, spanner, request, call >>

\* A signal: Shutdown closes the HTTP listener, also one not yet opened.
Signal ==
  /\ main = "waiting"
  /\ main' = "stoppingHttp"
  /\ http' = "stopping"
  /\ UNCHANGED << grpc, spanner, request, call >>

\* Mutant: Close instead of Shutdown, which waits for no request.
HttpStoppedAtOnce ==
  /\ main = "stoppingHttp"
  /\ main' = "stoppingGrpc"
  /\ http' = "stopped"
  /\ grpc' = "stopping"
  /\ UNCHANGED << spanner, request, call >>

\* Shutdown returns when no request is under way; then GracefulStop closes the
\* gRPC listener.
HttpStopped ==
  /\ main = "stoppingHttp"
  /\ \A r \in HttpRequests : request[r] = "none"
  /\ main' = "stoppingGrpc"
  /\ http' = "stopped"
  /\ grpc' = "stopping"
  /\ UNCHANGED << spanner, request, call >>

\* Mutant: the gRPC server is told to stop in a goroutine of its own.
GrpcStoppedInBackground ==
  /\ main = "stoppingGrpc"
  /\ main' = "exited"
  /\ grpc' = "stopped"
  /\ spanner' = "closed"
  /\ UNCHANGED << http, request, call >>

\* GracefulStop returns when no call is under way; run returns, and its deferred
\* Close closes the Spanner client.
GrpcStopped ==
  /\ main = "stoppingGrpc"
  /\ \A c \in DOMAIN call : call[c] = "none"
  /\ main' = "exited"
  /\ grpc' = "stopped"
  /\ spanner' = "closed"
  /\ UNCHANGED << http, request, call >>

--------------------------------------------------------------------------------
\* Mutant: requests on open connections are served during Shutdown.
AcceptWhileStopping(r) ==
  /\ http \in {"serving", "broken", "stopping"} /\ request[r] = "none"
  /\ request' = [request EXCEPT ![r] = "arriving"]
  /\ UNCHANGED << main, grpc, http, spanner, call >>

\* The first byte of an HTTP request: from now on Shutdown waits for it.
Accept(r) ==
  /\ http \in {"serving", "broken"} /\ request[r] = "none"
  /\ request' = [request EXCEPT ![r] = "arriving"]
  /\ UNCHANGED << main, grpc, http, spanner, call >>

\* Its last byte, if the client sends it; the handler for /api/v1/events starts.
Arrive(r) ==
  /\ request[r] = "arriving"
  /\ request' = [request EXCEPT ![r] = "accepted"]
  /\ UNCHANGED << main, grpc, http, spanner, call >>

\* Mutant: the call of the handler waits for a gRPC server that is ready.
CallGrpcWhenReady(r) ==
  /\ request[r] = "accepted"
  /\ grpc \in {"bound", "serving"}
  /\ request' = [request EXCEPT ![r] = "calling"]
  /\ call' = [call EXCEPT ![r] = "running"]
  /\ UNCHANGED << main, grpc, http, spanner >>

\* Its handler connects to the gRPC port.  A connection to a bound port waits for
\* Serve; a port that is closed answers with an error at once.
CallGrpc(r) ==
  /\ request[r] = "accepted"
  /\ IF grpc \in {"bound", "serving"}
     THEN /\ request' = [request EXCEPT ![r] = "calling"]
          /\ call' = [call EXCEPT ![r] = "running"]
     ELSE /\ request' = [request EXCEPT ![r] = "failed"]
          /\ UNCHANGED call
  /\ UNCHANGED << main, grpc, http, spanner >>

\* What a call can be when its end lies with its client, on a connection the server
\* has accepted: an open stream, or a reply left unread.
Lingering == IF grpc \in {"bound", "failed"} THEN {} ELSE {"held"}

\* A client of the gRPC API calls, also while the HTTP server is being stopped and
\* over a connection that has survived the listener: a handler runs, or a stream of
\* the reflection service is open until the client closes it.
Dial(c) ==
  /\ grpc \in {"bound", "serving", "broken"} /\ call[c] = "none"
  /\ \E kind \in {"running"} \cup Lingering : call' = [call EXCEPT ![c] = kind]
  /\ UNCHANGED << main, grpc, http, spanner, request >>

\* A gRPC handler returns, with what Spanner gave it or with an error; a call that
\* was never picked up because Serve failed ends with its connection.  The HTTP
\* handler reads its reply at once.
ReturnToHandler(r) ==
  /\ call[r] = "running" /\ grpc # "bound"
  /\ call' = [call EXCEPT ![r] = "none"]
  /\ \E result \in {"returned"} \cup (IF grpc \in {"failed", "broken"} THEN {"failed"} ELSE {}) :
       request' = [request EXCEPT ![r] = result]
  /\ UNCHANGED << main, grpc, http, spanner >>

\* A client of its own may leave the reply unread; one that is too long for the
\* flow-control window then keeps the call open.
Return(c) ==
  /\ call[c] = "running" /\ grpc # "bound"
  /\ \E rest \in {"none"} \cup Lingering : call' = [call EXCEPT ![c] = rest]
  /\ UNCHANGED << main, grpc, http, spanner, request >>

\* The HTTP handler writes the answer, 200 or 500, which the client may not read.
Respond(r) ==
  /\ request[r] \in {"returned", "failed"}
  /\ \E rest \in {"none", "unread"} : request' = [request EXCEPT ![r] = rest]
  /\ UNCHANGED << main, grpc, http, spanner, call >>

\* A client lets go: it reads the answer, closes its stream or disconnects.
LetGoHttp(r) ==
  /\ request[r] \in {"arriving", "unread"}
  /\ request' = [request EXCEPT ![r] = "none"]
  /\ UNCHANGED << main, grpc, http, spanner, call >>

LetGo(c) ==
  /\ call[c] = "held"
  /\ call' = [call EXCEPT ![c] = "none"]
  /\ UNCHANGED << main, grpc, http, spanner, request >>

Exited == main = "exited" /\ UNCHANGED vars

Shutting == HttpStopped \/ GrpcStopped

Next ==
  \/ Start \/ StartFails \/ ServeGrpc \/ ServeHttp \/ ListenerFails \/ Signal \/ Shutting
  \/ \E r \in HttpRequests :
       \/ Accept(r) \/ Arrive(r) \/ CallGrpc(r) \/ ReturnToHandler(r) \/ Respond(r)
       \/ LetGoHttp(r)
  \/ \E c \in GrpcCalls : Dial(c) \/ Return(c) \/ LetGo(c)
  \/ Exited

Spec == Init /\ [][Next]_vars

\* Goroutines are scheduled, and Spanner answers or fails: the handlers set no
\* deadline of their own, so without that they would wait for ever.  Nothing makes a
\* client go on: Arrive, LetGoHttp and LetGo have no fairness.
Fairness ==
  /\ WF_vars(ServeGrpc) /\ WF_vars(Shutting)
  /\ \A r \in HttpRequests :
       WF_vars(CallGrpc(r)) /\ WF_vars(ReturnToHandler(r)) /\ WF_vars(Respond(r))
  /\ \A c \in GrpcCalls : WF_vars(Return(c))

FairSpec == Spec /\ Fairness

--------------------------------------------------------------------------------
\* An HTTP request is at its call exactly while that call runs.
TypeOK ==
  /\ main \in {"starting", "waiting", "stoppingHttp", "stoppingGrpc", "exited"}
  /\ grpc \in {"down", "bound", "serving", "failed", "broken", "stopping", "stopped"}
  /\ http \in {"down", "launched", "serving", "failed", "broken", "stopping", "stopped"}
  /\ spanner \in {"none", "open", "closed"}
  /\ request \in [HttpRequests -> {"none", "arriving", "accepted", "calling", "returned",
                                  "failed", "unread"}]
  /\ call \in [HttpRequests \cup GrpcCalls -> {"none", "running", "held"}]
  /\ \A r \in HttpRequests : request[r] = "calling" <=> call[r] # "none"

Active(r) == request[r] # "none"

\* The order of the shutdown: an HTTP request that began before the signal still
\* finds the gRPC server it depends on; it fails only if that server never came up
\* or has lost its listener.
RequestsKeepTheirServer ==
  \A r \in HttpRequests :
    /\ request[r] = "failed" => grpc \in {"failed", "broken"}
    /\ Active(r) => grpc \in {"bound", "serving", "failed", "broken"}

\* The Spanner client is closed last: no handler of either server is running then,
\* and none starts afterwards.
SpannerOutlivesCalls ==
  spanner # "open" =>
    /\ \A r \in HttpRequests : ~Active(r)
    /\ \A c \in DOMAIN call : call[c] = "none"

\* No client holds its connection for ever: a half-sent request or an unread answer
\* over HTTP, an open stream or an unread reply over gRPC.
ClientsLetGo ==
  /\ \A r \in HttpRequests : []<>(request[r] \notin {"arriving", "unread"})
  /\ \A c \in GrpcCalls : []<>(call[c] # "held")

\* After a signal the process ends if its clients let go, although Shutdown waits for
\* HTTP requests and GracefulStop for gRPC calls without a limit, and although gRPC
\* clients go on calling while the HTTP server stops.  (A single client that does not
\* let go keeps it from ending.)
ShutdownEnds == ClientsLetGo => (main = "stoppingHttp" ~> main = "exited")

\* The handler of every HTTP request that has arrived writes an answer, whatever
\* became of the gRPC server and whatever other clients do.
RequestsAreAnswered ==
  \A r \in HttpRequests :
    request[r] \in {"accepted", "calling"} ~> request[r] \in {"none", "unread"}
================================================================================
