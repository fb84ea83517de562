----------------------------- MODULE SimpleProxy ----------------------------
(***************************************************************************)
(* The life of requests in the proxy: the ProxyHttp hooks of               *)
(* src/src/proxy/simple_proxy.rs in the order pingora calls them, composed *)
(* with the rate limiter (RateLimiter), the parsing of the host (HostPort) *)
(* and the health flags the selection reads.                               *)
(*                                                                         *)
(*   request_filter -> upstream_peer -> connect -> upstream response       *)
(*                       ^  |              |            |                  *)
(*                       |  v              v            v                  *)
(*                       |  error      fail_to_     error_while_proxy      *)
(*                       |             connect          |                  *)
(*                       +---------- retry -------------+                  *)
(*   every error that is not retried -> fail_to_proxy                      *)
(*                                                                         *)
(* select is abstracted to what Selection shows of it: it returns a        *)
(* backend whose flag is up, or None, which concurrency can make it return *)
(* whatever the flags say.  The clients, the backends and pingora's own    *)
(* loop are the environment.                                               *)
(***************************************************************************)
EXTENDS HostPort, FiniteSets

CONSTANTS
  Requests, Clients,     \* requests, and the addresses (IP:port) they come from
  ClientOf,              \* the address of each request's connection
  IpOf,                  \* the IP of each address
  Inputs,                \* heads of requests: path, header (Host) and uri
  Workloads,             \* which requests come with which heads
  ServerNames,           \* the names in the route table
  BackendsOf,            \* the backends of each server name
  Backends,
  LimiterOn,             \* is a rate limit configured?
  MaxRequests, Window, MaxDelay, MinInstant, MaxClock,   \* see RateLimiter
  MaxRetries,            \* attempts pingora makes beyond the first
  NoRoute                \* a host that is not in the route table

VARIABLES
  clock, pc, stamp, tracked, entries, sweep, log, decided,   \* the limiter
  input,       \* the head of each request
  stage,       \* where each request is
  route, port, \* ctx.route_entry (the server name it belongs to) and ctx.port
  ready,       \* the health flags
  reused,      \* is the upstream connection of the attempt a reused one?
  attempts,    \* history: the attempts that reached a backend
  truncated,   \* was the body read so far too long for the retry buffer?
  status,      \* the status the client got, 0 when none
  cause        \* history: why the request ended

\* A header is one of the kinds of HostPort.  No server has the name that the
\* split leaves of a literal, its opening bracket.
HeaderFits(header) ==
  \/ header.kind \in {"absent", "opaque"}
  \/ header.kind = "name" /\ header.rest \in Seq(AnyPart)
  \/ /\ header.kind = "literal"
     /\ header.groups \in Seq(AnyPart) /\ header.rest \in Seq(AnyPart)
     /\ header.groups # <<>>
     /\ header.groups[1].text \notin ServerNames

ASSUME ProxyAssumption ==
  /\ ClientOf \in [Requests -> Clients]
  /\ MaxRequests \in Nat \ {0}
  /\ Window \in Nat
  /\ MaxDelay \in Nat
  /\ MinInstant \in Int
  /\ MaxClock \in Nat
  /\ \A head \in Inputs : HeaderFits(head.header)
  /\ Workloads \subseteq [Requests -> Inputs]
  /\ BackendsOf \in [ServerNames -> SUBSET Backends]
  /\ NoRoute \notin ServerNames
  /\ MaxRetries \in Nat

limiterVars == <<clock, pc, stamp, tracked, entries, sweep, log, decided>>
ctxVars == <<input, stage, route, port, ready, reused, attempts, truncated, status, cause>>
vars == <<limiterVars, ctxVars>>

\* The limiter of the proxy: its keys are the addresses of the connections,
\* and nothing in the proxy resets, clears or sweeps it.
Limiter == INSTANCE RateLimiter WITH
  Keys <- Clients, KeyOf <- ClientOf, Sweepers <- {}, NumShards <- 1,
  ShardOf <- [k \in Clients |-> 1]

Init ==
  /\ Limiter!Init
  /\ input \in Workloads
  /\ stage = [r \in Requests |-> "new"]
  /\ route = [r \in Requests |-> NoRoute]
  /\ port = [r \in Requests |-> 80]
  /\ ready = [b \in Backends |-> TRUE]
  /\ reused = [r \in Requests |-> FALSE]
  /\ attempts = [r \in Requests |-> <<>>]
  /\ truncated = [r \in Requests |-> FALSE]
  /\ status = [r \in Requests |-> 0]
  /\ cause = [r \in Requests |-> "none"]

-----------------------------------------------------------------------------
(* Errors                                                                  *)

\* pingora's errors, by type and source.
Err(type, source, code) == [type |-> type, source |-> source, code |-> code]
HttpStatus(code) == Err("HTTPStatus", "Upstream", code)

\* Types that say the client is gone.
DeadConnection == {"WriteError", "ReadError", "ConnectionClosed"}

\* Mutant: the source is looked at before the type.
CodeBySource(e) ==
  CASE e.source = "Upstream" -> 502
    [] e.source = "Downstream" -> IF e.type \in DeadConnection THEN 0 ELSE 400
    [] OTHER -> 500

\* fail_to_proxy: the status an error is answered with, 0 for none.
Code(e) ==
  CASE e.type = "HTTPStatus" -> e.code
    [] e.type # "HTTPStatus" /\ e.source = "Upstream" -> 502
    [] e.type # "HTTPStatus" /\ e.source = "Downstream" ->
         IF e.type \in DeadConnection THEN 0 ELSE 400
    [] OTHER -> 500

\* Mutant: an error is answered whatever was sent before.
AnsweredAgain(r, e) == {Code(e)}

\* An answer needs a header that was not sent yet; sending it may fail too,
\* which is only logged.
Answered(r, e) == IF status[r] # 0 THEN {status[r]} ELSE {0, Code(e)}

\* The request ends with fail_to_proxy.
FailToProxy(r, e, why) ==
  /\ stage' = [stage EXCEPT ![r] = "done"]
  /\ \E s \in Answered(r, e) : status' = [status EXCEPT ![r] = s]
  /\ cause' = [cause EXCEPT ![r] = why]
  /\ UNCHANGED <<input, route, port, ready, reused, attempts, truncated>>

-----------------------------------------------------------------------------
(* request_filter                                                          *)

\* Mutant: the health path is limited like any other.
NeverExempt(r) == ~LimiterOn

\* The health path is not limited.
Exempt(r) == ~LimiterOn \/ input[r].path = "/health"

Target(r) == GetHostPort(input[r].header, input[r].uri)

\* The host is looked up as it is written.
Routed(r) ==
  /\ stage' = [stage EXCEPT ![r] = "filtered"]
  /\ route' = [route EXCEPT ![r] = IF Target(r).host \in ServerNames THEN Target(r).host ELSE NoRoute]
  /\ port' = [port EXCEPT ![r] = Target(r).port]
  /\ UNCHANGED <<input, ready, reused, attempts, truncated, status, cause>>

SkipLimiter(r) ==
  /\ stage[r] = "new"
  /\ Exempt(r)
  /\ Routed(r)
  /\ UNCHANGED limiterVars

\* allow reads the clock ...
AskLimiter(r) ==
  /\ stage[r] = "new"
  /\ ~Exempt(r)
  /\ Limiter!Now(r)
  /\ stage' = [stage EXCEPT ![r] = "limiter"]
  /\ UNCHANGED <<input, route, port, ready, reused, attempts, truncated, status, cause>>

\* ... which may panic and take the request's task with it.
LimiterPanics(r) ==
  /\ stage[r] = "new"
  /\ ~Exempt(r)
  /\ Limiter!Panic(r)
  /\ stage' = [stage EXCEPT ![r] = "done"]
  /\ cause' = [cause EXCEPT ![r] = "panic"]
  /\ UNCHANGED <<input, route, port, ready, reused, attempts, truncated, status>>

Admit(r) ==
  /\ stage[r] = "limiter"
  /\ Limiter!Allow(r)
  /\ Routed(r)

\* Mutant: the refused request is not consumed.
TooManyRequestsGoesOn(r) ==
  /\ stage[r] = "limiter"
  /\ Limiter!Deny(r)
  /\ Routed(r)

\* The header of the 429 with Retry-After is sent ...
TooManyRequests(r) ==
  /\ stage[r] = "limiter"
  /\ Limiter!Deny(r)
  /\ stage' = [stage EXCEPT ![r] = "refused"]
  /\ status' = [status EXCEPT ![r] = 429]
  /\ UNCHANGED <<input, route, port, ready, reused, attempts, truncated, cause>>

\* ... then its body: the request is consumed.
RefusalSent(r) ==
  /\ stage[r] = "refused"
  /\ stage' = [stage EXCEPT ![r] = "done"]
  /\ cause' = [cause EXCEPT ![r] = "limited"]
  /\ UNCHANGED <<limiterVars, input, route, port, ready, reused, attempts, truncated, status>>

\* Either write may fail.  The error is that of the session, which does not
\* have to say which side it is of.
RefusalFails(r) ==
  \E source \in {"Downstream", "Unset"} :
    FailToProxy(r, Err("WriteError", source, 0), "refusal_failed")

TooManyRequestsUnsent(r) ==
  /\ stage[r] = "limiter"
  /\ Limiter!Deny(r)
  /\ RefusalFails(r)

RefusalCut(r) ==
  /\ stage[r] = "refused"
  /\ RefusalFails(r)
  /\ UNCHANGED limiterVars

-----------------------------------------------------------------------------
(* upstream_peer and the connection                                        *)

NotFound(r) ==
  /\ stage[r] = "filtered"
  /\ route[r] = NoRoute
  /\ FailToProxy(r, HttpStatus(404), "no_route")
  /\ UNCHANGED limiterVars

BadGateway(r) ==
  /\ stage[r] = "filtered"
  /\ route[r] # NoRoute
  /\ FailToProxy(r, HttpStatus(502), "no_backend")
  /\ UNCHANGED limiterVars

\* Mutant: the route of the request is not consulted.
AnyReady(r) == {b \in Backends : ready[b]}

Selectable(r) == {b \in BackendsOf[route[r]] : ready[b]}

\* A backend is selected; the connection to it is a new one or comes from the
\* pool, and the request is sent.  Its body comes from the retry buffer first,
\* which holds nothing any more once it was too long.
Connected(r) ==
  /\ stage[r] = "filtered"
  /\ route[r] # NoRoute
  /\ \E b \in Selectable(r), pooled \in BOOLEAN :
       /\ reused' = [reused EXCEPT ![r] = pooled]
       /\ attempts' = [attempts EXCEPT ![r] = Append(@,
            [backend |-> b, reused |-> pooled, whole |-> ~truncated[r], error |-> "none"])]
  /\ stage' = [stage EXCEPT ![r] = "sent"]
  /\ UNCHANGED <<limiterVars, input, route, port, ready, truncated, status, cause>>

\* fail_to_connect hands the error on as it is: no second try.
ConnectFails(r) ==
  /\ stage[r] = "filtered"
  /\ route[r] # NoRoute
  /\ Selectable(r) # {}
  /\ FailToProxy(r, Err("ConnectError", "Upstream", 0), "connect_failed")
  /\ UNCHANGED limiterVars

-----------------------------------------------------------------------------
(* The upstream connection fails                                           *)

\* The body that is read and sent on outgrows the retry buffer.
BodyTruncated(r) ==
  /\ stage[r] = "sent"
  /\ truncated' = [truncated EXCEPT ![r] = TRUE]
  /\ UNCHANGED <<limiterVars, input, stage, route, port, ready, reused, attempts, status, cause>>

\* Mutant: the retry buffer is not looked at.
ReusableTruncated(r) == reused[r]

\* error_while_proxy: what decide_reuse is told.
Reusable(r) == reused[r] /\ ~truncated[r]

\* The errors before the response header that pingora retries.  "refused": the
\* backend has said that it did not process the request (HTTP/2: GOAWAY without
\* an error, REFUSED_STREAM), which pingora has decided to retry; decide_reuse
\* leaves that alone.  "broken": the connection broke, retried if reused.
Retries(r, error) == error = "refused" \/ (error = "broken" /\ Reusable(r))

\* pingora takes the request back to upstream_peer.
TurnBack(r, error) ==
  /\ Retries(r, error)
  /\ Len(attempts[r]) <= MaxRetries
  /\ stage' = [stage EXCEPT ![r] = "filtered"]
  /\ attempts' = [attempts EXCEPT ![r][Len(attempts[r])].error = error]
  /\ UNCHANGED <<limiterVars, input, route, port, ready, reused, truncated, status, cause>>

\* Mutant: an upstream that fails after its response has begun is retried too.
RetryLate(r) ==
  /\ stage[r] \in {"sent", "responding"}
  /\ \E error \in {"refused", "broken"} : TurnBack(r, error)

Retry(r) ==
  /\ stage[r] = "sent"
  /\ \E error \in {"refused", "broken"} : TurnBack(r, error)

\* Any other error, or the last one that may be retried.
UpstreamFails(r) ==
  /\ stage[r] \in {"sent", "responding"}
  /\ FailToProxy(r, Err("ReadError", "Upstream", 0), "upstream_failed")
  /\ UNCHANGED limiterVars

-----------------------------------------------------------------------------
(* The response, the client and everything else                            *)

ResponseHeader(r) ==
  /\ stage[r] = "sent"
  /\ stage' = [stage EXCEPT ![r] = "responding"]
  /\ status' = [status EXCEPT ![r] = 200]
  /\ UNCHANGED <<limiterVars, input, route, port, ready, reused, attempts, truncated, cause>>

ResponseEnd(r) ==
  /\ stage[r] = "responding"
  /\ stage' = [stage EXCEPT ![r] = "done"]
  /\ cause' = [cause EXCEPT ![r] = "complete"]
  /\ UNCHANGED <<limiterVars, input, route, port, ready, reused, attempts, truncated, status>>

\* The client's side of the connection fails, or what it sends is malformed.
ClientFails(r) ==
  /\ stage[r] \in {"sent", "responding"}
  /\ \E type \in DeadConnection \cup {"InvalidHTTPHeader"} :
       FailToProxy(r, Err(type, "Downstream", 0),
                   IF type \in DeadConnection THEN "client_gone" ELSE "bad_request")
  /\ UNCHANGED limiterVars

InternalFails(r) ==
  /\ stage[r] \in {"filtered", "sent", "responding"}
  /\ \E source \in {"Internal", "Unset"} : FailToProxy(r, Err("InternalError", source, 0), "internal")
  /\ UNCHANGED limiterVars

\* A health check changes a flag.
Flip(b) ==
  /\ ready' = [ready EXCEPT ![b] = ~@]
  /\ UNCHANGED <<limiterVars, input, stage, route, port, reused, attempts, truncated, status, cause>>

Tick == Limiter!Tick /\ UNCHANGED ctxVars

Next ==
  \/ \E r \in Requests :
       \/ SkipLimiter(r) \/ AskLimiter(r) \/ LimiterPanics(r) \/ Admit(r)
       \/ TooManyRequests(r) \/ TooManyRequestsUnsent(r)
       \/ RefusalSent(r) \/ RefusalCut(r)
       \/ NotFound(r) \/ BadGateway(r) \/ Connected(r) \/ ConnectFails(r)
       \/ BodyTruncated(r) \/ Retry(r) \/ UpstreamFails(r) \/ ResponseHeader(r) \/ ResponseEnd(r)
       \/ ClientFails(r) \/ InternalFails(r)
  \/ \E b \in Backends : Flip(b)
  \/ Tick

Spec == Init /\ [][Next]_vars

-----------------------------------------------------------------------------
(* Properties                                                              *)

Stages == {"new", "limiter", "refused", "filtered", "sent", "responding", "done"}
Causes == {"none", "panic", "limited", "refusal_failed", "no_route", "no_backend", "connect_failed",
           "upstream_failed", "complete", "client_gone", "bad_request", "internal"}

Attempt == [backend : Backends, reused : BOOLEAN, whole : BOOLEAN,
            error : {"none", "refused", "broken"}]

TypeOK ==
  /\ Limiter!TypeOK
  /\ input \in [Requests -> Inputs]
  /\ stage \in [Requests -> Stages]
  /\ route \in [Requests -> ServerNames \cup {NoRoute}]
  /\ port \in [Requests -> U16]
  /\ ready \in [Backends -> BOOLEAN]
  /\ reused \in [Requests -> BOOLEAN]
  /\ attempts \in [Requests -> Seq(Attempt)]
  /\ truncated \in [Requests -> BOOLEAN]
  /\ status \in [Requests -> {0, 200, 400, 404, 429, 500, 502}]
  /\ cause \in [Requests -> Causes]

\* Only a request the limiter admitted, or one it does not apply to, ever
\* reaches a backend, on the first attempt or a later one; and one it refused
\* or panicked on reaches none.
ForwardedWasAdmitted ==
  \A r \in Requests : attempts[r] # <<>> =>
    pc[r] = "allowed" \/ ~LimiterOn \/ (input[r].path = "/health" /\ pc[r] = "idle")

HealthOpen(r) ==
  input[r].path = "/health" =>
    pc[r] = "idle" /\ status[r] # 429 /\ cause[r] # "panic" /\ \A k \in Clients : r \notin log[k]

\* The health path stays open: it takes none of the client's allowance and is
\* answered whatever the other requests of the client were.
HealthNeverLimited == \A r \in Requests : HealthOpen(r)

\* Attempt i of the request may be followed by another, sent as that one was.
Excused(r, i) ==
  LET one == attempts[r][i]
      next == attempts[r][i + 1]
  IN  one.error = "refused" \/ (one.error = "broken" /\ one.reused /\ next.whole)

SentSafely(r) ==
  /\ \A i \in 1 .. Len(attempts[r]) - 1 : Excused(r, i)
  /\ Len(attempts[r]) <= MaxRetries + 1

\* No request is sent again blindly: between two attempts the first backend has
\* refused the request, or the connection that broke was a reused one, which
\* the backend may have closed before the request came, and then the second
\* backend gets the body from its beginning.
NoBlindRetry == \A r \in Requests : SentSafely(r)

\* The host that a request names, wherever it names it: in its Host header,
\* without what follows, else in the authority of its URI.
Named(r) ==
  LET h == input[r].header
  IN  CASE h.kind \in {"name", "literal"} -> h.host
        [] h.kind = "absent" -> input[r].uri.host
        [] h.kind = "opaque" -> ""

\* The host is that of a server, and one that the proxy can read: an IPv6
\* literal in a Host header is not.
Known(r) == Named(r) \in ServerNames /\ input[r].header.kind # "literal"

OnRoute(r) ==
  \A i \in 1 .. Len(attempts[r]) :
    Known(r) /\ attempts[r][i].backend \in BackendsOf[Named(r)]

\* Whatever the attempts, and however its host is written, a request only ever
\* goes to backends of the server that it names.
StaysOnRoute == \A r \in Requests : OnRoute(r)

\* The client gets one status: an error that comes later does not change it.
OneStatus == [][\A r \in Requests : status[r] # 0 => status'[r] = status[r]]_vars

AsDocumented(r) ==
  stage[r] = "done" =>
    LET begun == status[r] = 200
    IN  CASE cause[r] = "no_route"        -> status[r] \in {0, 404} /\ ~Known(r)
          [] cause[r] = "no_backend"      -> status[r] \in {0, 502} /\ Known(r)
          [] cause[r] = "connect_failed"  -> status[r] \in {0, 502} /\ Known(r)
          [] cause[r] = "upstream_failed" -> (begun \/ status[r] \in {0, 502}) /\ attempts[r] # <<>>
          [] cause[r] = "client_gone"     -> begun \/ status[r] = 0
          [] cause[r] = "internal"        -> begun \/ status[r] \in {0, 500}
          [] cause[r] = "bad_request"     -> begun \/ status[r] \in {0, 400}
          [] cause[r] = "limited"         -> status[r] = 429 /\ attempts[r] = <<>>
          [] cause[r] = "refusal_failed"  -> status[r] \in {0, 429, 500} /\ attempts[r] = <<>>
          [] cause[r] = "panic"           -> status[r] = 0 /\ attempts[r] = <<>>
          [] cause[r] = "complete"        -> begun

\* The rows of the table "Error handling" (docs/proxy-design.md:106-112), in the
\* first six cases, and how far the request had come: a host that is not in
\* the route table is a 404, and no host that is; a server without a healthy
\* backend or connection is a 502; a client that is gone gets nothing; an
\* internal error is a 500; and nothing is said that cannot be.  The table
\* leaves out a malformed request and the limiter, which are as fail_to_proxy
\* and request_filter have them.
DocumentedStatus == \A r \in Requests : AsDocumented(r)

\* "Maximum number of requests allowed per window per client IP"
\* (src/src/conf/raw.rs) of the requests that come from one IP.  Refuted: the
\* key is the address with the port, so a second connection of a client has
\* an allowance of its own.
LimitPerClientIP ==
  \A ip \in {IpOf[k] : k \in Clients} :
    Cardinality({r \in Requests : /\ pc[r] = "allowed"
                                  /\ IpOf[ClientOf[r]] = ip
                                  /\ decided[r] > clock - (Window - MaxDelay)}) <= MaxRequests

-----------------------------------------------------------------------------
(* The promise                                                             *)

\* What a request asks for, by what its head says.
Asked ==
  [r \in Requests |-> [limited |-> ~Exempt(r), server |-> IF Known(r) THEN Named(r) ELSE NoRoute]]

Promise == INSTANCE Exchange WITH
  verdict <- Limiter!Verdict, Slack <- MaxDelay,
  asked <- Asked, over <- [r \in Requests |-> stage[r] = "done"]

\* Whatever the hooks do in between, a client and a backend see no more of a
\* request than Exchange allows.
ImplementsExchange == Promise!Spec

-----------------------------------------------------------------------------
(* The inductive invariant                                                 *)

\* The limiter let the request pass, or was never asked.
Passed(r) == pc[r] = "allowed" \/ (pc[r] = "idle" /\ Exempt(r))

\* Where a request is tells what the limiter said, whether it was sent, and
\* what the client has got.
StageFits(r) ==
  /\ stage[r] = "new" => pc[r] = "idle"
  /\ stage[r] = "limiter" => pc[r] = "timed" /\ ~Exempt(r)
  /\ stage[r] = "refused" => pc[r] = "denied"
  /\ stage[r] \in {"new", "limiter", "refused"} => attempts[r] = <<>>
  /\ stage[r] \in {"filtered", "sent", "responding"} \/ attempts[r] # <<>> => Passed(r)
  /\ stage[r] \in {"sent", "responding"} => attempts[r] # <<>>
  /\ stage[r] # "done" => cause[r] = "none"
  /\ stage[r] = "refused" => status[r] = 429
  /\ stage[r] = "responding" => status[r] = 200
  /\ stage[r] \notin {"refused", "responding", "done"} => status[r] = 0
  /\ stage[r] = "done" => cause[r] # "none"

\* A request that was let pass has the route of the server it names.
RouteFits(r) ==
  stage[r] \in {"filtered", "sent", "responding"} =>
    route[r] = IF Known(r) THEN Named(r) ELSE NoRoute

\* The last attempt of a request that is out is open; one that has turned back
\* was refused, or broke on a reused connection with its body at hand.
AttemptsFit(r) ==
  LET last == attempts[r][Len(attempts[r])]
  IN  /\ stage[r] = "filtered" /\ attempts[r] # <<>> =>
           \/ last.error = "refused"
           \/ last.error = "broken" /\ last.reused /\ ~truncated[r]
      /\ stage[r] = "filtered" => Len(attempts[r]) <= MaxRetries
      /\ truncated[r] => attempts[r] # <<>>
      /\ stage[r] = "sent" => last.error = "none" /\ last.reused = reused[r]

\* The inductive invariant behind the properties of a request's way: the
\* limiter is asked once, before anything else, and a request only turns back
\* from where it was sent.
IInv ==
  /\ TypeOK
  /\ \A r \in Requests : StageFits(r) /\ RouteFits(r) /\ AttemptsFit(r)
  /\ HealthNeverLimited
  /\ NoBlindRetry
  /\ StaysOnRoute
  /\ DocumentedStatus

=============================================================================
