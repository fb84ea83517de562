-------------------------- MODULE SimpleProxyProofs --------------------------
(***************************************************************************)
(* The way of a request through the proxy, for any number of requests,     *)
(* connections, servers and retries.                                       *)
(*                                                                         *)
(* An action moves one request and leaves the others where they are, so    *)
(* the invariant is proved in two parts: what is true of a request stays   *)
(* true while others move (FitsKept), and is true again after each move of *)
(* its own.                                                                *)
(***************************************************************************)
EXTENDS SimpleProxy, FiniteSetTheorems, TLAPS

\* What the invariant says of one request.
Fits(r) ==
  /\ StageFits(r) /\ RouteFits(r) /\ AttemptsFit(r) /\ HealthOpen(r)
  /\ SentSafely(r) /\ OnRoute(r) /\ AsDocumented(r)

LEMMA IInvIsFits == IInv <=> TypeOK /\ \A r \in Requests : Fits(r)
  BY DEF IInv, Fits, HealthNeverLimited, NoBlindRetry, StaysOnRoute, DocumentedStatus

LEMMA IInvIsFitsNext == IInv' <=> TypeOK' /\ \A r \in Requests : Fits(r)'
  BY DEF IInv, Fits, HealthNeverLimited, NoBlindRetry, StaysOnRoute, DocumentedStatus

\* All that moves a request.
Step(r) ==
  \/ SkipLimiter(r) \/ AskLimiter(r) \/ LimiterPanics(r) \/ Admit(r)
  \/ TooManyRequests(r) \/ TooManyRequestsUnsent(r) \/ RefusalSent(r) \/ RefusalCut(r)
  \/ NotFound(r) \/ BadGateway(r) \/ Connected(r) \/ ConnectFails(r)
  \/ BodyTruncated(r) \/ Retry(r) \/ UpstreamFails(r) \/ ResponseHeader(r) \/ ResponseEnd(r)
  \/ ClientFails(r) \/ InternalFails(r)

\* Nothing happens to request r.
Same(r) ==
  /\ pc'[r] = pc[r] /\ stage'[r] = stage[r] /\ route'[r] = route[r]
  /\ reused'[r] = reused[r] /\ attempts'[r] = attempts[r] /\ truncated'[r] = truncated[r]
  /\ status'[r] = status[r] /\ cause'[r] = cause[r]
  /\ \A k \in Clients : r \in log'[k] <=> r \in log[k]

LEMMA KnownStays == ASSUME input' = input, NEW r PROVE Known(r)' = Known(r) /\ Named(r)' = Named(r)
  BY DEF Known, Named

LEMMA FitsKept ==
  ASSUME NEW r \in Requests, Fits(r), Same(r), input' = input
  PROVE  Fits(r)'
<1>1. Known(r)' = Known(r) /\ Named(r)' = Named(r) /\ Exempt(r)' = Exempt(r)
  BY KnownStays DEF Exempt
<1>2. StageFits(r)' /\ RouteFits(r)'
  BY <1>1 DEF Fits, Same, StageFits, RouteFits, Passed
<1>3. AttemptsFit(r)'
  BY DEF Fits, Same, AttemptsFit
<1>4. HealthOpen(r)' /\ OnRoute(r)'
  BY <1>1 DEF Fits, Same, HealthOpen, OnRoute
<1>5. SentSafely(r)'
  BY DEF Fits, Same, SentSafely, Excused
<1>6. AsDocumented(r)'
  <2>1. AsDocumented(r) /\ stage'[r] = stage[r] /\ attempts'[r] = attempts[r]
        /\ status'[r] = status[r] /\ cause'[r] = cause[r]
    BY DEF Fits, Same
  <2>2. AsDocumented(r)' = AsDocumented(r)
    BY <1>1, <2>1 DEF AsDocumented
  <2>3. QED
    BY <2>1, <2>2
<1>7. QED
  BY <1>2, <1>3, <1>4, <1>5, <1>6 DEF Fits

-----------------------------------------------------------------------------
(* Types                                                                   *)

\* A port is a port whatever the header and the URI say.
LEMMA PortType == \A header, uri : GetHostPort(header, uri).port \in U16
<1>1. TAKE header, uri
<1>2. DefaultPort(uri) \in U16
  <2>1. MaxU16 = 65535
    BY DEF MaxU16
  <2>2. 80 \in U16 /\ 433 \in U16
    BY <2>1 DEF U16
  <2>3. QED
    BY <2>2 DEF DefaultPort
<1>3. ASSUME NEW parts PROVE SplitHostPort(parts, DefaultPort(uri)).port \in U16
  BY <1>2 DEF SplitHostPort, IsU16
<1>4. CASE header.kind = "absent"
  BY <1>2, <1>4 DEF GetHostPort, IsU16
<1>5. CASE header.kind # "absent"
  BY <1>3, <1>5 DEF GetHostPort
<1>6. QED
  BY <1>4, <1>5

\* The statuses of fail_to_proxy, 0 for none.
Failures == {0, 400, 404, 500, 502}

\* The errors the proxy and pingora raise.
Errors ==
  {HttpStatus(404), HttpStatus(502)} \cup
  {Err(type, "Upstream", 0) : type \in {"ConnectError", "ReadError"}} \cup
  {Err(type, "Downstream", 0) : type \in DeadConnection \cup {"InvalidHTTPHeader"}} \cup
  {Err("WriteError", source, 0) : source \in {"Downstream", "Unset"}} \cup
  {Err("InternalError", source, 0) : source \in {"Internal", "Unset"}}

LEMMA CodeType == \A e \in Errors : Code(e) \in Failures
  BY DEF Errors, Failures, Code, Err, HttpStatus, DeadConnection

\* The limiter's own variables keep their types under the calls the proxy
\* makes of it.
LEMMA LimiterTypeNext ==
  ASSUME Limiter!TypeOK, NEW r \in Requests,
         Limiter!Now(r) \/ Limiter!Panic(r) \/ Limiter!Allow(r) \/ Limiter!Deny(r) \/ Limiter!Tick
         \/ UNCHANGED limiterVars
  PROVE  Limiter!TypeOK'
<1> USE ProxyAssumption DEF Limiter!TypeOK
<1>1. CASE Limiter!Now(r)
  BY <1>1 DEF Limiter!Now
<1>2. CASE Limiter!Panic(r)
  BY <1>2 DEF Limiter!Panic
<1>3. CASE Limiter!Allow(r)
  <2>1. Limiter!Drained(r) \subseteq Requests
    BY DEF Limiter!Drained, Limiter!Live
  <2>2. QED
    BY <1>3, <2>1 DEF Limiter!Allow
<1>4. CASE Limiter!Deny(r)
  <2>1. Limiter!Drained(r) \subseteq Requests
    BY DEF Limiter!Drained, Limiter!Live
  <2>2. QED
    BY <1>4, <2>1 DEF Limiter!Deny
<1>5. CASE Limiter!Tick
  BY <1>5 DEF Limiter!Tick
<1>6. CASE UNCHANGED limiterVars
  BY <1>6 DEF limiterVars
<1>7. QED
  BY <1>1, <1>2, <1>3, <1>4, <1>5, <1>6

LEMMA TypeParts ==
  ASSUME Limiter!TypeOK', input' \in [Requests -> Inputs], truncated' \in [Requests -> BOOLEAN],
         stage' \in [Requests -> Stages], cause' \in [Requests -> Causes],
         status' \in [Requests -> {0, 200, 400, 404, 429, 500, 502}],
         route' \in [Requests -> ServerNames \cup {NoRoute}], port' \in [Requests -> U16],
         ready' \in [Backends -> BOOLEAN], reused' \in [Requests -> BOOLEAN],
         attempts' \in [Requests -> Seq(Attempt)]
  PROVE  TypeOK'
  BY DEF TypeOK

LEMMA TypeIs ==
  ASSUME TypeOK, Limiter!TypeOK', input' = input, truncated' \in [Requests -> BOOLEAN],
         stage' \in [Requests -> Stages], cause' \in [Requests -> Causes],
         status' \in [Requests -> {0, 200, 400, 404, 429, 500, 502}],
         route' \in [Requests -> ServerNames \cup {NoRoute}], port' \in [Requests -> U16],
         ready' \in [Backends -> BOOLEAN], reused' \in [Requests -> BOOLEAN],
         attempts' \in [Requests -> Seq(Attempt)]
  PROVE  TypeOK'
<1>1. input' \in [Requests -> Inputs]
  BY DEF TypeOK
<1>2. QED
  BY <1>1, TypeParts

-----------------------------------------------------------------------------
(* The end of a request by fail_to_proxy                                   *)

\* Only request r moves.
Others(r) == \A q \in Requests \ {r} : Same(q)

LEMMA FailToProxyMoves ==
  ASSUME IInv, NEW r \in Requests, NEW e \in Errors, NEW why \in Causes \ {"none"},
         FailToProxy(r, e, why)
  PROVE  /\ stage' = [stage EXCEPT ![r] = "done"]
         /\ cause' = [cause EXCEPT ![r] = why]
         /\ status' \in [Requests -> {0, 200, 400, 404, 429, 500, 502}]
         /\ status'[r] \in Answered(r, e)
         /\ \A q \in Requests \ {r} : status'[q] = status[q]
         /\ UNCHANGED <<input, route, port, ready, reused, attempts, truncated>>
<1>1. PICK s \in Answered(r, e) : status' = [status EXCEPT ![r] = s]
  BY DEF FailToProxy
<1>2. s \in {0, 200, 400, 404, 429, 500, 502}
  <2>1. Code(e) \in {0, 400, 404, 500, 502}
    BY CodeType DEF Failures
  <2>2. status[r] \in {0, 200, 400, 404, 429, 500, 502}
    BY DEF IInv, TypeOK
  <2>3. QED
    BY <1>1, <2>1, <2>2 DEF Answered
<1>3. status' \in [Requests -> {0, 200, 400, 404, 429, 500, 502}]
      /\ status'[r] = s
      /\ \A q \in Requests \ {r} : status'[q] = status[q]
  BY <1>1, <1>2 DEF IInv, TypeOK
<1>4. QED
  BY <1>1, <1>3 DEF FailToProxy

\* A request that was let in and fails keeps what is true of it, provided that
\* its status is the documented one.
LEMMA Failed ==
  ASSUME IInv, NEW r \in Requests, NEW e \in Errors,
         NEW why \in Causes \ {"none", "panic"},
         FailToProxy(r, e, why), UNCHANGED limiterVars,
         stage[r] \in {"refused", "filtered", "sent", "responding"}, AsDocumented(r)'
  PROVE  TypeOK' /\ Fits(r)' /\ Others(r) /\ input' = input
<1>1. /\ stage' = [stage EXCEPT ![r] = "done"]
      /\ cause' = [cause EXCEPT ![r] = why]
      /\ status' \in [Requests -> {0, 200, 400, 404, 429, 500, 502}]
      /\ status'[r] \in Answered(r, e)
      /\ \A q \in Requests \ {r} : status'[q] = status[q]
      /\ UNCHANGED <<input, route, port, ready, reused, attempts, truncated>>
  BY FailToProxyMoves
<1>2. pc' = pc /\ log' = log
  BY DEF limiterVars
<1>3. TypeOK'
  <2>1. Limiter!TypeOK'
    BY LimiterTypeNext DEF IInv, TypeOK
  <2>2. TypeOK
    BY DEF IInv
  <2>3. "done" \in Stages /\ why \in Causes
    BY DEF Stages
  <2>4. stage' \in [Requests -> Stages] /\ cause' \in [Requests -> Causes]
    BY <1>1, <2>2, <2>3 DEF TypeOK
  <2>5. /\ route' \in [Requests -> ServerNames \cup {NoRoute}]
        /\ port' \in [Requests -> U16]
        /\ ready' \in [Backends -> BOOLEAN]
        /\ reused' \in [Requests -> BOOLEAN]
        /\ truncated' \in [Requests -> BOOLEAN]
    BY <1>1, <2>2 DEF TypeOK
  <2>6. attempts' \in [Requests -> Seq(Attempt)]
    BY <1>1, <2>2 DEF TypeOK
  <2>7. QED
    BY <1>1, <2>1, <2>2, <2>4, <2>5, <2>6, TypeIs
<1>4. Others(r)
  BY <1>1, <1>2 DEF Others, Same, IInv, TypeOK
<1>5. stage'[r] = "done" /\ cause'[r] = why /\ stage[r] # "done"
  BY <1>1 DEF IInv, TypeOK
<1>6. Fits(r) /\ Known(r)' = Known(r) /\ Named(r)' = Named(r) /\ Exempt(r)' = Exempt(r)
  BY <1>1, IInvIsFits, KnownStays DEF Exempt
<1>7. HealthOpen(r)'
  <2>1. CASE stage[r] = "refused"
    BY <1>1, <1>6, <2>1 DEF Fits, StageFits, HealthOpen
  <2>2. CASE stage[r] # "refused"
    <3>1. status'[r] # 429
      BY <1>1, <1>5, <1>6, <2>2, CodeType DEF Answered, Failures, Fits, StageFits
    <3>2. QED
      BY <1>1, <1>2, <1>5, <1>6, <3>1 DEF Fits, HealthOpen
  <2>3. QED
    BY <2>1, <2>2
<1>8. StageFits(r)' /\ RouteFits(r)' /\ AttemptsFit(r)'
  BY <1>1, <1>2, <1>5, <1>6 DEF Fits, StageFits, RouteFits, AttemptsFit, Passed
<1>9. SentSafely(r)' /\ OnRoute(r)'
  BY <1>1, <1>6 DEF Fits, SentSafely, Excused, OnRoute
<1>10. QED
  BY <1>1, <1>3, <1>4, <1>7, <1>8, <1>9 DEF Fits

-----------------------------------------------------------------------------
(* request_filter                                                          *)

LEMMA ConcatFirst ==
  ASSUME NEW S, NEW a \in Seq(S), NEW b \in Seq(S), a # <<>>
  PROVE  (a \o b)[1] = a[1]
  OBVIOUS

\* The name that get_host_port finds is that of the server the request names,
\* or that of none.
LEMMA TargetIsNamed ==
  ASSUME TypeOK, NEW r \in Requests
  PROVE  (IF Target(r).host \in ServerNames THEN Target(r).host ELSE NoRoute)
           = (IF Known(r) THEN Named(r) ELSE NoRoute)
<1> DEFINE h == input[r].header
<1>1. HeaderFits(h)
  BY ProxyAssumption DEF TypeOK
<1>2. CASE h.kind = "absent"
  BY <1>2 DEF Target, GetHostPort, Named, Known
<1>3. CASE h.kind = "opaque"
  BY <1>3 DEF Target, GetHostPort, Named, Known, SplitHostPort, HostPart, Parts, EmptyPart, Word, Part
<1>4. CASE h.kind = "name" /\ h.rest \in Seq(AnyPart)
  <2>1. (<<Word(h.host)>> \o h.rest)[1] = Word(h.host)
    BY <1>4
  <2>2. Target(r).host = h.host
    BY <1>4, <2>1 DEF Target, GetHostPort, SplitHostPort, HostPart, Parts, Word, Part
  <2>3. Named(r) = h.host /\ (Known(r) <=> h.host \in ServerNames)
    BY <1>4 DEF Named, Known
  <2>4. QED
    BY <2>2, <2>3
<1>5. CASE /\ h.kind = "literal"
           /\ h.groups \in Seq(AnyPart) /\ h.rest \in Seq(AnyPart)
           /\ h.groups # <<>>
           /\ h.groups[1].text \notin ServerNames
  <2>1. (h.groups \o h.rest)[1] = h.groups[1]
    BY <1>5, ConcatFirst
  <2>2. Target(r).host = h.groups[1].text
    BY <1>5, <2>1 DEF Target, GetHostPort, SplitHostPort, HostPart, Parts
  <2>3. ~Known(r)
    BY <1>5 DEF Known
  <2>4. QED
    BY <1>5, <2>2, <2>3
<1>6. QED
  BY <1>1, <1>2, <1>3, <1>4, <1>5 DEF HeaderFits

LEMMA RoutedMoves ==
  ASSUME IInv, NEW r \in Requests, Routed(r), Limiter!TypeOK',
         stage[r] \in {"new", "limiter"}, Passed(r)', HealthOpen(r)',
         \A q \in Requests \ {r} : pc'[q] = pc[q] /\ \A k \in Clients : q \in log'[k] <=> q \in log[k]
  PROVE  TypeOK' /\ Fits(r)' /\ Others(r) /\ input' = input
<1>1. TypeOK /\ Fits(r)
  BY IInvIsFits
<1>2. /\ stage' = [stage EXCEPT ![r] = "filtered"]
      /\ route' = [route EXCEPT ![r] = IF Known(r) THEN Named(r) ELSE NoRoute]
      /\ port' = [port EXCEPT ![r] = Target(r).port]
      /\ UNCHANGED <<input, ready, reused, attempts, truncated, status, cause>>
  BY <1>1, TargetIsNamed DEF Routed
<1>3. TypeOK'
  <2>1. "filtered" \in Stages
    BY DEF Stages
  <2>2. Target(r).port \in U16
    BY PortType DEF Target
  <2>3. stage' \in [Requests -> Stages] /\ cause' \in [Requests -> Causes]
        /\ status' \in [Requests -> {0, 200, 400, 404, 429, 500, 502}]
    BY <1>1, <1>2, <2>1 DEF TypeOK
  <2>4. route' \in [Requests -> ServerNames \cup {NoRoute}]
        /\ port' \in [Requests -> U16]
    <3>1. (IF Known(r) THEN Named(r) ELSE NoRoute) \in ServerNames \cup {NoRoute}
      BY DEF Known
    <3>2. QED
      BY <1>1, <1>2, <2>2, <3>1 DEF TypeOK
  <2>5. ready' \in [Backends -> BOOLEAN] /\ reused' \in [Requests -> BOOLEAN]
       /\ truncated' \in [Requests -> BOOLEAN]
    BY <1>1, <1>2 DEF TypeOK
  <2>6. attempts' \in [Requests -> Seq(Attempt)]
    BY <1>1, <1>2 DEF TypeOK
  <2>7. QED
    BY <1>1, <1>2, <2>3, <2>4, <2>5, <2>6, TypeIs
<1>4. Others(r)
  BY <1>1, <1>2 DEF Others, Same, TypeOK
<1>5. /\ stage'[r] = "filtered" /\ attempts'[r] = <<>> /\ status'[r] = 0 /\ cause'[r] = "none"
      /\ ~truncated'[r]
  BY <1>1, <1>2 DEF TypeOK, Fits, StageFits, AttemptsFit
<1>6. RouteFits(r)'
  <2>1. route'[r] = IF Known(r) THEN Named(r) ELSE NoRoute
    BY <1>1, <1>2 DEF TypeOK
  <2>2. QED
    BY <1>2, <2>1, KnownStays DEF RouteFits
<1>7. StageFits(r)' /\ AttemptsFit(r)'
  BY <1>5, ProxyAssumption DEF StageFits, AttemptsFit
<1>8. SentSafely(r)' /\ OnRoute(r)'
  BY <1>5, ProxyAssumption DEF SentSafely, OnRoute
<1>9. AsDocumented(r)'
  BY <1>5 DEF AsDocumented
<1>10. QED
  BY <1>2, <1>3, <1>4, <1>6, <1>7, <1>8, <1>9 DEF Fits

LEMMA SkipLimiterMoves ==
  ASSUME IInv, NEW r \in Requests, SkipLimiter(r)
  PROVE  TypeOK' /\ Fits(r)' /\ Others(r) /\ input' = input
<1>1. TypeOK /\ Fits(r) /\ stage[r] = "new" /\ Exempt(r) /\ Routed(r) /\ UNCHANGED limiterVars
  BY IInvIsFits DEF SkipLimiter
<1>2. pc' = pc /\ log' = log
  BY <1>1 DEF limiterVars
<1>3. input' = input /\ status' = status /\ cause' = cause
  BY <1>1 DEF Routed
<1>4. Limiter!TypeOK'
  BY <1>1, LimiterTypeNext DEF TypeOK
<1>5. Passed(r)' /\ HealthOpen(r)'
  BY <1>1, <1>2, <1>3 DEF Fits, StageFits, Passed, Exempt, HealthOpen
<1>6. QED
  BY <1>1, <1>2, <1>4, <1>5, RoutedMoves

LEMMA AdmitMoves ==
  ASSUME IInv, NEW r \in Requests, Admit(r)
  PROVE  TypeOK' /\ Fits(r)' /\ Others(r) /\ input' = input
<1>1. TypeOK /\ Fits(r) /\ stage[r] = "limiter" /\ Limiter!Allow(r) /\ Routed(r)
  BY IInvIsFits DEF Admit
<1>2. /\ pc' = [pc EXCEPT ![r] = "allowed"]
      /\ log' = [log EXCEPT ![ClientOf[r]] = @ \cup {r}]
  BY <1>1 DEF Limiter!Allow
<1>3. pc \in [Requests -> {"idle", "timed", "allowed", "denied", "panicked"}]
      /\ log \in [Clients -> SUBSET Requests]
  BY <1>1 DEF TypeOK, Limiter!TypeOK
<1>4. /\ pc'[r] = "allowed"
      /\ \A q \in Requests \ {r} : pc'[q] = pc[q] /\ \A k \in Clients : q \in log'[k] <=> q \in log[k]
  BY <1>2, <1>3
<1>5. input[r].path # "/health" /\ input' = input
  BY <1>1 DEF Fits, StageFits, Exempt, Routed
<1>6. Limiter!TypeOK'
  BY <1>1, LimiterTypeNext DEF TypeOK
<1>7. Passed(r)' /\ HealthOpen(r)'
  BY <1>4, <1>5 DEF Passed, HealthOpen
<1>8. QED
  BY <1>1, <1>4, <1>6, <1>7, RoutedMoves

\* A request moves to a stage, with a cause, and to some status.
MovedTo(r, here, why) ==
  /\ stage' = [stage EXCEPT ![r] = here]
  /\ cause' = [cause EXCEPT ![r] = why]
  /\ status' \in [Requests -> {0, 200, 400, 404, 429, 500, 502}]
  /\ \A q \in Requests \ {r} : status'[q] = status[q]
  /\ UNCHANGED <<input, route, port, ready, reused, attempts, truncated>>

\* What becomes of a request that the limiter is asked about and does not admit.
Stopped(r, here, why) ==
  \/ here = "limiter" /\ why = "none" /\ status'[r] = 0 /\ pc'[r] = "timed"
  \/ here = "refused" /\ why = "none" /\ status'[r] = 429 /\ pc'[r] = "denied"
  \/ here = "done" /\ why = "refusal_failed" /\ status'[r] \in {0, 500}
  \/ here = "done" /\ why = "panic" /\ status'[r] = 0

LEMMA LimitedMoves ==
  ASSUME IInv, NEW r \in Requests, stage[r] \in {"new", "limiter"}, ~Exempt(r),
         Limiter!Now(r) \/ Limiter!Panic(r) \/ Limiter!Deny(r),
         NEW here, NEW why, MovedTo(r, here, why), Stopped(r, here, why)
  PROVE  TypeOK' /\ Fits(r)' /\ Others(r) /\ input' = input
<1>1. TypeOK /\ Fits(r) /\ attempts[r] = <<>>
  BY IInvIsFits DEF Fits, StageFits
<1>2. TypeOK'
  <2>1. Limiter!TypeOK'
    <3>1. Limiter!TypeOK
      BY <1>1 DEF TypeOK
    <3>2. QED
      BY <3>1, LimiterTypeNext
  <2>2. stage' \in [Requests -> Stages] /\ cause' \in [Requests -> Causes]
    <3>1. here \in Stages /\ why \in Causes
      BY DEF Stopped, Stages, Causes
    <3>2. QED
      BY <1>1, <3>1 DEF MovedTo, TypeOK
  <2>3. route' \in [Requests -> ServerNames \cup {NoRoute}]
        /\ port' \in [Requests -> U16]
        /\ ready' \in [Backends -> BOOLEAN] /\ reused' \in [Requests -> BOOLEAN]
        /\ truncated' \in [Requests -> BOOLEAN]
    BY <1>1 DEF MovedTo, TypeOK
  <2>4. attempts' \in [Requests -> Seq(Attempt)]
    <3>1. attempts' = attempts
      BY DEF MovedTo
    <3>2. QED
      BY <1>1, <3>1 DEF TypeOK
  <2>5. /\ status' \in [Requests -> {0, 200, 400, 404, 429, 500, 502}]
        /\ input' = input
    BY DEF MovedTo
  <2>6. QED
    BY <1>1, <2>5, <2>1, <2>2, <2>3, <2>4, TypeIs
<1>3. \A q \in Requests \ {r} : pc'[q] = pc[q]
  <2>1. pc \in [Requests -> {"idle", "timed", "allowed", "denied", "panicked"}]
    BY <1>1 DEF TypeOK, Limiter!TypeOK
  <2>2. QED
    BY <2>1 DEF Limiter!Now, Limiter!Panic, Limiter!Deny
<1>4. log' = log
  BY DEF Limiter!Now, Limiter!Panic, Limiter!Deny
<1>5. Others(r)
  BY <1>1, <1>3, <1>4 DEF MovedTo, Others, Same, TypeOK
<1>6. stage'[r] = here /\ cause'[r] = why /\ attempts'[r] = <<>> /\ input[r].path # "/health"
  BY <1>1 DEF MovedTo, TypeOK, Exempt
<1>7. Exempt(r)' = Exempt(r) /\ input' = input /\ ~truncated'[r]
  BY <1>1 DEF MovedTo, Exempt, Fits, AttemptsFit
<1>8. StageFits(r)' /\ RouteFits(r)' /\ AttemptsFit(r)'
  BY <1>6, <1>7 DEF Stopped, StageFits, RouteFits, AttemptsFit
<1>9. HealthOpen(r)' /\ SentSafely(r)' /\ OnRoute(r)'
  BY <1>6, <1>7, ProxyAssumption DEF HealthOpen, SentSafely, OnRoute
<1>10. AsDocumented(r)'
  <2>1. CASE here # "done"
    BY <1>6, <2>1 DEF AsDocumented
  <2>2. CASE why = "refusal_failed" /\ status'[r] \in {0, 500}
    BY <1>6, <2>2 DEF AsDocumented
  <2>3. CASE why = "panic" /\ status'[r] = 0
    BY <1>6, <2>3 DEF AsDocumented
  <2>4. QED
    BY <2>1, <2>2, <2>3 DEF Stopped
<1>11. QED
  BY <1>2, <1>5, <1>7, <1>8, <1>9, <1>10 DEF Fits

LEMMA AskLimiterMoves ==
  ASSUME IInv, NEW r \in Requests, AskLimiter(r)
  PROVE  TypeOK' /\ Fits(r)' /\ Others(r) /\ input' = input
<1>1. TypeOK /\ Fits(r) /\ stage[r] = "new" /\ ~Exempt(r) /\ Limiter!Now(r)
  BY IInvIsFits DEF AskLimiter
<1>2. status[r] = 0 /\ cause[r] = "none"
  BY <1>1 DEF Fits, StageFits
<1>3. MovedTo(r, "limiter", "none")
  <2>1. cause' = [cause EXCEPT ![r] = "none"]
    BY <1>1, <1>2 DEF AskLimiter, TypeOK
  <2>2. status' \in [Requests -> {0, 200, 400, 404, 429, 500, 502}]
    BY <1>1 DEF AskLimiter, TypeOK
  <2>3. QED
    BY <2>1, <2>2 DEF AskLimiter, MovedTo
<1>4. Stopped(r, "limiter", "none")
  <2>1. pc'[r] = "timed"
    BY <1>1 DEF Limiter!Now, TypeOK, Limiter!TypeOK
  <2>2. QED
    BY <1>2, <2>1 DEF AskLimiter, Stopped
<1>5. QED
  BY <1>1, <1>3, <1>4, LimitedMoves

LEMMA LimiterPanicsMoves ==
  ASSUME IInv, NEW r \in Requests, LimiterPanics(r)
  PROVE  TypeOK' /\ Fits(r)' /\ Others(r) /\ input' = input
<1>1. TypeOK /\ Fits(r) /\ stage[r] = "new" /\ ~Exempt(r) /\ Limiter!Panic(r)
  BY IInvIsFits DEF LimiterPanics
<1>2. MovedTo(r, "done", "panic")
  BY <1>1 DEF LimiterPanics, MovedTo, TypeOK
<1>3. Stopped(r, "done", "panic")
  BY <1>1 DEF LimiterPanics, Stopped, Fits, StageFits
<1>4. QED
  BY <1>1, <1>2, <1>3, LimitedMoves

\* The limiter marks the request it refuses.
LEMMA DenyMarks ==
  ASSUME TypeOK, NEW r \in Requests, Limiter!Deny(r)
  PROVE  pc'[r] = "denied"
  BY DEF Limiter!Deny, TypeOK, Limiter!TypeOK

LEMMA TooManyRequestsMoves ==
  ASSUME IInv, NEW r \in Requests, TooManyRequests(r)
  PROVE  TypeOK' /\ Fits(r)' /\ Others(r) /\ input' = input
<1>1. TypeOK /\ Fits(r) /\ stage[r] = "limiter" /\ Limiter!Deny(r)
  BY IInvIsFits DEF TooManyRequests
<1>2. status' = [status EXCEPT ![r] = 429] /\ ~Exempt(r) /\ cause[r] = "none"
  BY <1>1 DEF TooManyRequests, Fits, StageFits
<1>3. /\ status' \in [Requests -> {0, 200, 400, 404, 429, 500, 502}]
      /\ status'[r] = 429
      /\ \A q \in Requests \ {r} : status'[q] = status[q]
      /\ cause' = [cause EXCEPT ![r] = "none"]
  BY <1>1, <1>2 DEF TypeOK, TooManyRequests
<1>4. MovedTo(r, "refused", "none")
  BY <1>3 DEF TooManyRequests, MovedTo
<1>5. Stopped(r, "refused", "none")
  BY <1>1, <1>3, DenyMarks DEF Stopped
<1>6. QED
  BY <1>1, <1>2, <1>4, <1>5, LimitedMoves

\* A write of the refusal that fails has an error of the session, answered with
\* nothing or a 500.
LEMMA RefusalFailsWith ==
  ASSUME NEW r \in Requests, RefusalFails(r)
  PROVE  \E e \in Errors : Code(e) \in {0, 500} /\ FailToProxy(r, e, "refusal_failed")
<1>1. PICK source \in {"Downstream", "Unset"} :
        FailToProxy(r, Err("WriteError", source, 0), "refusal_failed")
  BY DEF RefusalFails
<1>2. Err("WriteError", source, 0) \in Errors
  BY DEF Errors
<1>3. Code(Err("WriteError", source, 0)) \in {0, 500}
  BY DEF Code, Err, DeadConnection
<1>4. QED
  BY <1>1, <1>2, <1>3

LEMMA TooManyRequestsUnsentMoves ==
  ASSUME IInv, NEW r \in Requests, TooManyRequestsUnsent(r)
  PROVE  TypeOK' /\ Fits(r)' /\ Others(r) /\ input' = input
<1>1. TypeOK /\ Fits(r) /\ stage[r] = "limiter" /\ Limiter!Deny(r) /\ RefusalFails(r)
  BY IInvIsFits DEF TooManyRequestsUnsent
<1>2. status[r] = 0 /\ ~Exempt(r)
  BY <1>1 DEF Fits, StageFits
<1>3. PICK e \in Errors : Code(e) \in {0, 500} /\ FailToProxy(r, e, "refusal_failed")
  BY <1>1, RefusalFailsWith
<1>4. "refusal_failed" \in Causes \ {"none"}
  BY DEF Causes
<1>5. MovedTo(r, "done", "refusal_failed") /\ status'[r] \in Answered(r, e)
  <2>1. /\ stage' = [stage EXCEPT ![r] = "done"]
        /\ cause' = [cause EXCEPT ![r] = "refusal_failed"]
        /\ status' \in [Requests -> {0, 200, 400, 404, 429, 500, 502}]
        /\ status'[r] \in Answered(r, e)
        /\ \A q \in Requests \ {r} : status'[q] = status[q]
        /\ UNCHANGED <<input, route, port, ready, reused, attempts, truncated>>
    BY <1>3, <1>4, FailToProxyMoves
  <2>2. QED
    BY <2>1 DEF MovedTo
<1>6. status'[r] \in {0, 500}
  BY <1>2, <1>3, <1>5 DEF Answered
<1>7. Stopped(r, "done", "refusal_failed")
  BY <1>6 DEF Stopped
<1>8. QED
  BY <1>1, <1>2, <1>5, <1>7, LimitedMoves

LEMMA RefusalCutMoves ==
  ASSUME IInv, NEW r \in Requests, RefusalCut(r)
  PROVE  TypeOK' /\ Fits(r)' /\ Others(r) /\ input' = input
<1>1. TypeOK /\ Fits(r) /\ stage[r] = "refused" /\ RefusalFails(r) /\ UNCHANGED limiterVars
  BY IInvIsFits DEF RefusalCut
<1>2. status[r] = 429 /\ attempts[r] = <<>>
  BY <1>1 DEF Fits, StageFits
<1>3. PICK e \in Errors : FailToProxy(r, e, "refusal_failed")
  BY <1>1, RefusalFailsWith
<1>4. "refusal_failed" \in Causes \ {"none", "panic"}
  BY DEF Causes
<1>5. AsDocumented(r)'
  <2>1. /\ cause' = [cause EXCEPT ![r] = "refusal_failed"]
        /\ status'[r] \in Answered(r, e)
        /\ attempts' = attempts
    BY <1>3, <1>4, FailToProxyMoves
  <2>2. cause'[r] = "refusal_failed" /\ status'[r] = 429 /\ attempts'[r] = <<>>
    BY <1>1, <1>2, <2>1 DEF Answered, TypeOK
  <2>3. QED
    BY <2>2 DEF AsDocumented
<1>6. QED
  BY <1>1, <1>3, <1>4, <1>5, Failed

-----------------------------------------------------------------------------
(* upstream_peer, the connections and the response                         *)

\* What a request that was let in and fails has got.
LEMMA AnswerOf ==
  ASSUME IInv, NEW r \in Requests, NEW e \in Errors, NEW why \in Causes \ {"none"},
         FailToProxy(r, e, why), stage[r] \in {"filtered", "sent", "responding"}
  PROVE  /\ stage'[r] = "done" /\ cause'[r] = why /\ attempts'[r] = attempts[r]
         /\ Known(r)' = Known(r)
         /\ stage[r] = "filtered" => status[r] = 0
         /\ status'[r] = 200 \/ status'[r] \in {0, Code(e)}
         /\ status[r] = 0 => status'[r] \in {0, Code(e)}
<1>1. TypeOK /\ Fits(r)
  BY IInvIsFits
<1>2. status[r] \in {0, 200} /\ (stage[r] = "filtered" => status[r] = 0)
  BY <1>1 DEF Fits, StageFits
<1>3. /\ stage' = [stage EXCEPT ![r] = "done"]
      /\ cause' = [cause EXCEPT ![r] = why]
      /\ status'[r] \in Answered(r, e)
      /\ UNCHANGED <<input, attempts>>
  BY FailToProxyMoves
<1>4. stage'[r] = "done" /\ cause'[r] = why /\ attempts'[r] = attempts[r]
  BY <1>1, <1>3 DEF TypeOK
<1>5. QED
  BY <1>2, <1>3, <1>4, KnownStays DEF Answered

\* A request without a route names no server that the proxy knows, and one with
\* a route does.
LEMMA RouteTells ==
  ASSUME IInv, NEW r \in Requests, stage[r] \in {"filtered", "sent", "responding"}
  PROVE  Known(r) <=> route[r] # NoRoute
<1>1. RouteFits(r)
  BY IInvIsFits DEF Fits
<1>2. QED
  BY <1>1, ProxyAssumption DEF RouteFits, Known

LEMMA NotFoundMoves ==
  ASSUME IInv, NEW r \in Requests, NotFound(r)
  PROVE  TypeOK' /\ Fits(r)' /\ Others(r) /\ input' = input
<1>1. TypeOK /\ Fits(r) /\ stage[r] \in {"filtered", "sent", "responding"}
      /\ FailToProxy(r, HttpStatus(404), "no_route") /\ UNCHANGED limiterVars
  BY IInvIsFits DEF NotFound
<1>2. HttpStatus(404) \in Errors /\ Code(HttpStatus(404)) = 404
  BY DEF Errors, Code, HttpStatus, Err
<1>3. "no_route" \in Causes \ {"none", "panic"}
  BY DEF Causes
<1>4. ~Known(r)
  BY <1>1, RouteTells DEF NotFound
<1>5. AsDocumented(r)'
  <2>1. /\ cause'[r] = "no_route" /\ Known(r)' = Known(r)
        /\ status[r] = 0 => status'[r] \in {0, Code(HttpStatus(404))}
    BY <1>1, <1>2, <1>3, AnswerOf
  <2>2. status[r] = 0
    BY <1>1 DEF NotFound, Fits, StageFits
  <2>3. QED
    BY <1>2, <1>4, <2>1, <2>2 DEF AsDocumented
<1>6. QED
  BY <1>1, <1>2, <1>3, <1>5, Failed

LEMMA BadGatewayMoves ==
  ASSUME IInv, NEW r \in Requests, BadGateway(r)
  PROVE  TypeOK' /\ Fits(r)' /\ Others(r) /\ input' = input
<1>1. Fits(r) /\ stage[r] \in {"filtered", "sent", "responding"}
      /\ FailToProxy(r, HttpStatus(502), "no_backend") /\ UNCHANGED limiterVars
  BY IInvIsFits DEF BadGateway
<1>2. HttpStatus(502) \in Errors /\ Code(HttpStatus(502)) = 502
  BY DEF Errors, Code, HttpStatus, Err
<1>3. "no_backend" \in Causes \ {"none", "panic"}
  BY DEF Causes
<1>4. AsDocumented(r)'
  <2>1. /\ cause'[r] = "no_backend" /\ Known(r)' = Known(r)
        /\ status[r] = 0 => status'[r] \in {0, Code(HttpStatus(502))}
    BY <1>1, <1>2, <1>3, AnswerOf
  <2>2. status[r] = 0 /\ Known(r)
    BY <1>1, RouteTells DEF BadGateway, Fits, StageFits
  <2>3. QED
    BY <1>2, <2>1, <2>2 DEF AsDocumented
<1>5. QED
  BY <1>1, <1>2, <1>3, <1>4, Failed

LEMMA ConnectFailsMoves ==
  ASSUME IInv, NEW r \in Requests, ConnectFails(r)
  PROVE  TypeOK' /\ Fits(r)' /\ Others(r) /\ input' = input
<1> DEFINE e == Err("ConnectError", "Upstream", 0)
<1>1. Fits(r) /\ stage[r] \in {"filtered", "sent", "responding"}
      /\ FailToProxy(r, e, "connect_failed") /\ UNCHANGED limiterVars
  BY IInvIsFits DEF ConnectFails
<1>2. e \in Errors /\ Code(e) = 502
  BY DEF Errors, Code, Err
<1>3. "connect_failed" \in Causes \ {"none", "panic"}
  BY DEF Causes
<1> HIDE DEF e
<1>4. AsDocumented(r)'
  <2>1. /\ cause'[r] = "connect_failed" /\ Known(r)' = Known(r)
        /\ status[r] = 0 => status'[r] \in {0, Code(e)}
    BY <1>1, <1>2, <1>3, AnswerOf
  <2>2. status[r] = 0 /\ Known(r)
    BY <1>1, RouteTells DEF ConnectFails, Fits, StageFits
  <2>3. QED
    BY <1>2, <2>1, <2>2 DEF AsDocumented
<1>5. QED
  BY <1>1, <1>2, <1>3, <1>4, Failed

LEMMA UpstreamFailsMoves ==
  ASSUME IInv, NEW r \in Requests, UpstreamFails(r)
  PROVE  TypeOK' /\ Fits(r)' /\ Others(r) /\ input' = input
<1> DEFINE e == Err("ReadError", "Upstream", 0)
<1>1. Fits(r) /\ stage[r] \in {"filtered", "sent", "responding"}
      /\ FailToProxy(r, e, "upstream_failed") /\ UNCHANGED limiterVars
  BY IInvIsFits DEF UpstreamFails
<1>2. e \in Errors /\ Code(e) = 502
  BY DEF Errors, Code, Err
<1>3. "upstream_failed" \in Causes \ {"none", "panic"}
  BY DEF Causes
<1> HIDE DEF e
<1>4. AsDocumented(r)'
  <2>1. attempts[r] # <<>>
    BY <1>1 DEF UpstreamFails, Fits, StageFits
  <2>2. /\ cause'[r] = "upstream_failed" /\ attempts'[r] = attempts[r]
        /\ status'[r] = 200 \/ status'[r] \in {0, Code(e)}
    BY <1>1, <1>2, <1>3, AnswerOf
  <2>3. QED
    BY <1>2, <2>1, <2>2 DEF AsDocumented
<1>5. QED
  BY <1>1, <1>2, <1>3, <1>4, Failed

LEMMA ClientFailsMoves ==
  ASSUME IInv, NEW r \in Requests, ClientFails(r)
  PROVE  TypeOK' /\ Fits(r)' /\ Others(r) /\ input' = input
<1>1. PICK type \in DeadConnection \cup {"InvalidHTTPHeader"} :
        FailToProxy(r, Err(type, "Downstream", 0),
                    IF type \in DeadConnection THEN "client_gone" ELSE "bad_request")
  BY DEF ClientFails
<1>2. stage[r] \in {"filtered", "sent", "responding"} /\ UNCHANGED limiterVars
  BY DEF ClientFails
<1> DEFINE e == Err(type, "Downstream", 0)
           why == IF type \in DeadConnection THEN "client_gone" ELSE "bad_request"
<1>3. e \in Errors /\ Code(e) = IF type \in DeadConnection THEN 0 ELSE 400
  BY DEF Errors, Code, Err, DeadConnection
<1>4. why \in Causes \ {"none", "panic"}
  BY DEF Causes
<1>5. FailToProxy(r, e, why)
  BY <1>1
<1> HIDE DEF e, why
<1>6. AsDocumented(r)'
  <2>1. cause'[r] = why /\ (status'[r] = 200 \/ status'[r] \in {0, Code(e)})
    BY <1>2, <1>3, <1>4, <1>5, AnswerOf
  <2>2. CASE type \in DeadConnection
    BY <1>3, <2>1, <2>2 DEF why, AsDocumented
  <2>3. CASE type \notin DeadConnection
    BY <1>3, <2>1, <2>3 DEF why, AsDocumented
  <2>4. QED
    BY <2>2, <2>3
<1>7. QED
  BY <1>2, <1>3, <1>4, <1>5, <1>6, Failed

LEMMA InternalFailsMoves ==
  ASSUME IInv, NEW r \in Requests, InternalFails(r)
  PROVE  TypeOK' /\ Fits(r)' /\ Others(r) /\ input' = input
<1>1. PICK source \in {"Internal", "Unset"} :
        FailToProxy(r, Err("InternalError", source, 0), "internal")
  BY DEF InternalFails
<1>2. stage[r] \in {"filtered", "sent", "responding"} /\ UNCHANGED limiterVars
  BY DEF InternalFails
<1> DEFINE e == Err("InternalError", source, 0)
<1>3. e \in Errors /\ Code(e) = 500
  BY DEF Errors, Code, Err
<1>4. "internal" \in Causes \ {"none", "panic"}
  BY DEF Causes
<1>5. FailToProxy(r, e, "internal")
  BY <1>1
<1> HIDE DEF e
<1>6. AsDocumented(r)'
  <2>1. cause'[r] = "internal" /\ status'[r] \in {0, 200, 500}
    BY <1>2, <1>3, <1>4, <1>5, AnswerOf
  <2>2. QED
    BY <2>1 DEF AsDocumented
<1>7. QED
  BY <1>2, <1>3, <1>4, <1>5, <1>6, Failed

LEMMA AppendIs ==
  ASSUME NEW S, NEW s \in Seq(S), NEW x \in S
  PROVE  /\ Append(s, x) \in Seq(S) /\ Append(s, x) # <<>>
         /\ Len(s) \in Nat /\ Len(Append(s, x)) = Len(s) + 1
         /\ \A k \in 1 .. Len(s) : Append(s, x)[k] = s[k]
         /\ Append(s, x)[Len(s) + 1] = x
  OBVIOUS

LEMMA ConnectedMoves ==
  ASSUME IInv, NEW r \in Requests, Connected(r)
  PROVE  TypeOK' /\ Fits(r)' /\ Others(r) /\ input' = input
<1>1. TypeOK /\ Fits(r)
  BY IInvIsFits
<1>2. PICK b \in Selectable(r), pooled \in BOOLEAN :
        /\ reused' = [reused EXCEPT ![r] = pooled]
        /\ attempts' = [attempts EXCEPT ![r] = Append(@,
             [backend |-> b, reused |-> pooled, whole |-> ~truncated[r], error |-> "none"])]
  BY DEF Connected
<1>3. /\ stage[r] = "filtered" /\ route[r] # NoRoute
      /\ stage' = [stage EXCEPT ![r] = "sent"]
      /\ UNCHANGED <<limiterVars, input, route, port, ready, truncated, status, cause>>
  BY DEF Connected
<1> DEFINE a == [backend |-> b, reused |-> pooled, whole |-> ~truncated[r], error |-> "none"]
           s == attempts[r]
<1>4. attempts \in [Requests -> Seq(Attempt)] /\ s \in Seq(Attempt)
  <2>1. attempts \in [Requests -> Seq(Attempt)]
    BY <1>1 DEF TypeOK
  <2>2. QED
    BY <2>1
<1>5. route[r] \in ServerNames /\ b \in BackendsOf[route[r]]
  BY <1>1, <1>3 DEF TypeOK, Selectable
<1>6. /\ a \in Attempt /\ a.reused = pooled /\ a.backend = b
      /\ (a.whole <=> ~truncated[r]) /\ a.error = "none"
  BY <1>5, ProxyAssumption DEF Attempt
<1> HIDE DEF a
<1>7. attempts' = [attempts EXCEPT ![r] = Append(s, a)]
  BY <1>2 DEF a
<1> HIDE DEF s
<1>8. /\ Append(s, a) \in Seq(Attempt) /\ Append(s, a) # <<>>
      /\ Len(s) \in Nat /\ Len(Append(s, a)) = Len(s) + 1
      /\ \A k \in 1 .. Len(s) : Append(s, a)[k] = s[k]
      /\ Append(s, a)[Len(s) + 1] = a
  BY <1>4, <1>6, AppendIs
<1>9. attempts' \in [Requests -> Seq(Attempt)] /\ attempts'[r] = Append(s, a)
      /\ \A q \in Requests \ {r} : attempts'[q] = attempts[q]
  BY <1>4, <1>7, <1>8
<1>10. /\ reused' \in [Requests -> BOOLEAN] /\ reused'[r] = pooled
       /\ \A q \in Requests \ {r} : reused'[q] = reused[q]
  BY <1>1, <1>2 DEF TypeOK
<1>11. /\ stage' \in [Requests -> Stages] /\ stage'[r] = "sent"
       /\ \A q \in Requests \ {r} : stage'[q] = stage[q]
  BY <1>1, <1>3 DEF TypeOK, Stages
<1>12. TypeOK'
  <2>1. Limiter!TypeOK'
    BY <1>1, <1>3, LimiterTypeNext DEF TypeOK
  <2>2. /\ cause' \in [Requests -> Causes] /\ port' \in [Requests -> U16]
        /\ status' \in [Requests -> {0, 200, 400, 404, 429, 500, 502}]
        /\ route' \in [Requests -> ServerNames \cup {NoRoute}]
        /\ ready' \in [Backends -> BOOLEAN] /\ truncated' \in [Requests -> BOOLEAN]
    BY <1>1, <1>3 DEF TypeOK
  <2>3. QED
    BY <1>1, <1>3, <1>9, <1>10, <1>11, <2>1, <2>2, TypeIs
<1>13. pc' = pc /\ log' = log
  BY <1>3 DEF limiterVars
<1>14. Others(r)
  BY <1>3, <1>9, <1>10, <1>11, <1>13 DEF Others, Same
<1>15. Passed(r)' /\ cause[r] = "none" /\ status[r] = 0
  BY <1>1, <1>3, <1>13 DEF Fits, StageFits, Passed, Exempt
<1>16. StageFits(r)' /\ RouteFits(r)' /\ Known(r)' = Known(r) /\ Named(r)' = Named(r)
  <2>1. Known(r)' = Known(r) /\ Named(r)' = Named(r)
    BY <1>3, KnownStays
  <2>2. QED
    BY <1>1, <1>3, <1>8, <1>9, <1>11, <1>15, <2>1 DEF Fits, StageFits, RouteFits
<1>17. AttemptsFit(r)'
  BY <1>3, <1>6, <1>8, <1>9, <1>10, <1>11 DEF AttemptsFit
<1>18. /\ Len(s) <= MaxRetries
       /\ s # <<>> => \/ s[Len(s)].error = "refused"
                      \/ s[Len(s)].error = "broken" /\ s[Len(s)].reused /\ ~truncated[r]
  BY <1>1, <1>3 DEF Fits, AttemptsFit, s
<1>19. SentSafely(r)'
  <2>1. ASSUME NEW i \in 1 .. Len(s) PROVE Excused(r, i)'
    <3>1. /\ Append(s, a)[i] = s[i]
          /\ i # Len(s) => Append(s, a)[i + 1] = s[i + 1]
          /\ i = Len(s) => Append(s, a)[i + 1] = a
      BY <1>8
    <3>2. CASE i = Len(s)
      <4>1. \/ s[i].error = "refused"
            \/ s[i].error = "broken" /\ s[i].reused /\ ~truncated[r]
        BY <1>4, <1>18, <3>2
      <4>2. QED
        BY <1>6, <1>9, <3>1, <3>2, <4>1 DEF Excused
    <3>3. CASE i # Len(s)
      <4>1. i \in 1 .. Len(s) - 1
        BY <1>8, <3>3
      <4>2. Excused(r, i)
        BY <1>1, <4>1 DEF Fits, SentSafely, s
      <4>3. QED
        BY <1>9, <3>1, <3>3, <4>2 DEF Excused, s
    <3>4. QED
      BY <3>2, <3>3
  <2>2. Len(attempts'[r]) - 1 = Len(s) /\ Len(attempts'[r]) <= MaxRetries + 1
    BY <1>8, <1>9, <1>18, ProxyAssumption
  <2>3. QED
    BY <2>1, <2>2 DEF SentSafely
<1>20. Known(r) /\ route[r] = Named(r)
  <2>1. Known(r)
    BY <1>3, RouteTells
  <2>2. QED
    BY <1>1, <1>3, <2>1 DEF Fits, RouteFits
<1>21. OnRoute(r)'
  <2>1. \A i \in 1 .. Len(s) : s[i].backend \in BackendsOf[Named(r)]
    BY <1>1 DEF Fits, OnRoute, s
  <2>2. \A i \in 1 .. Len(s) + 1 : Append(s, a)[i].backend \in BackendsOf[Named(r)]
    BY <1>5, <1>6, <1>8, <1>20, <2>1
  <2>3. QED
    BY <1>8, <1>9, <1>16, <1>20, <2>2 DEF OnRoute
<1>22. HealthOpen(r)'
  BY <1>1, <1>3, <1>13 DEF Fits, HealthOpen
<1>23. AsDocumented(r)'
  BY <1>11 DEF AsDocumented
<1>24. QED
  BY <1>3, <1>12, <1>14, <1>16, <1>17, <1>19, <1>21, <1>22, <1>23 DEF Fits

\* Only the stage, the cause and the status of request r change.
GoesOn(r, here, why, code) ==
  /\ stage' = [stage EXCEPT ![r] = here]
  /\ cause' = [cause EXCEPT ![r] = why]
  /\ status' = [status EXCEPT ![r] = code]
  /\ UNCHANGED <<limiterVars, input, route, port, ready, reused, attempts, truncated>>

LEMMA GoesOnMoves ==
  ASSUME IInv, NEW r \in Requests, NEW here \in Stages, NEW why \in Causes \ {"panic"},
         NEW code \in {200, 429}, GoesOn(r, here, why, code),
         code = 429 => status[r] = 429,
         StageFits(r)', RouteFits(r)', AttemptsFit(r)', AsDocumented(r)'
  PROVE  TypeOK' /\ Fits(r)' /\ Others(r) /\ input' = input
<1> USE DEF GoesOn
<1>1. TypeOK /\ Fits(r) /\ pc' = pc /\ log' = log
  BY IInvIsFits DEF limiterVars
<1>2. TypeOK'
  <2>1. Limiter!TypeOK'
    BY <1>1, LimiterTypeNext DEF TypeOK
  <2>2. /\ stage' \in [Requests -> Stages] /\ cause' \in [Requests -> Causes]
        /\ status' \in [Requests -> {0, 200, 400, 404, 429, 500, 502}]
    BY <1>1 DEF TypeOK
  <2>3. /\ route' \in [Requests -> ServerNames \cup {NoRoute}] /\ port' \in [Requests -> U16]
        /\ ready' \in [Backends -> BOOLEAN] /\ reused' \in [Requests -> BOOLEAN]
        /\ attempts' \in [Requests -> Seq(Attempt)] /\ truncated' \in [Requests -> BOOLEAN]
    BY <1>1 DEF TypeOK
  <2>4. QED
    BY <1>1, <2>1, <2>2, <2>3, TypeIs
<1>3. Others(r)
  BY <1>1 DEF Others, Same, TypeOK
<1>4. cause'[r] = why /\ status'[r] = code
  BY <1>1 DEF TypeOK
<1>5. HealthOpen(r)'
  BY <1>1, <1>4 DEF Fits, HealthOpen
<1>6. SentSafely(r)' /\ OnRoute(r)'
  BY <1>1, KnownStays DEF Fits, SentSafely, Excused, OnRoute
<1>7. QED
  BY <1>2, <1>3, <1>5, <1>6 DEF Fits

LEMMA RefusalSentMoves ==
  ASSUME IInv, NEW r \in Requests, RefusalSent(r)
  PROVE  TypeOK' /\ Fits(r)' /\ Others(r) /\ input' = input
<1>1. /\ TypeOK /\ Fits(r) /\ stage[r] = "refused"
      /\ stage' = [stage EXCEPT ![r] = "done"]
      /\ cause' = [cause EXCEPT ![r] = "limited"]
      /\ UNCHANGED <<limiterVars, input, route, port, ready, reused, attempts, truncated, status>>
  BY IInvIsFits DEF RefusalSent
<1>2. status[r] = 429 /\ attempts[r] = <<>>
  BY <1>1 DEF Fits, StageFits
<1>3. status' = [status EXCEPT ![r] = 429]
  BY <1>1, <1>2 DEF TypeOK
<1>4. stage'[r] = "done" /\ cause'[r] = "limited"
  BY <1>1 DEF TypeOK
<1>5. StageFits(r)' /\ RouteFits(r)'
  BY <1>1, <1>2, <1>4 DEF StageFits, RouteFits
<1>6. AttemptsFit(r)' /\ AsDocumented(r)'
  BY <1>1, <1>2, <1>4 DEF AttemptsFit, AsDocumented, Fits
<1>7. /\ "done" \in Stages /\ "limited" \in Causes \ {"panic"}
      /\ 429 \in {200, 429} /\ GoesOn(r, "done", "limited", 429)
  BY <1>1, <1>3 DEF Stages, Causes, GoesOn
<1>8. QED
  BY <1>2, <1>5, <1>6, <1>7, GoesOnMoves

LEMMA BodyTruncatedMoves ==
  ASSUME IInv, NEW r \in Requests, BodyTruncated(r)
  PROVE  TypeOK' /\ Fits(r)' /\ Others(r) /\ input' = input
<1>1. /\ TypeOK /\ Fits(r) /\ stage[r] = "sent"
      /\ truncated' = [truncated EXCEPT ![r] = TRUE]
      /\ UNCHANGED <<limiterVars, input, stage, route, port, ready, reused, attempts, status, cause>>
  BY IInvIsFits DEF BodyTruncated
<1>2. pc' = pc /\ log' = log
  BY <1>1 DEF limiterVars
<1>3. TypeOK'
  <2>1. Limiter!TypeOK'
    BY <1>1, LimiterTypeNext DEF TypeOK
  <2>2. /\ stage' \in [Requests -> Stages] /\ cause' \in [Requests -> Causes]
        /\ status' \in [Requests -> {0, 200, 400, 404, 429, 500, 502}]
        /\ route' \in [Requests -> ServerNames \cup {NoRoute}] /\ port' \in [Requests -> U16]
        /\ ready' \in [Backends -> BOOLEAN] /\ reused' \in [Requests -> BOOLEAN]
        /\ attempts' \in [Requests -> Seq(Attempt)] /\ truncated' \in [Requests -> BOOLEAN]
    BY <1>1 DEF TypeOK
  <2>3. QED
    BY <1>1, <2>1, <2>2, TypeIs
<1>4. Others(r)
  BY <1>1, <1>2 DEF Others, Same, TypeOK
<1>5. StageFits(r)' /\ RouteFits(r)' /\ AttemptsFit(r)'
  BY <1>1, <1>2, KnownStays DEF Fits, StageFits, RouteFits, AttemptsFit, Passed, Exempt
<1>6. HealthOpen(r)' /\ SentSafely(r)' /\ OnRoute(r)'
  BY <1>1, <1>2, KnownStays DEF Fits, HealthOpen, SentSafely, Excused, OnRoute
<1>7. AsDocumented(r)'
  BY <1>1 DEF AsDocumented
<1>8. QED
  BY <1>1, <1>3, <1>4, <1>5, <1>6, <1>7 DEF Fits

LEMMA RetryMoves ==
  ASSUME IInv, NEW r \in Requests, Retry(r)
  PROVE  TypeOK' /\ Fits(r)' /\ Others(r) /\ input' = input
<1>1. PICK error \in {"refused", "broken"} : TurnBack(r, error)
  BY DEF Retry
<1> DEFINE s == attempts[r]
           t == [s EXCEPT ![Len(s)].error = error]
<1>2. /\ TypeOK /\ Fits(r) /\ stage[r] = "sent"
      /\ error = "broken" => reused[r] /\ ~truncated[r]
      /\ Len(s) <= MaxRetries
      /\ stage' = [stage EXCEPT ![r] = "filtered"]
      /\ attempts' = [attempts EXCEPT ![r] = t]
      /\ UNCHANGED <<limiterVars, input, route, port, ready, reused, truncated, status, cause>>
  BY <1>1, IInvIsFits DEF Retry, TurnBack, Retries, Reusable
<1>3. attempts \in [Requests -> Seq(Attempt)] /\ s \in Seq(Attempt)
  <2>1. attempts \in [Requests -> Seq(Attempt)]
    BY <1>2 DEF TypeOK
  <2>2. QED
    BY <2>1
<1>4. s # <<>> /\ s[Len(s)].reused = reused[r]
  BY <1>2 DEF Fits, StageFits, AttemptsFit
<1> HIDE DEF s
<1>5. /\ t \in Seq(Attempt) /\ Len(t) = Len(s) /\ Len(s) \in Nat \ {0}
      /\ t[Len(s)].error = error /\ t[Len(s)].reused = s[Len(s)].reused
      /\ \A i \in 1 .. Len(s) - 1 : t[i] = s[i]
      /\ \A i \in 1 .. Len(s) : t[i].backend = s[i].backend /\ t[i].whole = s[i].whole
  <2> DEFINE n == Len(s)
             a == [s[n] EXCEPT !.error = error]
  <2>1. n \in Nat \ {0} /\ n \in 1 .. n /\ DOMAIN s = 1 .. n
    BY <1>3, <1>4
  <2>2. s[n] \in Attempt
    BY <1>3, <2>1
  <2>3. t = [s EXCEPT ![n] = a]
    OBVIOUS
  <2>4. /\ a \in Attempt /\ a.error = error
        /\ a.reused = s[n].reused /\ a.backend = s[n].backend /\ a.whole = s[n].whole
    BY <1>1, <2>2 DEF Attempt
  <2> HIDE DEF n, a, t
  <2>5. t \in Seq(Attempt) /\ Len(t) = n
    BY <1>3, <2>1, <2>3, <2>4 DEF n
  <2>6. t[n] = a /\ \A i \in 1 .. n - 1 : t[i] = s[i]
    BY <1>3, <2>1, <2>3
  <2>7. \A i \in 1 .. n : t[i].backend = s[i].backend /\ t[i].whole = s[i].whole
    <3>1. TAKE i \in 1 .. n
    <3>2. i = n \/ i \in 1 .. n - 1
      BY <2>1, <3>1
    <3>3. QED
      BY <2>4, <2>6, <3>2
  <2>8. QED
    BY <2>1, <2>4, <2>5, <2>6, <2>7 DEF n
<1> HIDE DEF t
<1>6. attempts' \in [Requests -> Seq(Attempt)] /\ attempts'[r] = t
      /\ \A q \in Requests \ {r} : attempts'[q] = attempts[q]
  BY <1>2, <1>3, <1>5
<1>7. cause[r] = "none" /\ status[r] = 0 /\ Passed(r) /\ pc' = pc /\ log' = log
  BY <1>2 DEF Fits, StageFits, limiterVars
<1>8. /\ stage' \in [Requests -> Stages] /\ stage'[r] = "filtered"
      /\ \A q \in Requests \ {r} : stage'[q] = stage[q]
  BY <1>2 DEF TypeOK, Stages
<1>9. TypeOK'
  <2>1. Limiter!TypeOK'
    BY <1>2, LimiterTypeNext DEF TypeOK
  <2>2. /\ cause' \in [Requests -> Causes] /\ port' \in [Requests -> U16]
        /\ status' \in [Requests -> {0, 200, 400, 404, 429, 500, 502}]
        /\ route' \in [Requests -> ServerNames \cup {NoRoute}]
        /\ ready' \in [Backends -> BOOLEAN] /\ reused' \in [Requests -> BOOLEAN]
        /\ truncated' \in [Requests -> BOOLEAN]
    BY <1>2 DEF TypeOK
  <2>3. QED
    BY <1>2, <1>6, <1>8, <2>1, <2>2, TypeIs
<1>10. Others(r)
  BY <1>2, <1>6, <1>7, <1>8 DEF Others, Same
<1>11. t # <<>>
  BY <1>5
<1>12. StageFits(r)' /\ RouteFits(r)'
  BY <1>2, <1>6, <1>7, <1>8, <1>11, KnownStays DEF Fits, StageFits, RouteFits, Passed, Exempt
<1>13. AttemptsFit(r)'
  BY <1>2, <1>4, <1>5, <1>6, <1>8, <1>11 DEF AttemptsFit
<1>14. SentSafely(r)'
  <2>1. ASSUME NEW i \in 1 .. Len(s) - 1 PROVE Excused(r, i)'
    <3>1. t[i] = s[i] /\ t[i + 1].whole = s[i + 1].whole
      BY <1>5
    <3>2. Excused(r, i)
      BY <1>2 DEF Fits, SentSafely, s
    <3>3. QED
      BY <1>6, <3>1, <3>2 DEF Excused, s
  <2>2. Len(attempts'[r]) = Len(s) /\ Len(s) <= MaxRetries + 1
    BY <1>2, <1>5, <1>6, ProxyAssumption
  <2>3. QED
    BY <2>1, <2>2 DEF SentSafely
<1>15. OnRoute(r)'
  <2>1. \A i \in 1 .. Len(s) : Known(r) /\ s[i].backend \in BackendsOf[Named(r)]
    BY <1>2 DEF Fits, OnRoute, s
  <2>2. QED
    BY <1>2, <1>5, <1>6, <2>1, KnownStays DEF OnRoute
<1>16. HealthOpen(r)' /\ AsDocumented(r)'
  BY <1>2, <1>7, <1>8 DEF Fits, HealthOpen, AsDocumented
<1>17. QED
  BY <1>2, <1>9, <1>10, <1>12, <1>13, <1>14, <1>15, <1>16 DEF Fits

LEMMA ResponseHeaderMoves ==
  ASSUME IInv, NEW r \in Requests, ResponseHeader(r)
  PROVE  TypeOK' /\ Fits(r)' /\ Others(r) /\ input' = input
<1>1. /\ TypeOK /\ Fits(r) /\ stage[r] = "sent"
      /\ stage' = [stage EXCEPT ![r] = "responding"]
      /\ status' = [status EXCEPT ![r] = 200]
      /\ UNCHANGED <<limiterVars, input, route, port, ready, reused, attempts, truncated, cause>>
  BY IInvIsFits DEF ResponseHeader
<1>2. cause[r] = "none" /\ Passed(r) /\ attempts[r] # <<>> /\ pc' = pc
  BY <1>1 DEF Fits, StageFits, limiterVars
<1>3. cause' = [cause EXCEPT ![r] = "none"]
  BY <1>1, <1>2 DEF TypeOK
<1>4. stage'[r] = "responding" /\ status'[r] = 200
  BY <1>1 DEF TypeOK
<1>5. StageFits(r)' /\ RouteFits(r)'
  BY <1>1, <1>2, <1>4, KnownStays DEF Fits, StageFits, RouteFits, Passed, Exempt
<1>6. AttemptsFit(r)' /\ AsDocumented(r)'
  BY <1>1, <1>2, <1>4 DEF AttemptsFit, AsDocumented
<1>7. /\ "responding" \in Stages /\ "none" \in Causes \ {"panic"} /\ 200 \in {200, 429}
      /\ GoesOn(r, "responding", "none", 200)
  BY <1>1, <1>3 DEF Stages, Causes, GoesOn
<1>8. QED
  BY <1>5, <1>6, <1>7, GoesOnMoves

LEMMA ResponseEndMoves ==
  ASSUME IInv, NEW r \in Requests, ResponseEnd(r)
  PROVE  TypeOK' /\ Fits(r)' /\ Others(r) /\ input' = input
<1>1. /\ TypeOK /\ Fits(r) /\ stage[r] = "responding"
      /\ stage' = [stage EXCEPT ![r] = "done"]
      /\ cause' = [cause EXCEPT ![r] = "complete"]
      /\ UNCHANGED <<limiterVars, input, route, port, ready, reused, attempts, truncated, status>>
  BY IInvIsFits DEF ResponseEnd
<1>2. status[r] = 200 /\ Passed(r) /\ attempts[r] # <<>> /\ pc' = pc
  BY <1>1 DEF Fits, StageFits, limiterVars
<1>3. status' = [status EXCEPT ![r] = 200]
  BY <1>1, <1>2 DEF TypeOK
<1>4. stage'[r] = "done" /\ cause'[r] = "complete"
  BY <1>1 DEF TypeOK
<1>5. StageFits(r)' /\ RouteFits(r)'
  BY <1>1, <1>2, <1>4 DEF StageFits, RouteFits, Passed, Exempt
<1>6. AttemptsFit(r)' /\ AsDocumented(r)'
  BY <1>1, <1>2, <1>4 DEF AttemptsFit, AsDocumented
<1>7. /\ "done" \in Stages /\ "complete" \in Causes \ {"panic"} /\ 200 \in {200, 429}
      /\ GoesOn(r, "done", "complete", 200)
  BY <1>1, <1>3 DEF Stages, Causes, GoesOn
<1>8. QED
  BY <1>5, <1>6, <1>7, GoesOnMoves

-----------------------------------------------------------------------------
(* The theorems                                                            *)

LEMMA StepMoves ==
  ASSUME IInv, NEW r \in Requests, Step(r)
  PROVE  TypeOK' /\ Fits(r)' /\ Others(r) /\ input' = input
  BY SkipLimiterMoves, AskLimiterMoves, LimiterPanicsMoves, AdmitMoves,
     TooManyRequestsMoves, TooManyRequestsUnsentMoves, RefusalSentMoves, RefusalCutMoves,
     NotFoundMoves, BadGatewayMoves, ConnectedMoves, ConnectFailsMoves,
     BodyTruncatedMoves, RetryMoves, UpstreamFailsMoves,
     ResponseHeaderMoves, ResponseEndMoves, ClientFailsMoves, InternalFailsMoves
  DEF Step

LEMMA InitFits == Init => IInv
<1> SUFFICES ASSUME Init PROVE IInv
  OBVIOUS
<1> USE ProxyAssumption
<1>1. TypeOK
  <2>1. Limiter!TypeOK
    BY DEF Init, Limiter!Init, Limiter!TypeOK
  <2>2. "new" \in Stages /\ "none" \in Causes
    BY DEF Stages, Causes
  <2>3. 80 \in U16
    <3>1. MaxU16 = 65535
      BY DEF MaxU16
    <3>2. QED
      BY <3>1 DEF U16
  <2>4. attempts \in [Requests -> Seq(Attempt)]
    <3>1. <<>> \in Seq(Attempt)
      OBVIOUS
    <3>2. QED
      BY <3>1 DEF Init
  <2>5. input \in [Requests -> Inputs]
    BY DEF Init
  <2>6. QED
    BY <2>1, <2>2, <2>3, <2>4, <2>5 DEF Init, TypeOK
<1>2. ASSUME NEW r \in Requests PROVE Fits(r)
  <2>1. /\ stage[r] = "new" /\ pc[r] = "idle" /\ attempts[r] = <<>>
        /\ status[r] = 0 /\ cause[r] = "none" /\ ~truncated[r]
        /\ \A q \in Clients : r \notin log[q]
    BY DEF Init, Limiter!Init
  <2>2. StageFits(r) /\ RouteFits(r) /\ AttemptsFit(r)
    BY <2>1 DEF StageFits, RouteFits, AttemptsFit
  <2>3. HealthOpen(r) /\ SentSafely(r) /\ OnRoute(r)
    BY <2>1 DEF HealthOpen, SentSafely, OnRoute
  <2>4. AsDocumented(r)
    BY <2>1 DEF AsDocumented
  <2>5. QED
    BY <2>2, <2>3, <2>4 DEF Fits
<1>3. QED
  BY <1>1, <1>2, IInvIsFits

LEMMA StaysFit == IInv /\ [Next]_vars => IInv'
<1> SUFFICES ASSUME IInv, [Next]_vars PROVE IInv'
  OBVIOUS
<1>1. TypeOK /\ \A q \in Requests : Fits(q)
  BY IInvIsFits
<1>2. ASSUME NEW r \in Requests, Step(r) PROVE IInv'
  <2>1. TypeOK' /\ Fits(r)' /\ Others(r) /\ input' = input
    BY <1>2, StepMoves
  <2>2. ASSUME NEW q \in Requests PROVE Fits(q)'
    BY <1>1, <2>1, FitsKept DEF Others
  <2>3. QED
    BY <2>1, <2>2, IInvIsFitsNext
<1>3. ASSUME UNCHANGED <<limiterVars, input, stage, route, port, reused, attempts, truncated, status, cause>>,
             ready' \in [Backends -> BOOLEAN]
      PROVE  IInv'
  <2>1. TypeOK'
    <3>1. Limiter!TypeOK'
      BY <1>1, <1>3 DEF limiterVars, TypeOK, Limiter!TypeOK
    <3>2. /\ stage' \in [Requests -> Stages] /\ cause' \in [Requests -> Causes]
          /\ status' \in [Requests -> {0, 200, 400, 404, 429, 500, 502}]
          /\ route' \in [Requests -> ServerNames \cup {NoRoute}] /\ port' \in [Requests -> U16]
          /\ reused' \in [Requests -> BOOLEAN] /\ attempts' \in [Requests -> Seq(Attempt)]
          /\ truncated' \in [Requests -> BOOLEAN]
      BY <1>1, <1>3 DEF TypeOK
    <3>3. QED
      BY <1>1, <1>3, <3>1, <3>2, TypeIs
  <2>2. ASSUME NEW q \in Requests PROVE Same(q)
    BY <1>3 DEF Same, limiterVars
  <2>3. ASSUME NEW q \in Requests PROVE Fits(q)'
    BY <1>1, <1>3, <2>2, FitsKept
  <2>4. QED
    BY <2>1, <2>3, IInvIsFitsNext
<1>4. ASSUME NEW b \in Backends, Flip(b) PROVE IInv'
  <2>1. ready' \in [Backends -> BOOLEAN]
    BY <1>1, <1>4 DEF Flip, TypeOK
  <2>2. QED
    BY <1>3, <1>4, <2>1 DEF Flip
<1>5. CASE Tick
  <2>1. pc' = pc /\ log' = log /\ UNCHANGED ctxVars
    BY <1>5 DEF Tick, Limiter!Tick
  <2>2. TypeOK'
    <3>1. Limiter!TypeOK'
      <4>1. Limiter!Tick /\ Limiter!TypeOK
        BY <1>1, <1>5 DEF Tick, TypeOK
      <4>2. QED
        BY <4>1, ProxyAssumption DEF Limiter!Tick, Limiter!TypeOK
    <3>2. /\ stage' \in [Requests -> Stages] /\ cause' \in [Requests -> Causes]
          /\ status' \in [Requests -> {0, 200, 400, 404, 429, 500, 502}]
          /\ route' \in [Requests -> ServerNames \cup {NoRoute}] /\ port' \in [Requests -> U16]
          /\ ready' \in [Backends -> BOOLEAN]
          /\ reused' \in [Requests -> BOOLEAN] /\ attempts' \in [Requests -> Seq(Attempt)]
          /\ truncated' \in [Requests -> BOOLEAN] /\ input' = input
      BY <1>1, <2>1 DEF ctxVars, TypeOK
    <3>3. QED
      BY <1>1, <3>1, <3>2, TypeIs
  <2>3. ASSUME NEW q \in Requests PROVE Same(q)
    BY <2>1 DEF Same, ctxVars
  <2>4. ASSUME NEW q \in Requests PROVE Fits(q)'
    BY <1>1, <2>1, <2>3, FitsKept DEF ctxVars
  <2>5. QED
    BY <2>2, <2>4, IInvIsFitsNext
<1>6. CASE UNCHANGED vars
  <2>1. UNCHANGED <<limiterVars, input, stage, route, port, ready, reused, attempts, truncated, status, cause>>
    BY <1>6 DEF vars, limiterVars, ctxVars
  <2>2. ready' \in [Backends -> BOOLEAN]
    BY <1>1, <2>1 DEF TypeOK
  <2>3. QED
    BY <1>3, <2>1, <2>2
<1>7. QED
  BY <1>2, <1>4, <1>5, <1>6 DEF Next, Step

\* The invariant holds for any number of requests, connections, servers,
\* backends and retries, with or without a limiter.
THEOREM ProxyInvariant == Spec => []IInv
  BY InitFits, StaysFit, PTL DEF Spec

\* Nothing reaches a backend that the limiter did not admit or that it does
\* not apply to (request_filter before upstream_peer).
THEOREM OnlyAdmittedForwarded == Spec => []ForwardedWasAdmitted
<1>1. IInv => ForwardedWasAdmitted
  <2> SUFFICES ASSUME IInv, NEW r \in Requests, attempts[r] # <<>>
               PROVE  pc[r] = "allowed" \/ ~LimiterOn \/ (input[r].path = "/health" /\ pc[r] = "idle")
    BY DEF ForwardedWasAdmitted
  <2>1. Passed(r)
    BY IInvIsFits DEF Fits, StageFits
  <2>2. QED
    BY <2>1 DEF Passed, Exempt
<1>2. QED
  BY <1>1, ProxyInvariant, PTL

\* The health path takes no allowance and is never refused.
THEOREM HealthStaysOpen == Spec => []HealthNeverLimited
<1>1. IInv => HealthNeverLimited
  BY DEF IInv
<1>2. QED
  BY <1>1, ProxyInvariant, PTL

\* A request is sent again only after its backend refused it, or whole after a
\* reused connection broke (decide_reuse in error_while_proxy), and within
\* pingora's limit.
THEOREM RetriesAreSafe == Spec => []NoBlindRetry
<1>1. IInv => NoBlindRetry
  BY DEF IInv
<1>2. QED
  BY <1>1, ProxyInvariant, PTL

\* No attempt of a request leaves the server its host names.
THEOREM AttemptsStayOnRoute == Spec => []StaysOnRoute
<1>1. IInv => StaysOnRoute
  BY DEF IInv
<1>2. QED
  BY <1>1, ProxyInvariant, PTL

\* fail_to_proxy answers as docs/proxy-design.md says, and a 404 tells that the
\* request names no server the proxy knows.
THEOREM StatusIsDocumented == Spec => []DocumentedStatus
<1>1. IInv => DocumentedStatus
  BY DEF IInv
<1>2. QED
  BY <1>1, ProxyInvariant, PTL

\* The client gets one status, whatever happens after its header was sent.
THEOREM OneStatusSent == Spec => OneStatus
<1>1. IInv /\ [Next]_vars => [\A r \in Requests : status[r] # 0 => status'[r] = status[r]]_vars
  <2> SUFFICES ASSUME IInv, Next, NEW q \in Requests, status[q] # 0
               PROVE  status'[q] = status[q]
    OBVIOUS
  <2>1. ASSUME NEW r \in Requests, Step(r) PROVE status'[q] = status[q]
    <3>1. CASE q # r
      BY <2>1, <3>1, StepMoves DEF Others, Same
    <3>2. CASE q = r
      <4>1. TypeOK /\ StageFits(r) /\ Fits(r)
        BY IInvIsFits DEF Fits
      <4>2. ASSUME NEW e \in Errors, NEW why \in Causes \ {"none"}, FailToProxy(r, e, why)
            PROVE  status'[r] = status[r]
        <5>1. status'[r] \in Answered(r, e)
          BY <4>2, FailToProxyMoves
        <5>2. Answered(r, e) = {status[r]}
          BY <3>2 DEF Answered
        <5>3. QED
          BY <5>1, <5>2
      <4>3. stage[r] \in {"refused", "responding", "done"}
        BY <3>2, <4>1 DEF StageFits, TypeOK, Stages
      <4>4. ~ SkipLimiter(r) /\ ~ AskLimiter(r) /\ ~ LimiterPanics(r) /\ ~ Admit(r)
            /\ ~ TooManyRequests(r) /\ ~ TooManyRequestsUnsent(r) /\ ~ NotFound(r)
            /\ ~ BadGateway(r) /\ ~ ConnectFails(r) /\ ~ Connected(r) /\ ~ Retry(r)
            /\ ~ BodyTruncated(r) /\ ~ ResponseHeader(r)
        BY <4>3 DEF SkipLimiter, AskLimiter, LimiterPanics, Admit, TooManyRequests,
           TooManyRequestsUnsent, NotFound, BadGateway, ConnectFails, Connected, Retry,
           BodyTruncated, ResponseHeader
      <4>5. CASE UpstreamFails(r)
        <5>1. Err("ReadError", "Upstream", 0) \in Errors
              /\ "upstream_failed" \in Causes \ {"none"}
          BY DEF Errors, Causes
        <5>2. FailToProxy(r, Err("ReadError", "Upstream", 0), "upstream_failed")
          BY <4>5 DEF UpstreamFails
        <5>3. QED
          BY <3>2, <4>2, <5>1, <5>2
      <4>6. CASE ResponseEnd(r) \/ RefusalSent(r)
        BY <3>2, <4>6 DEF ResponseEnd, RefusalSent
      <4>7. CASE ClientFails(r)
        <5>1. PICK type \in DeadConnection \cup {"InvalidHTTPHeader"} :
                FailToProxy(r, Err(type, "Downstream", 0),
                            IF type \in DeadConnection THEN "client_gone" ELSE "bad_request")
          BY <4>7 DEF ClientFails
        <5>2. Err(type, "Downstream", 0) \in Errors
              /\ (IF type \in DeadConnection THEN "client_gone" ELSE "bad_request")
                   \in Causes \ {"none"}
          BY DEF Errors, Causes
        <5>3. QED
          BY <3>2, <4>2, <5>1, <5>2
      <4>8. CASE InternalFails(r)
        <5>1. PICK source \in {"Internal", "Unset"} :
                FailToProxy(r, Err("InternalError", source, 0), "internal")
          BY <4>8 DEF InternalFails
        <5>2. Err("InternalError", source, 0) \in Errors /\ "internal" \in Causes \ {"none"}
          BY DEF Errors, Causes
        <5>3. QED
          BY <3>2, <4>2, <5>1, <5>2
      <4>9. CASE RefusalCut(r)
        <5>1. PICK e \in Errors : FailToProxy(r, e, "refusal_failed")
          BY <4>9, RefusalFailsWith DEF RefusalCut
        <5>2. "refusal_failed" \in Causes \ {"none"}
          BY DEF Causes
        <5>3. QED
          BY <3>2, <4>2, <5>1, <5>2
      <4>10. QED
        BY <2>1, <4>4, <4>5, <4>6, <4>7, <4>8, <4>9 DEF Step
    <3>3. QED
      BY <3>1, <3>2
  <2>2. ASSUME NEW b \in Backends, Flip(b) PROVE status'[q] = status[q]
    BY <2>2 DEF Flip
  <2>3. CASE Tick
    BY <2>3 DEF Tick, ctxVars
  <2>4. QED
    BY <2>1, <2>2, <2>3 DEF Next, Step
<1>2. QED
  BY <1>1, ProxyInvariant, PTL DEF Spec, OneStatus

-----------------------------------------------------------------------------
(* The limiter in the proxy                                                *)

\* What is proved of the limiter alone.
LimiterAlone == INSTANCE RateLimiterProofs WITH
  Keys <- Clients, KeyOf <- ClientOf, Sweepers <- {}, NumShards <- 1,
  ShardOf <- [k \in Clients |-> 1]

LEMMA SameCount == \A S : Limiter!Cardinality(S) = LimiterAlone!Cardinality(S)
  BY DEF Limiter!Cardinality, LimiterAlone!Cardinality

LEMMA ProxyCount == \A S : Cardinality(S) = LimiterAlone!Cardinality(S)
  BY DEF Cardinality, LimiterAlone!Cardinality

LEMMA SameRoom ==
  ASSUME NEW r \in Requests
  PROVE  /\ Limiter!Drained(r) = LimiterAlone!Drained(r)
         /\ Limiter!HasRoom(r) = LimiterAlone!HasRoom(r)
  BY SameCount DEF Limiter!HasRoom, LimiterAlone!HasRoom,
     Limiter!Drained, LimiterAlone!Drained, Limiter!Live, LimiterAlone!Live

\* All that a request asks of the limiter.
LEMMA StepAsks ==
  ASSUME NEW r \in Requests, Step(r)
  PROVE  \/ Limiter!Now(r) \/ Limiter!Panic(r) \/ Limiter!Allow(r) \/ Limiter!Deny(r)
         \/ UNCHANGED limiterVars
  BY DEF Step, SkipLimiter, AskLimiter, LimiterPanics, Admit, TooManyRequests,
     TooManyRequestsUnsent, RefusalSent, RefusalCut, NotFound, BadGateway, ConnectFails,
     Connected, BodyTruncated, Retry, TurnBack, UpstreamFails, ResponseHeader, ResponseEnd,
     ClientFails, InternalFails

\* The proxy calls its limiter as RateLimiter allows: once a request, the
\* clock before the lock, and never a reset.
THEOREM ProxyUsesLimiter == Spec => LimiterAlone!Spec
<1>1. Init => LimiterAlone!Init
  BY DEF Init, Limiter!Init, LimiterAlone!Init
<1>2. [Next]_vars => [LimiterAlone!Next]_(LimiterAlone!vars)
  <2> SUFFICES ASSUME [Next]_vars PROVE LimiterAlone!Next \/ UNCHANGED limiterVars
    BY DEF limiterVars, LimiterAlone!vars
  <2>1. ASSUME NEW r \in Requests, Step(r) PROVE LimiterAlone!Next \/ UNCHANGED limiterVars
    <3>1. \/ Limiter!Now(r) \/ Limiter!Panic(r) \/ Limiter!Allow(r) \/ Limiter!Deny(r)
          \/ UNCHANGED limiterVars
      BY <2>1, StepAsks
    <3>2. Limiter!Now(r) => LimiterAlone!Now(r)
      BY DEF Limiter!Now, LimiterAlone!Now
    <3>3. Limiter!Panic(r) => LimiterAlone!Panic(r)
      BY DEF Limiter!Panic, LimiterAlone!Panic
    <3>4. Limiter!Allow(r) => LimiterAlone!Allow(r)
      BY SameRoom DEF Limiter!Allow, LimiterAlone!Allow
    <3>5. Limiter!Deny(r) => LimiterAlone!Deny(r)
      BY SameRoom DEF Limiter!Deny, LimiterAlone!Deny
    <3>6. QED
      BY <3>1, <3>2, <3>3, <3>4, <3>5 DEF LimiterAlone!Next
  <2>2. ASSUME NEW b \in Backends, Flip(b) PROVE UNCHANGED limiterVars
    BY <2>2 DEF Flip
  <2>3. CASE Tick
    BY <2>3 DEF Tick, Limiter!Tick, LimiterAlone!Tick, LimiterAlone!Next
  <2>4. CASE UNCHANGED vars
    BY <2>4 DEF vars
  <2>5. QED
    BY <2>1, <2>2, <2>3, <2>4 DEF Next, Step
<1>3. QED
  BY <1>1, <1>2, PTL DEF Spec, LimiterAlone!Spec

\* Whatever its requests do, no address is let in more often than the limit
\* in a window shorter by the delay of a call.
THEOREM WindowLimitInProxy == Spec => []LimiterAlone!WindowLimit
<1>1. LimiterAlone!LimiterAssumption
  BY ProxyAssumption DEF LimiterAlone!LimiterAssumption
<1>2. QED
  BY <1>1, ProxyUsesLimiter, LimiterAlone!WindowLimitHolds

-----------------------------------------------------------------------------
(* What backends get to see of a client                                    *)

\* The requests of a client that the limit applies to, that reached a backend,
\* and that were admitted during the window.
Forwarded(k) ==
  {r \in Requests : /\ ClientOf[r] = k /\ ~Exempt(r)
                    /\ attempts[r] # <<>>
                    /\ decided[r] > clock - (Window - MaxDelay)}

ForwardsLimited == \A k \in Clients : Cardinality(Forwarded(k)) <= MaxRequests

\* The proxy never resets its limiter, so that an admission stays on record.
AdmissionsKept == \A r \in Requests : pc[r] = "allowed" => r \in log[ClientOf[r]]

LEMMA KeptOnRecord == TypeOK /\ AdmissionsKept /\ [Next]_vars => AdmissionsKept'
<1> SUFFICES ASSUME TypeOK, AdmissionsKept, [Next]_vars, NEW q \in Requests, pc'[q] = "allowed"
             PROVE  q \in log'[ClientOf[q]]
  BY DEF AdmissionsKept
<1>1. ASSUME NEW r \in Requests, Limiter!Allow(r) PROVE q \in log'[ClientOf[q]]
  <2>1. /\ pc \in [Requests -> {"idle", "timed", "allowed", "denied", "panicked"}]
        /\ log \in [Clients -> SUBSET Requests]
        /\ ClientOf \in [Requests -> Clients]
    BY ProxyAssumption DEF TypeOK, Limiter!TypeOK
  <2>2. /\ pc' = [pc EXCEPT ![r] = "allowed"]
        /\ log' = [log EXCEPT ![ClientOf[r]] = @ \cup {r}]
    BY <1>1 DEF Limiter!Allow
  <2>3. CASE q = r
    BY <2>1, <2>2, <2>3
  <2>4. CASE q # r
    <3>1. q \in log[ClientOf[q]]
      BY <2>1, <2>2, <2>4 DEF AdmissionsKept
    <3>2. QED
      BY <2>1, <2>2, <3>1
  <2>5. QED
    BY <2>3, <2>4
<1>2. ASSUME NEW r \in Requests, Limiter!Now(r) \/ Limiter!Panic(r) \/ Limiter!Deny(r)
      PROVE  q \in log'[ClientOf[q]]
  <2>1. pc \in [Requests -> {"idle", "timed", "allowed", "denied", "panicked"}]
    BY DEF TypeOK, Limiter!TypeOK
  <2>2. log' = log /\ pc[q] = "allowed"
    BY <1>2, <2>1 DEF Limiter!Now, Limiter!Panic, Limiter!Deny
  <2>3. QED
    BY <2>2 DEF AdmissionsKept
<1>3. ASSUME UNCHANGED <<pc, log>> PROVE q \in log'[ClientOf[q]]
  BY <1>3 DEF AdmissionsKept
<1>4. ASSUME NEW r \in Requests, Step(r) PROVE q \in log'[ClientOf[q]]
  <2>1. \/ Limiter!Now(r) \/ Limiter!Panic(r) \/ Limiter!Allow(r) \/ Limiter!Deny(r)
        \/ UNCHANGED limiterVars
    BY <1>4, StepAsks
  <2>2. QED
    BY <1>1, <1>2, <1>3, <2>1 DEF limiterVars
<1>5. (\E b \in Backends : Flip(b)) \/ Tick \/ UNCHANGED vars => UNCHANGED <<pc, log>>
  BY DEF Flip, Tick, Limiter!Tick, vars, limiterVars
<1>6. QED
  BY <1>3, <1>4, <1>5 DEF Next, Step

\* However a client spreads its requests, and however often they are retried,
\* no more of them than the limit allows in a window, shorter by the delay of
\* a call, ever reach a backend (request_filter in front of upstream_peer).
THEOREM BackendsAreSpared == Spec => []ForwardsLimited
<1>1. LimiterAlone!LimiterAssumption
  BY ProxyAssumption DEF LimiterAlone!LimiterAssumption
<1>2. Spec => []LimiterAlone!IInv
  BY <1>1, ProxyUsesLimiter, LimiterAlone!IInvHolds
<1>3. Init => AdmissionsKept
  BY DEF Init, Limiter!Init, AdmissionsKept
<1>4. IInv => TypeOK
  BY DEF IInv
<1>5. Spec => []AdmissionsKept
  BY <1>3, <1>4, KeptOnRecord, ProxyInvariant, PTL DEF Spec
<1>6. IInv /\ AdmissionsKept /\ LimiterAlone!IInv /\ LimiterAlone!WindowLimit => ForwardsLimited
  <2> SUFFICES ASSUME IInv, AdmissionsKept, LimiterAlone!IInv, LimiterAlone!WindowLimit,
                      NEW k \in Clients
               PROVE  Cardinality(Forwarded(k)) <= MaxRequests
    BY DEF ForwardsLimited
  <2> DEFINE admitted == LimiterAlone!Admitted(k, Window - MaxDelay)
  <2>1. \A r \in Requests : attempts[r] # <<>> /\ ~Exempt(r) => pc[r] = "allowed"
    BY IInvIsFits DEF Fits, StageFits, Passed
  <2>2. Forwarded(k) \subseteq admitted
    BY <2>1 DEF Forwarded, AdmissionsKept, LimiterAlone!Admitted
  <2>3. IsFiniteSet(log[k])
    BY DEF LimiterAlone!IInv, LimiterAlone!DequeBounded, LimiterAlone!IsFiniteSet, IsFiniteSet
  <2>4. admitted \subseteq log[k]
    BY DEF LimiterAlone!Admitted
  <2>5. IsFiniteSet(admitted)
    BY <2>3, <2>4, FS_Subset
  <2>6. Cardinality(admitted) <= MaxRequests
    BY ProxyCount DEF LimiterAlone!WindowLimit
  <2>7. /\ Cardinality(Forwarded(k)) <= Cardinality(admitted)
        /\ Cardinality(admitted) \in Nat /\ Cardinality(Forwarded(k)) \in Nat
    BY <2>2, <2>5, FS_Subset, FS_CardinalityType
  <2>8. QED
    BY <2>6, <2>7, ProxyAssumption
<1>7. QED
  BY <1>2, <1>5, <1>6, ProxyInvariant, WindowLimitInProxy, PTL

-----------------------------------------------------------------------------
(* The promise: SimpleProxy implements Exchange                            *)

\* What Promise is told of the stage of each request.
Over == [r \in Requests |-> stage[r] = "done"]

LEMMA LimitCounts ==
  \A S : Promise!Limit!Cardinality(S) = LimiterAlone!Abstract!Cardinality(S)
  BY DEF Promise!Limit!Cardinality, LimiterAlone!Abstract!Cardinality

LEMMA LimitVerdict == Limiter!Verdict = LimiterAlone!Verdict /\ Limiter!Verdict' = LimiterAlone!Verdict'
  BY DEF Limiter!Verdict, LimiterAlone!Verdict

\* What the limiter answers is what the window of Exchange answers.
LEMMA LimitAnswers ==
  ASSUME LimiterAlone!IInv, NEW r \in Requests
  PROVE  /\ Limiter!Allow(r) => Promise!Limit!Admit(r)
         /\ Limiter!Deny(r) => Promise!Limit!Refuse(r)
         /\ Limiter!Panic(r) => Promise!Limit!Abort(r)
<1>1. LimiterAlone!LimiterAssumption
  BY ProxyAssumption DEF LimiterAlone!LimiterAssumption
<1>2. ASSUME Limiter!Allow(r) PROVE Promise!Limit!Admit(r)
  <2>1. LimiterAlone!Allow(r)
    BY <1>2, SameRoom DEF Limiter!Allow, LimiterAlone!Allow
  <2>2. LimiterAlone!Abstract!Admit(r)
    BY <1>1, <2>1, LimiterAlone!AllowImplements
  <2>3. QED
    BY <2>2, LimitCounts, LimitVerdict
    DEF Promise!Limit!Admit, LimiterAlone!Abstract!Admit, Promise!Limit!Within, LimiterAlone!Abstract!Within
<1>3. ASSUME Limiter!Deny(r) PROVE Promise!Limit!Refuse(r)
  <2>1. LimiterAlone!Deny(r)
    BY <1>3, SameRoom DEF Limiter!Deny, LimiterAlone!Deny
  <2>2. LimiterAlone!Abstract!Refuse(r)
    BY <1>1, <2>1, LimiterAlone!DenyImplements
  <2>3. QED
    BY <2>2, LimitCounts, LimitVerdict
    DEF Promise!Limit!Refuse, LimiterAlone!Abstract!Refuse, Promise!Limit!Within, LimiterAlone!Abstract!Within
<1>4. ASSUME Limiter!Panic(r) PROVE Promise!Limit!Abort(r)
  <2>1. LimiterAlone!Panic(r) /\ pc[r] = "idle" /\ pc' = [pc EXCEPT ![r] = "panicked"]
    BY <1>4 DEF Limiter!Panic, LimiterAlone!Panic
  <2>2. LimiterAlone!TypeOK
    BY DEF LimiterAlone!IInv
  <2>3. /\ LimiterAlone!Verdict[r] = "pending"
        /\ LimiterAlone!Verdict' = [LimiterAlone!Verdict EXCEPT ![r] = "panicked"]
    BY <1>1, <2>1, <2>2, LimiterAlone!VerdictOf
  <2>4. QED
    BY <1>4, <2>3, LimitVerdict DEF Limiter!Panic, Promise!Limit!Abort
<1>5. QED
  BY <1>2, <1>3, <1>4

LEMMA AskedStays == input' = input => Asked' = Asked
  BY DEF Asked, Exempt, Known, Named

LEMMA AskedIs ==
  ASSUME NEW r \in Requests
  PROVE  /\ Asked[r].limited <=> ~Exempt(r)
         /\ Asked[r].server = IF Known(r) THEN Named(r) ELSE NoRoute
  BY DEF Asked

\* A request is over when its stage is "done", and not before.
LEMMA OverMoves ==
  ASSUME TypeOK, NEW r \in Requests, NEW here, stage' = [stage EXCEPT ![r] = here]
  PROVE  /\ Over[r] <=> stage[r] = "done"
         /\ here = "done" => Over' = [Over EXCEPT ![r] = TRUE]
         /\ here # "done" /\ stage[r] # "done" => Over' = Over
<1>1. \A q \in Requests : stage'[q] = IF q = r THEN here ELSE stage[q]
  BY DEF TypeOK
<1>2. Over[r] <=> stage[r] = "done"
  BY DEF Over
<1>3. ASSUME here = "done" PROVE Over' = [Over EXCEPT ![r] = TRUE]
  <2>1. \A q \in Requests : (stage'[q] = "done") = [Over EXCEPT ![r] = TRUE][q]
    BY <1>1, <1>3 DEF Over
  <2>2. QED
    BY <2>1 DEF Over
<1>4. ASSUME here # "done", stage[r] # "done" PROVE Over' = Over
  <2>1. \A q \in Requests : (stage'[q] = "done") = (stage[q] = "done")
    BY <1>1, <1>4
  <2>2. QED
    BY <2>1 DEF Over
<1>5. QED
  BY <1>2, <1>3, <1>4

\* A request ends for its client as it ends in the proxy.
LEMMA Ends ==
  ASSUME TypeOK, NEW r \in Requests, NEW s,
         stage' = [stage EXCEPT ![r] = "done"], status' = [status EXCEPT ![r] = s],
         UNCHANGED <<input, attempts>>
  PROVE  Promise!End(r, s)
  BY OverMoves, AskedStays DEF Promise!End, Over

\* Nothing is seen of what the hooks do with a request that is not over.
LEMMA Unseen ==
  ASSUME TypeOK, NEW r \in Requests, NEW here, here # "done", stage[r] # "done",
         stage' = [stage EXCEPT ![r] = here], UNCHANGED <<input, attempts, status>>
  PROVE  UNCHANGED Promise!exchange
  BY OverMoves, AskedStays DEF Promise!exchange, Over

LEMMA WindowStays == UNCHANGED limiterVars => UNCHANGED Promise!window
  BY DEF limiterVars, Promise!window, Limiter!Verdict

\* A request that was let pass and has no response yet.
LEMMA Proceeds ==
  ASSUME IInv, NEW r \in Requests, stage[r] \in {"filtered", "sent"}
  PROVE  /\ Promise!Unheard(r)
         /\ route[r] = Asked[r].server
<1>1. TypeOK /\ Fits(r)
  BY IInvIsFits
<1>2. Passed(r) /\ status[r] = 0 /\ cause[r] = "none" /\ stage[r] # "done"
  BY <1>1 DEF Fits, StageFits
<1>3. Asked[r].limited => Limiter!Verdict[r] = "allowed"
  BY <1>2, AskedIs DEF Passed, Limiter!Verdict
<1>4. route[r] = Asked[r].server
  BY <1>1, AskedIs DEF Fits, RouteFits
<1>5. QED
  BY <1>2, <1>3, <1>4 DEF Promise!Unheard

\* An error that ends a request whose response has not begun is answered with
\* a status that tells the reason; later it only ends the response.
LEMMA FailureTold ==
  ASSUME IInv, NEW r \in Requests, stage[r] \in {"refused", "filtered", "sent", "responding"},
         NEW e, NEW why, FailToProxy(r, e, why), UNCHANGED limiterVars,
         stage[r] \in {"filtered", "sent"} => Code(e) \in {0} \cup Promise!Reasons(r)
  PROVE  Promise!Close(r) \/ Promise!Explain(r)
<1>1. TypeOK /\ Fits(r)
  BY IInvIsFits
<1>2. PICK s \in Answered(r, e) : status' = [status EXCEPT ![r] = s]
  BY DEF FailToProxy
<1>3. Promise!End(r, s)
  BY <1>1, <1>2, Ends DEF FailToProxy
<1>4. UNCHANGED Promise!window
  BY WindowStays
<1>5. CASE stage[r] \in {"refused", "responding"}
  <2>1. status[r] # 0 /\ s = status[r]
    BY <1>1, <1>2, <1>5 DEF Fits, StageFits, Answered
  <2>2. QED
    <3>1. ~Over[r]
      BY <1>5 DEF Over
    <3>2. Promise!End(r, status[r])
      BY <1>3, <2>1 DEF Promise!End
    <3>3. QED
      BY <1>4, <2>1, <3>1, <3>2 DEF Promise!Close, Over
<1>6. CASE stage[r] \in {"filtered", "sent"}
  <2>1. status[r] = 0
    BY <1>1, <1>6 DEF Fits, StageFits
  <2>2. s \in {0} \cup Promise!Reasons(r)
    BY <1>2, <1>6, <2>1 DEF Answered
  <2>3. Promise!Unheard(r)
    BY <1>6, Proceeds
  <2>4. QED
    BY <1>3, <1>4, <2>2, <2>3 DEF Promise!Explain
<1>7. QED
  BY <1>5, <1>6

LEMMA NotFoundTold ==
  ASSUME IInv, NEW r \in Requests, NotFound(r)
  PROVE  Promise!Explain(r) \/ Promise!Close(r)
<1>1. Asked[r].server = NoRoute
  BY Proceeds DEF NotFound
<1>2. Code(HttpStatus(404)) = 404
  BY DEF Code, HttpStatus, Err
<1>3. 404 \in Promise!Reasons(r)
  BY <1>1 DEF Promise!Reasons
<1>4. QED
  BY <1>2, <1>3, FailureTold DEF NotFound

\* Without a backend, or a connection to it, the answer is a 502.
LEMMA BadGatewayIsReason ==
  ASSUME IInv, NEW r \in Requests, stage[r] \in {"filtered", "sent"}, route[r] # NoRoute
  PROVE  502 \in Promise!Reasons(r)
<1>1. Asked[r].server # NoRoute
  BY Proceeds
<1>2. QED
  BY <1>1 DEF Promise!Reasons

LEMMA BadGatewayTold ==
  ASSUME IInv, NEW r \in Requests, BadGateway(r)
  PROVE  Promise!Explain(r) \/ Promise!Close(r)
<1>1. Code(HttpStatus(502)) = 502
  BY DEF Code, HttpStatus, Err
<1>2. 502 \in Promise!Reasons(r)
  BY BadGatewayIsReason DEF BadGateway
<1>3. QED
  BY <1>1, <1>2, FailureTold DEF BadGateway

LEMMA ConnectFailsTold ==
  ASSUME IInv, NEW r \in Requests, ConnectFails(r)
  PROVE  Promise!Explain(r) \/ Promise!Close(r)
<1>1. Code(Err("ConnectError", "Upstream", 0)) = 502
  BY DEF Code, Err
<1>2. 502 \in Promise!Reasons(r)
  BY BadGatewayIsReason DEF ConnectFails
<1>3. QED
  BY <1>1, <1>2, FailureTold DEF ConnectFails

\* A request that was sent has a backend, hence a route.
LEMMA SentSomewhere ==
  ASSUME IInv, NEW r \in Requests, stage[r] \in {"sent", "responding"}
  PROVE  attempts[r] # <<>> /\ route[r] # NoRoute
<1>1. TypeOK /\ Fits(r)
  BY IInvIsFits
<1>2. attempts[r] # <<>> /\ attempts[r] \in Seq(Attempt)
  BY <1>1 DEF Fits, StageFits, TypeOK
<1>3. 1 \in 1 .. Len(attempts[r])
  BY <1>2
<1>4. Known(r)
  BY <1>1, <1>3 DEF Fits, OnRoute
<1>5. route[r] = Named(r) /\ Named(r) \in ServerNames
  BY <1>1, <1>4 DEF Fits, RouteFits, Known
<1>6. QED
  BY <1>2, <1>5, ProxyAssumption

LEMMA UpstreamFailsTold ==
  ASSUME IInv, NEW r \in Requests, UpstreamFails(r)
  PROVE  Promise!Explain(r) \/ Promise!Close(r)
<1>1. Code(Err("ReadError", "Upstream", 0)) = 502
  BY DEF Code, Err
<1>2. stage[r] \in {"filtered", "sent"} => 502 \in Promise!Reasons(r)
  BY SentSomewhere, BadGatewayIsReason DEF UpstreamFails
<1>3. QED
  BY <1>1, <1>2, FailureTold DEF UpstreamFails

LEMMA ClientFailsTold ==
  ASSUME IInv, NEW r \in Requests, ClientFails(r)
  PROVE  Promise!Explain(r) \/ Promise!Close(r)
<1>1. PICK type \in DeadConnection \cup {"InvalidHTTPHeader"} :
        FailToProxy(r, Err(type, "Downstream", 0),
                    IF type \in DeadConnection THEN "client_gone" ELSE "bad_request")
  BY DEF ClientFails
<1>2. Code(Err(type, "Downstream", 0)) \in {0, 400}
  BY <1>1 DEF Code, Err, DeadConnection
<1>3. 400 \in Promise!Reasons(r)
  BY SentSomewhere DEF ClientFails, Promise!Reasons
<1>4. QED
  BY <1>1, <1>2, <1>3, FailureTold DEF ClientFails

LEMMA InternalFailsTold ==
  ASSUME IInv, NEW r \in Requests, InternalFails(r)
  PROVE  Promise!Explain(r) \/ Promise!Close(r)
<1>1. PICK source \in {"Internal", "Unset"} :
        FailToProxy(r, Err("InternalError", source, 0), "internal")
  BY DEF InternalFails
<1>2. Code(Err("InternalError", source, 0)) = 500
  BY <1>1 DEF Code, Err
<1>3. 500 \in Promise!Reasons(r)
  BY DEF Promise!Reasons
<1>4. QED
  BY <1>1, <1>2, <1>3, FailureTold DEF InternalFails

\* The request is out at a backend when its last attempt has no error yet.
LEMMA OpenIs ==
  ASSUME IInv, NEW r \in Requests
  PROVE  /\ stage[r] = "sent" => Promise!Open(r)
         /\ stage[r] = "filtered" => ~Promise!Open(r)
  BY IInvIsFits DEF Fits, StageFits, AttemptsFit, Promise!Open, Promise!Last

\* Every attempt is one that Exchange allows.
LEMMA ConnectedSends ==
  ASSUME IInv, NEW r \in Requests, Connected(r)
  PROVE  Promise!Send(r)
<1>1. TypeOK /\ Fits(r) /\ stage[r] = "filtered" /\ route[r] # NoRoute
  BY IInvIsFits DEF Connected
<1>2. Promise!Unheard(r) /\ route[r] = Asked[r].server /\ ~Promise!Open(r)
  BY <1>1, Proceeds, OpenIs
<1>3. Len(attempts[r]) <= MaxRetries
  BY <1>1 DEF Fits, AttemptsFit
<1>4. ~truncated[r] \/ (attempts[r] # <<>> /\ Promise!Last(r).error = "refused")
  BY <1>1 DEF Fits, AttemptsFit, Promise!Last
<1>5. truncated[r] \in BOOLEAN
  BY <1>1 DEF TypeOK
<1>6. \E b \in BackendsOf[Asked[r].server], pooled \in BOOLEAN, whole \in BOOLEAN :
        /\ whole \/ (attempts[r] # <<>> /\ Promise!Last(r).error = "refused")
        /\ attempts' = [attempts EXCEPT ![r] = Append(@,
             [backend |-> b, reused |-> pooled, whole |-> whole, error |-> "none"])]
  <2>1. PICK b \in Selectable(r), pooled \in BOOLEAN :
          attempts' = [attempts EXCEPT ![r] = Append(@,
             [backend |-> b, reused |-> pooled, whole |-> ~truncated[r], error |-> "none"])]
    BY DEF Connected
  <2>2. b \in BackendsOf[Asked[r].server] /\ (~truncated[r]) \in BOOLEAN
    BY <1>2, <1>5 DEF Selectable
  <2>3. QED
    BY <1>4, <2>1, <2>2
<1>7. UNCHANGED Promise!window /\ Asked' = Asked /\ status' = status
  BY WindowStays, AskedStays DEF Connected
<1>8. Over' = Over
  <2>1. stage' = [stage EXCEPT ![r] = "sent"] /\ stage[r] # "done"
    BY <1>1 DEF Connected
  <2>2. TypeOK
    BY <1>1
  <2>3. QED
    BY <2>1, <2>2, OverMoves
<1>9. QED
  BY <1>1, <1>2, <1>3, <1>6, <1>7, <1>8 DEF Promise!Send, Over

\* A request turns back for an error that Exchange allows.
LEMMA RetryFails ==
  ASSUME IInv, NEW r \in Requests, Retry(r)
  PROVE  Promise!Fail(r)
<1>1. TypeOK /\ Fits(r) /\ stage[r] = "sent"
  BY IInvIsFits DEF Retry
<1>2. PICK error \in {"refused", "broken"} : TurnBack(r, error)
  BY DEF Retry
<1>3. Promise!Unheard(r) /\ Promise!Open(r)
  BY <1>1, Proceeds, OpenIs
<1>4. error = "broken" => Promise!Last(r).reused
  BY <1>1, <1>2 DEF TurnBack, Retries, Reusable, Fits, AttemptsFit, Promise!Last
<1>5. attempts' = [attempts EXCEPT ![r][Len(attempts[r])].error = error]
  BY <1>2 DEF TurnBack
<1>6. UNCHANGED Promise!window /\ Asked' = Asked /\ status' = status
  BY <1>2, WindowStays, AskedStays DEF TurnBack
<1>7. Over' = Over
  <2>1. stage' = [stage EXCEPT ![r] = "filtered"] /\ stage[r] # "done"
    BY <1>1, <1>2 DEF TurnBack
  <2>2. TypeOK
    BY <1>1
  <2>3. QED
    BY <2>1, <2>2, OverMoves
<1>8. QED
  BY <1>3, <1>4, <1>5, <1>6, <1>7 DEF Promise!Fail, Over

LEMMA ResponseIsPromised ==
  ASSUME IInv, NEW r \in Requests
  PROVE  /\ ResponseHeader(r) => Promise!Respond(r)
         /\ ResponseEnd(r) \/ RefusalSent(r) => Promise!Close(r)
<1>1. TypeOK /\ Fits(r)
  BY IInvIsFits
<1>2. ASSUME ResponseHeader(r) PROVE Promise!Respond(r)
  <2>1. Promise!Unheard(r) /\ Promise!Open(r)
    BY <1>2, Proceeds, OpenIs DEF ResponseHeader
  <2>2. UNCHANGED Promise!window /\ Asked' = Asked
    BY <1>2, WindowStays, AskedStays DEF ResponseHeader
  <2>3. Over' = Over
    <3>1. stage' = [stage EXCEPT ![r] = "responding"] /\ stage[r] # "done"
      BY <1>2 DEF ResponseHeader
    <3>2. QED
      BY <1>1, <3>1, OverMoves
  <2>4. QED
    BY <1>2, <2>1, <2>2, <2>3 DEF ResponseHeader, Promise!Respond, Over
<1>3. ASSUME ResponseEnd(r) \/ RefusalSent(r) PROVE Promise!Close(r)
  <2>1. /\ status[r] # 0 /\ stage[r] # "done"
        /\ status' = [status EXCEPT ![r] = status[r]]
    BY <1>1, <1>3 DEF Fits, StageFits, ResponseEnd, RefusalSent, TypeOK
  <2>2. Promise!End(r, status[r])
    <3>1. PICK s : s = status[r]
      OBVIOUS
    <3>2. /\ stage' = [stage EXCEPT ![r] = "done"]
          /\ UNCHANGED <<input, attempts>>
      BY <1>3 DEF ResponseEnd, RefusalSent
    <3>3. TypeOK /\ status' = [status EXCEPT ![r] = s]
      BY <1>1, <2>1, <3>1
    <3>4. Promise!End(r, s)
      BY <3>2, <3>3, Ends
    <3>5. QED
      BY <3>1, <3>4 DEF Promise!End
  <2>3. UNCHANGED Promise!window
    BY <1>3, WindowStays DEF ResponseEnd, RefusalSent
  <2>4. QED
    BY <2>1, <2>2, <2>3 DEF Promise!Close
<1>4. QED
  BY <1>2, <1>3

LEMMA AskingUnseen ==
  ASSUME IInv, NEW r \in Requests
  PROVE  /\ SkipLimiter(r) => UNCHANGED Promise!vars
         /\ AskLimiter(r) => UNCHANGED Promise!vars
         /\ BodyTruncated(r) => UNCHANGED Promise!vars
<1>1. TypeOK
  BY DEF IInv
<1>2. ASSUME SkipLimiter(r) PROVE UNCHANGED Promise!vars
  <2>1. /\ stage[r] # "done" /\ stage' = [stage EXCEPT ![r] = "filtered"]
        /\ UNCHANGED <<input, attempts, status>> /\ UNCHANGED limiterVars
    BY <1>2 DEF SkipLimiter, Routed
  <2>2. UNCHANGED Promise!exchange
    BY <1>1, <2>1, Unseen
  <2>3. QED
    BY <2>1, <2>2, WindowStays DEF Promise!vars
<1>3. ASSUME AskLimiter(r) PROVE UNCHANGED Promise!vars
  <2>1. /\ stage[r] # "done" /\ stage' = [stage EXCEPT ![r] = "limiter"]
        /\ UNCHANGED <<input, attempts, status>>
    BY <1>3 DEF AskLimiter
  <2>2. UNCHANGED Promise!exchange
    BY <1>1, <2>1, Unseen
  <2>3. pc[r] = "idle" /\ pc' = [pc EXCEPT ![r] = "timed"] /\ UNCHANGED <<clock, log, decided>>
    BY <1>3 DEF AskLimiter, Limiter!Now
  <2>4. Limiter!Verdict' = Limiter!Verdict
    BY <1>1, <2>3 DEF TypeOK, Limiter!TypeOK, Limiter!Verdict
  <2>5. QED
    BY <2>2, <2>3, <2>4 DEF Promise!vars, Promise!window
<1>4. ASSUME BodyTruncated(r) PROVE UNCHANGED Promise!vars
  <2>1. UNCHANGED <<input, stage, attempts, status>> /\ UNCHANGED limiterVars
    BY <1>4 DEF BodyTruncated
  <2>2. QED
    BY <2>1, WindowStays, AskedStays DEF Promise!vars, Promise!exchange
<1>5. QED
  BY <1>2, <1>3, <1>4

LEMMA AnswerIsPromised ==
  ASSUME IInv, LimiterAlone!IInv, NEW r \in Requests
  PROVE  /\ Admit(r) => Promise!Admit(r)
         /\ TooManyRequests(r) \/ TooManyRequestsUnsent(r) => Promise!Refuse(r)
         /\ LimiterPanics(r) => Promise!Abort(r)
<1>1. TypeOK /\ Fits(r)
  BY IInvIsFits
<1>2. stage[r] = "limiter" => Asked[r].limited /\ status[r] = 0
  BY <1>1, AskedIs DEF Fits, StageFits
<1>3. ASSUME Admit(r) PROVE Promise!Admit(r)
  <2>1. /\ stage[r] = "limiter" /\ stage' = [stage EXCEPT ![r] = "filtered"]
        /\ UNCHANGED <<input, attempts, status>>
    BY <1>3 DEF Admit, Routed
  <2>2. UNCHANGED Promise!exchange
    BY <1>1, <2>1, Unseen
  <2>3. Promise!Limit!Admit(r)
    BY <1>3, LimitAnswers DEF Admit
  <2>4. QED
    BY <1>2, <2>1, <2>2, <2>3 DEF Promise!Admit
<1>4. ASSUME TooManyRequests(r) PROVE Promise!Refuse(r)
  <2>1. /\ stage[r] = "limiter" /\ Promise!Limit!Refuse(r)
        /\ stage' = [stage EXCEPT ![r] = "refused"]
        /\ status' = [status EXCEPT ![r] = 429]
        /\ UNCHANGED <<input, attempts>>
    BY <1>4, LimitAnswers DEF TooManyRequests
  <2>2. Over' = Over
    <3>1. stage' = [stage EXCEPT ![r] = "refused"] /\ stage[r] # "done"
      BY <2>1
    <3>2. QED
      BY <1>1, <3>1, OverMoves
  <2>3. QED
    BY <1>2, <2>1, <2>2, AskedStays DEF Promise!Refuse, Over
<1>5. ASSUME TooManyRequestsUnsent(r) PROVE Promise!Refuse(r)
  <2>1. stage[r] = "limiter" /\ Promise!Limit!Refuse(r)
    BY <1>5, LimitAnswers DEF TooManyRequestsUnsent
  <2>2. PICK e \in Errors : Code(e) \in {0, 500} /\ FailToProxy(r, e, "refusal_failed")
    BY <1>5, RefusalFailsWith DEF TooManyRequestsUnsent
  <2>3. PICK s \in {0, 500} :
          /\ stage' = [stage EXCEPT ![r] = "done"]
          /\ status' = [status EXCEPT ![r] = s]
          /\ UNCHANGED <<input, attempts>>
    <3>1. Answered(r, e) \subseteq {0, 500}
      BY <1>2, <2>1, <2>2 DEF Answered
    <3>2. PICK s \in Answered(r, e) : status' = [status EXCEPT ![r] = s]
      BY <2>2 DEF FailToProxy
    <3>3. stage' = [stage EXCEPT ![r] = "done"] /\ UNCHANGED <<input, attempts>>
      BY <2>2 DEF FailToProxy
    <3>4. s \in {0, 500}
      BY <3>1, <3>2
    <3>5. QED
      BY <3>2, <3>3, <3>4, Zenon
  <2>4. Promise!End(r, s)
    BY <1>1, <2>3, Ends
  <2>5. QED
    BY <1>2, <2>1, <2>4 DEF Promise!Refuse
<1>6. ASSUME LimiterPanics(r) PROVE Promise!Abort(r)
  <2>1. /\ stage[r] = "new" /\ Promise!Limit!Abort(r) /\ ~Exempt(r)
        /\ stage' = [stage EXCEPT ![r] = "done"]
        /\ UNCHANGED <<input, attempts, status>>
    BY <1>6, LimitAnswers DEF LimiterPanics
  <2>2. status' = [status EXCEPT ![r] = 0]
    BY <1>1, <2>1 DEF Fits, StageFits, TypeOK
  <2>3. Promise!End(r, 0)
    BY <1>1, <2>1, <2>2, Ends
  <2>4. QED
    BY <2>1, <2>3, AskedIs DEF Promise!Abort
<1>7. QED
  BY <1>3, <1>4, <1>5, <1>6

\* A refusal that breaks off has its status, and ends.
LEMMA RefusalCutTold ==
  ASSUME IInv, NEW r \in Requests, RefusalCut(r)
  PROVE  Promise!Explain(r) \/ Promise!Close(r)
<1>1. PICK e \in Errors : FailToProxy(r, e, "refusal_failed")
  BY RefusalFailsWith DEF RefusalCut
<1>2. stage[r] = "refused" /\ UNCHANGED limiterVars
  BY DEF RefusalCut
<1>3. QED
  BY <1>1, <1>2, FailureTold

LEMMA StepIsPromised ==
  ASSUME IInv, LimiterAlone!IInv, [Next]_vars
  PROVE  [Promise!Next]_(Promise!vars)
<1>1. ASSUME NEW r \in Requests, Step(r) PROVE [Promise!Next]_(Promise!vars)
  <2>1. \/ Promise!Admit(r) \/ Promise!Refuse(r) \/ Promise!Abort(r)
        \/ Promise!Send(r) \/ Promise!Fail(r) \/ Promise!Respond(r) \/ Promise!Close(r) \/ Promise!Explain(r)
        \/ UNCHANGED Promise!vars
    BY <1>1, AskingUnseen, AnswerIsPromised, ConnectedSends, RetryFails, ResponseIsPromised,
       RefusalCutTold, NotFoundTold, BadGatewayTold, ConnectFailsTold, UpstreamFailsTold,
       ClientFailsTold, InternalFailsTold DEF Step
  <2>2. QED
    BY <2>1 DEF Promise!Next
<1>2. ASSUME NEW b \in Backends, Flip(b) PROVE UNCHANGED Promise!vars
  <2>1. UNCHANGED <<input, stage, attempts, status>> /\ UNCHANGED limiterVars
    BY <1>2 DEF Flip
  <2>2. QED
    BY <2>1, WindowStays, AskedStays DEF Promise!vars, Promise!exchange
<1>3. ASSUME Tick PROVE Promise!Tick
  <2>1. UNCHANGED <<input, stage, attempts, status>> /\ Limiter!Tick
    BY <1>3 DEF Tick, ctxVars
  <2>2. UNCHANGED Promise!exchange
    BY <2>1, AskedStays DEF Promise!exchange
  <2>3. Promise!Limit!Tick
    BY <2>1 DEF Limiter!Tick, Promise!Limit!Tick, Limiter!Verdict
  <2>4. QED
    BY <2>2, <2>3 DEF Promise!Tick
<1>4. ASSUME UNCHANGED vars PROVE UNCHANGED Promise!vars
  <2>1. UNCHANGED <<input, stage, attempts, status>> /\ UNCHANGED limiterVars
    BY <1>4 DEF vars, ctxVars
  <2>2. QED
    BY <2>1, WindowStays, AskedStays DEF Promise!vars, Promise!exchange
<1>5. QED
  BY <1>1, <1>2, <1>3, <1>4 DEF Next, Step, Promise!Next

LEMMA InitIsPromised == Init => Promise!Init
<1> SUFFICES ASSUME Init PROVE Promise!Init
  OBVIOUS
<1>1. Promise!Limit!Init
  BY DEF Init, Limiter!Init, Promise!Limit!Init, Limiter!Verdict
<1>2. Asked \in [Requests -> Promise!Question]
  <2>1. \A r \in Requests : (IF Known(r) THEN Named(r) ELSE NoRoute) \in ServerNames \cup {NoRoute}
    BY DEF Known
  <2>2. QED
    BY <2>1 DEF Asked, Promise!Question, Exempt
<1>3. Over = [r \in Requests |-> FALSE]
  BY DEF Init, Over
<1>4. QED
  BY <1>1, <1>2, <1>3 DEF Init, Promise!Init, Over

\* Of any number of requests, from any clients to any servers, with or without
\* failures: what a client and a backend see of them is what Exchange allows.
THEOREM ProxyKeepsPromise == Spec => ImplementsExchange
<1>1. LimiterAlone!LimiterAssumption
  BY ProxyAssumption DEF LimiterAlone!LimiterAssumption
<1>2. Spec => []LimiterAlone!IInv
  BY <1>1, ProxyUsesLimiter, LimiterAlone!IInvHolds
<1>3. IInv /\ LimiterAlone!IInv /\ [Next]_vars => [Promise!Next]_(Promise!vars)
  BY StepIsPromised
<1>4. QED
  BY <1>2, <1>3, InitIsPromised, ProxyInvariant, PTL DEF Spec, ImplementsExchange, Promise!Spec

=============================================================================
