------------------------------ MODULE Exchange ------------------------------
(***************************************************************************)
(* What the proxy promises of every request, told by what its client and   *)
(* the backends see and without the hooks, the context, the connections    *)
(* and the flags by which SimpleProxy (src/src/proxy/simple_proxy.rs)      *)
(* keeps it:                                                               *)
(*                                                                         *)
(*   - a request that is limited goes nowhere before the sliding window of *)
(*     its client has admitted it, and never when it was refused;          *)
(*   - it is sent to backends of the server it names, and again only when  *)
(*     the backend before refused it, or a reused connection broke, and    *)
(*     while the client has heard nothing;                                 *)
(*   - the client gets one status, and one that tells what happened.       *)
(***************************************************************************)
EXTENDS Integers, Sequences

CONSTANTS
  Requests, Clients, ClientOf,         \* requests and who makes them
  ServerNames, BackendsOf,             \* the servers and their backends
  NoRoute,                             \* no server is named
  MaxRequests, Window, Slack, MaxClock,   \* see SlidingWindow
  MaxRetries                           \* attempts beyond the first

VARIABLES
  clock, verdict, log, decided,        \* the sliding window
  asked,     \* of each request: is it limited, and its server
  attempts,  \* where and how it was sent, and what it was sent again for
  status,    \* what the client got, 0 when nothing
  over       \* is the proxy done with it?

Limit == INSTANCE SlidingWindow WITH Keys <- Clients, KeyOf <- ClientOf

window == <<clock, verdict, log, decided>>
exchange == <<asked, attempts, status, over>>
vars == <<window, exchange>>

Question == [limited : BOOLEAN, server : ServerNames \cup {NoRoute}]

Init ==
  /\ Limit!Init
  /\ asked \in [Requests -> Question]
  /\ attempts = [r \in Requests |-> <<>>]
  /\ status = [r \in Requests |-> 0]
  /\ over = [r \in Requests |-> FALSE]

\* The proxy is done with the request; the client is left with status s.
End(r, s) ==
  /\ over' = [over EXCEPT ![r] = TRUE]
  /\ status' = [status EXCEPT ![r] = s]
  /\ UNCHANGED <<asked, attempts>>

Admit(r) ==
  /\ asked[r].limited
  /\ Limit!Admit(r)
  /\ UNCHANGED exchange

\* A refusal: the client is told, or cannot be, or not why.
Refuse(r) ==
  /\ asked[r].limited
  /\ Limit!Refuse(r)
  /\ \/ /\ status' = [status EXCEPT ![r] = 429]
        /\ UNCHANGED <<asked, attempts, over>>
     \/ \E s \in {0, 500} : End(r, s)

Abort(r) ==
  /\ asked[r].limited
  /\ Limit!Abort(r)
  /\ End(r, 0)

\* The request may proceed, and the client has heard nothing so far.
Unheard(r) ==
  /\ asked[r].limited => verdict[r] = "allowed"
  /\ ~over[r]
  /\ status[r] = 0

Last(r) == attempts[r][Len(attempts[r])]

\* The request is out at a backend.
Open(r) == attempts[r] # <<>> /\ Last(r).error = "none"

\* The backend refuses the request, or the connection to it breaks, a reused
\* one; the request is to be sent again.
Fail(r) ==
  /\ Unheard(r)
  /\ Open(r)
  /\ \E error \in {"refused", "broken"} :
       /\ error = "broken" => Last(r).reused
       /\ attempts' = [attempts EXCEPT ![r][Len(attempts[r])].error = error]
  /\ UNCHANGED <<window, asked, status, over>>

\* The request is sent, from its beginning unless it was refused.
Send(r) ==
  /\ Unheard(r)
  /\ ~Open(r)
  /\ Len(attempts[r]) <= MaxRetries
  /\ asked[r].server # NoRoute
  /\ \E b \in BackendsOf[asked[r].server], pooled \in BOOLEAN, whole \in BOOLEAN :
       /\ whole \/ (attempts[r] # <<>> /\ Last(r).error = "refused")
       /\ attempts' = [attempts EXCEPT ![r] = Append(@,
            [backend |-> b, reused |-> pooled, whole |-> whole, error |-> "none"])]
  /\ UNCHANGED <<window, asked, status, over>>

\* A response begins.
Respond(r) ==
  /\ Unheard(r)
  /\ Open(r)
  /\ status' = [status EXCEPT ![r] = 200]
  /\ UNCHANGED <<window, asked, attempts, over>>

\* The response, or the refusal, ends, complete or not.
Close(r) ==
  /\ ~over[r]
  /\ status[r] # 0
  /\ End(r, status[r])
  /\ UNCHANGED window

\* The statuses that tell why there is no response.
Reasons(r) ==
  {500} \cup (IF asked[r].server = NoRoute THEN {404} ELSE {502})
        \cup (IF attempts[r] # <<>> THEN {400} ELSE {})

\* There will be no response; the client is told so, if it can be.
Explain(r) ==
  /\ Unheard(r)
  /\ \E s \in {0} \cup Reasons(r) : End(r, s)
  /\ UNCHANGED window

Tick == Limit!Tick /\ UNCHANGED exchange

Next ==
  \/ \E r \in Requests :
       \/ Admit(r) \/ Refuse(r) \/ Abort(r)
       \/ Send(r) \/ Fail(r) \/ Respond(r) \/ Close(r) \/ Explain(r)
  \/ Tick

Spec == Init /\ [][Next]_vars

=============================================================================
