--------------------------- MODULE SlidingWindow ---------------------------
(***************************************************************************)
(* What a sliding-window limiter promises, without saying how it keeps     *)
(* track: an abstract specification of RateLimiter::allow                  *)
(* (src/src/rate_limit/limiter.rs) in terms of the instants at which       *)
(* requests really were admitted.                                          *)
(*                                                                         *)
(* The promise has some Slack.  A limiter that reads its clock before it   *)
(* takes the lock of a key decides on a stale reading, so it can only      *)
(* promise the limit for windows shorter by Slack, and may refuse because  *)
(* of admissions in a window longer by Slack.  With Slack = 0 this is the  *)
(* exact sliding window.                                                   *)
(***************************************************************************)
EXTENDS Integers, FiniteSets

CONSTANTS
  Requests,      \* the calls of allow; each is decided at most once
  Keys,          \* the rate-limit keys
  KeyOf,         \* the key each request is made with
  MaxRequests,   \* admissions allowed per window and key
  Window,        \* length of the window
  Slack,         \* how far the window may be off, either way
  MaxClock       \* bound on the modelled time

VARIABLES
  clock,         \* real time
  verdict,       \* what became of each request
  log,           \* per key: the admissions not forgotten by a reset
  decided        \* when each request was decided

vars == <<clock, verdict, log, decided>>

\* The admissions of key k during the last d units of time.
Within(k, d) == {a \in log[k] : decided[a] > clock - d}

Init ==
  /\ clock = 0
  /\ verdict = [r \in Requests |-> "pending"]
  /\ log = [k \in Keys |-> {}]
  /\ decided = [r \in Requests |-> 0]

Admit(r) ==
  /\ verdict[r] = "pending"
  /\ Cardinality(Within(KeyOf[r], Window - Slack)) < MaxRequests
  /\ verdict' = [verdict EXCEPT ![r] = "allowed"]
  /\ log' = [log EXCEPT ![KeyOf[r]] = @ \cup {r}]
  /\ decided' = [decided EXCEPT ![r] = clock]
  /\ UNCHANGED clock

Refuse(r) ==
  /\ verdict[r] = "pending"
  /\ Cardinality(Within(KeyOf[r], Window + Slack)) >= MaxRequests
  /\ verdict' = [verdict EXCEPT ![r] = "denied"]
  /\ decided' = [decided EXCEPT ![r] = clock]
  /\ UNCHANGED <<clock, log>>

\* A call that fails leaves no trace in the limiter.
Abort(r) ==
  /\ verdict[r] = "pending"
  /\ verdict' = [verdict EXCEPT ![r] = "panicked"]
  /\ UNCHANGED <<clock, log, decided>>

\* An explicit reset or clear forgets the admissions of some keys; nothing
\* else does.
Forget ==
  /\ \E K \in SUBSET Keys : log' = [k \in Keys |-> IF k \in K THEN {} ELSE log[k]]
  /\ UNCHANGED <<clock, verdict, decided>>

Tick ==
  /\ clock < MaxClock
  /\ clock' = clock + 1
  /\ UNCHANGED <<verdict, log, decided>>

Next ==
  \/ \E r \in Requests : Admit(r) \/ Refuse(r) \/ Abort(r)
  \/ Forget
  \/ Tick

Spec == Init /\ [][Next]_vars

-----------------------------------------------------------------------------

\* The limit itself: whatever the interleaving, no key has more than
\* MaxRequests admissions within Window - Slack units of time.  The window
\* that ends now is enough: every other window ended at some earlier state.
WindowLimit ==
  \A k \in Keys : Cardinality(Within(k, Window - Slack)) <= MaxRequests

=============================================================================
