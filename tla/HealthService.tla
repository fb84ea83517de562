---------------------------- MODULE HealthService ---------------------------
(***************************************************************************)
(* The background health checks: HealthService::start_service of           *)
(* src/src/proxy/health.rs and the TCP checks set up by                    *)
(* RouteEntry::try_new of src/src/proxy/route.rs.                          *)
(*                                                                         *)
(* One task loops for ever: it waits for the next tick of an interval,     *)
(* visits the route entries one after another in whatever order the map    *)
(* yields them, and for each entry probes all its backends in parallel and *)
(* waits for the last probe.  Every entry keeps health flags of its own,   *)
(* also for a backend that other entries share.  A probe is a TCP connect  *)
(* with a timeout; one result is enough to change a flag.                  *)
(*                                                                         *)
(* Time is in seconds.  Only probes take time: the service is scheduled    *)
(* without delay when it has something to do.                              *)
(***************************************************************************)
EXTENDS Integers, FiniteSets

CONSTANTS
  Entries,        \* the server names of the route table
  Addresses,      \* the backends
  BackendsOf,     \* the backends of each entry
  Interval,       \* HEALTH_SERVICE_INTERVAL, 5 s in the code
  Timeout,        \* how long a probe may take, 1 s in pingora
  CheckFrequency, \* HEALTH_CHECK_INTERVAL, 1 s in the code
  MaxClock        \* bound on the modelled time

ASSUME HealthAssumption ==
  /\ IsFiniteSet(Entries)
  /\ BackendsOf \in [Entries -> SUBSET Addresses]
  /\ Interval \in Nat \ {0}
  /\ Timeout \in Nat
  /\ CheckFrequency \in Nat
  /\ MaxClock \in Nat

VARIABLES
  clock,
  up,         \* can the backend be connected to?
  ready,      \* per entry, the health flags of its backends
  phase,      \* "waiting" for a tick, "visiting" entries or "probing" one
  deadline,   \* the next tick of the interval
  todo,       \* entries this round has still to visit
  entry,      \* the set of the entry that is probed, empty when none is
  probe,      \* the probes of that entry
  started,    \* when they were started
  lastUp,     \* history: when each backend was last up
  lastDown    \* history: when each backend was last down

vars == <<clock, up, ready, phase, deadline, todo, entry, probe, started, lastUp, lastDown>>
loop == <<phase, deadline, todo, entry, started>>
world == <<clock, up, lastUp, lastDown>>

\* Nothing is known of a backend's past: the histories begin at time 0.  A
\* backend counts as healthy until it was probed.
Init ==
  /\ clock = 0
  /\ up \in [Addresses -> BOOLEAN]
  /\ ready = [e \in Entries |-> [a \in BackendsOf[e] |-> TRUE]]
  /\ phase = "waiting"
  /\ deadline = 0
  /\ todo = {}
  /\ entry = {}
  /\ probe = [a \in Addresses |-> "idle"]
  /\ started = 0
  /\ lastUp = [a \in Addresses |-> 0]
  /\ lastDown = [a \in Addresses |-> 0]

-----------------------------------------------------------------------------
(* The loop                                                                *)

\* A late tick does not shift the ticks after it (MissedTickBehavior::Burst).
NextDeadline == deadline + Interval

\* interval.tick(): the first tick is immediate, one that was missed too.
Wake ==
  /\ phase = "waiting"
  /\ clock >= deadline
  /\ phase' = "visiting"
  /\ deadline' = NextDeadline
  /\ todo' = Entries
  /\ UNCHANGED <<world, ready, entry, probe, started>>

\* Mutant: the round ends with the first entry.
RemainingNone(e) == {}

Remaining(e) == todo \ {e}

\* upstream.update() does not change a static list of backends;
\* run_health_check(true) spawns a probe of each.
Visit(e) ==
  /\ phase = "visiting"
  /\ e \in todo
  /\ todo' = Remaining(e)
  /\ entry' = {e}
  /\ probe' = [a \in Addresses |-> IF a \in BackendsOf[e] THEN "running" ELSE "idle"]
  /\ started' = clock
  /\ phase' = "probing"
  /\ UNCHANGED <<world, ready, deadline>>

\* Mutant: the first result is enough to go on.
OneReported == \E a \in Addresses : probe[a] = "idle"

\* Parallel probes are waited for, all of them.
AllReported == \A a \in Addresses : probe[a] = "idle"

EndVisit ==
  /\ phase = "probing"
  /\ AllReported
  /\ phase' = "visiting"
  /\ entry' = {}
  /\ UNCHANGED <<world, ready, deadline, todo, probe, started>>

EndRound ==
  /\ phase = "visiting"
  /\ todo = {}
  /\ phase' = "waiting"
  /\ UNCHANGED <<world, ready, deadline, todo, entry, probe, started>>

-----------------------------------------------------------------------------
(* A probe                                                                 *)

Connect(a) ==
  /\ probe[a] = "running"
  /\ up[a]
  /\ probe' = [probe EXCEPT ![a] = "ok"]
  /\ UNCHANGED <<world, loop, ready>>

\* Mutant: a connect that is merely slow counts as failed.
Slow(a) == TRUE

\* Refused, or not answered before the timeout.
Unreachable(a) == ~up[a]

Fail(a) ==
  /\ probe[a] = "running"
  /\ Unreachable(a)
  /\ probe' = [probe EXCEPT ![a] = "failed"]
  /\ UNCHANGED <<world, loop, ready>>

\* The flag of the probed entry takes the result of the probe.
Report(a) ==
  /\ probe[a] \in {"ok", "failed"}
  /\ ready' = [e \in Entries |->
       IF e \in entry THEN [ready[e] EXCEPT ![a] = (probe[a] = "ok")] ELSE ready[e]]
  /\ probe' = [probe EXCEPT ![a] = "idle"]
  /\ UNCHANGED <<world, loop>>

-----------------------------------------------------------------------------
(* The world                                                               *)

\* A backend goes down, or comes back.
Change(a) ==
  /\ up' = [up EXCEPT ![a] = ~@]
  /\ lastUp' = [lastUp EXCEPT ![a] = clock]
  /\ lastDown' = [lastDown EXCEPT ![a] = clock]
  /\ UNCHANGED <<clock, ready, loop, probe>>

\* The service has nothing to do but wait: for a tick, or for a probe that
\* has not timed out.
Waits ==
  \/ phase = "waiting" /\ clock < deadline
  \/ /\ phase = "probing"
     /\ clock < started + Timeout
     /\ \E a \in Addresses : probe[a] = "running"
     /\ \A a \in Addresses : probe[a] \in {"idle", "running"}

Tick ==
  /\ clock < MaxClock
  /\ Waits
  /\ clock' = clock + 1
  /\ lastUp' = [a \in Addresses |-> IF up[a] THEN clock + 1 ELSE lastUp[a]]
  /\ lastDown' = [a \in Addresses |-> IF up[a] THEN lastDown[a] ELSE clock + 1]
  /\ UNCHANGED <<up, ready, loop, probe>>

Next ==
  \/ Wake
  \/ \E e \in Entries : Visit(e)
  \/ EndVisit
  \/ EndRound
  \/ \E a \in Addresses : Connect(a) \/ Fail(a) \/ Report(a) \/ Change(a)
  \/ Tick

Spec == Init /\ [][Next]_vars

-----------------------------------------------------------------------------
(* Properties                                                              *)

TypeOK ==
  /\ clock \in 0 .. MaxClock
  /\ up \in [Addresses -> BOOLEAN]
  /\ DOMAIN ready = Entries
  /\ \A e \in Entries : ready[e] \in [BackendsOf[e] -> BOOLEAN]
  /\ phase \in {"waiting", "visiting", "probing"}
  /\ deadline \in 0 .. MaxClock + Interval
  /\ todo \in SUBSET Entries
  /\ entry \in SUBSET Entries
  /\ probe \in [Addresses -> {"idle", "running", "ok", "failed"}]
  /\ started \in 0 .. MaxClock
  /\ lastUp \in [Addresses -> 0 .. MaxClock]
  /\ lastDown \in [Addresses -> 0 .. MaxClock]

\* One entry is probed at a time, it is not due any more in this round, and
\* probes run for its backends only.
LoopFits ==
  /\ phase # "probing" => entry = {} /\ \A a \in Addresses : probe[a] = "idle"
  /\ phase = "waiting" => todo = {}
  /\ phase = "probing" =>
       \E e \in Entries \ todo :
         entry = {e} /\ \A a \in Addresses : probe[a] # "idle" => a \in BackendsOf[e]

\* The inductive invariant behind ImplementsRounds: where the loop is tells
\* which probes may run, so that what a probe found reaches the flag of the
\* entry it was started for.
IInv == TypeOK /\ LoopFits

\* A round takes at most a timeout per entry.  The next one starts at the
\* tick, or at once when the round took longer than the interval.
RoundTime == Cardinality(Entries) * Timeout
Staleness == (IF RoundTime > Interval THEN RoundTime ELSE Interval) + RoundTime

\* What a flag says was true not longer than Staleness ago, in every entry,
\* however backends come and go, whatever the order of the rounds and however
\* far the rounds run over the interval.
FlagsFresh ==
  \A e \in Entries : \A a \in BackendsOf[e] :
    IF ready[e][a] THEN clock - lastUp[a] <= Staleness ELSE clock - lastDown[a] <= Staleness

\* No false alarm: a backend is taken out of an entry only if it was down
\* during the probe, and put back only if it was up during the probe.
FlipsJustified ==
  [][\A e \in Entries : \A a \in BackendsOf[e] :
       ready'[e][a] # ready[e][a] =>
         IF ready'[e][a] THEN lastUp[a] >= started ELSE lastDown[a] >= started]_vars

\* What a probe of each backend of each entry has come to in this round.
CheckOf(e, a) ==
  IF e \in todo THEN "due"
  ELSE IF e \in entry THEN (IF probe[a] = "running" THEN "due" ELSE probe[a])
  ELSE "idle"

Rounds == INSTANCE HealthRounds WITH
  check <- [e \in Entries |-> [a \in BackendsOf[e] |-> CheckOf(e, a)]]

\* The loop implements the rounds it promises: whatever the ticks, the order
\* of the entries and the time a probe takes, each round probes each backend
\* of each entry exactly once, and changes a flag only by what that probe found.
ImplementsRounds == Rounds!Spec

\* "Each RouteEntry also has a TcpHealthCheck every 1 second; both layers
\* maintain the health of the backends" (docs/proxy-design.md): a backend that
\* has been down for that second and a timeout is taken out.  Refuted: the
\* frequency is set on the balancer, but nothing runs the balancer's own checks.
DetectedAtCheckFrequency ==
  \A e \in Entries : \A a \in BackendsOf[e] :
    ready[e][a] => clock - lastUp[a] <= CheckFrequency + RoundTime

=============================================================================
