----------------------------- MODULE Selection ------------------------------
(***************************************************************************)
(* RouteEntry::select (src/src/proxy/route.rs): many requests at a time    *)
(* pick a healthy backend of one LoadBalancer<RoundRobin>.                 *)
(*                                                                         *)
(* select_with walks an iterator whose every step fetches and advances ONE *)
(* atomic counter shared by all requests of the entry.  It asks accept     *)
(* about each backend it has not seen before, gives up after MaxIterations *)
(* steps (32 in the code) and returns None.  The counter and the health    *)
(* flags are the only shared state, so a request is a sequence of Fetch    *)
(* (advance the counter) and Judge (read a flag) steps.                    *)
(*                                                                         *)
(* The iterator is pingora's and is modelled from how select uses it; the  *)
(* flags are written by the health checks and may change at any moment.    *)
(***************************************************************************)
EXTENDS Naturals, FiniteSets

CONSTANTS
  Requests,        \* requests that select at the same time, over and over
  NumBackends,     \* backends of the entry, numbered in the balancer's order
  MaxIterations,   \* how many steps a selection may take
  CounterSize      \* the counter wraps around at this value

ASSUME SelectionAssumption ==
  /\ NumBackends \in Nat
  /\ MaxIterations \in Nat \ {0}
  /\ CounterSize \in Nat \ {0}

Backends == 0 .. NumBackends - 1

VARIABLES
  ready,      \* the health flag of each backend
  counter,    \* RoundRobin's counter
  pc,         \* per request: idle, "fetch", "judge", "chosen" or "none"
  index,      \* the value of the counter it judges, or chose by
  steps,      \* steps the request has taken
  seen,       \* backends it has been offered
  steady,     \* history: backends that were ready ever since it began
  alone       \* history: no other request moved the counter since it began

reqVars == <<pc, index, steps, seen>>
vars == <<ready, counter, reqVars, steady, alone>>

Init ==
  /\ ready = [b \in Backends |-> TRUE]
  /\ counter = 0
  /\ pc = [r \in Requests |-> "idle"]
  /\ index = [r \in Requests |-> 0]
  /\ steps = [r \in Requests |-> 0]
  /\ seen = [r \in Requests |-> {}]
  /\ steady = [r \in Requests |-> {}]
  /\ alone = [r \in Requests |-> TRUE]

-----------------------------------------------------------------------------

ReadyNow == {b \in Backends : ready[b]}

\* select_with makes an iterator.
Begin(r) ==
  /\ pc[r] \in {"idle", "chosen", "none"}
  /\ pc' = [pc EXCEPT ![r] = "fetch"]
  /\ steps' = [steps EXCEPT ![r] = 0]
  /\ seen' = [seen EXCEPT ![r] = {}]
  /\ steady' = [steady EXCEPT ![r] = ReadyNow]
  /\ alone' = [alone EXCEPT ![r] = TRUE]
  /\ index' = [index EXCEPT ![r] = 0]
  /\ UNCHANGED <<ready, counter>>

\* fetch_add wraps around.
Advanced == (counter + 1) % CounterSize

\* The iterator takes a step: the counter is fetched and advanced.
Fetch(r) ==
  /\ pc[r] = "fetch"
  /\ index' = [index EXCEPT ![r] = counter]
  /\ counter' = Advanced
  /\ pc' = [pc EXCEPT ![r] = "judge"]
  /\ alone' = [q \in Requests |-> q = r /\ alone[q]]
  /\ UNCHANGED <<ready, steps, seen, steady>>

\* Mutant: the iterator gives up one step early.
ExhaustedEarly(r) == NumBackends = 0 \/ steps[r] + 1 >= MaxIterations

\* There is nothing to offer, or no step is left for it.
Exhausted(r) == NumBackends = 0 \/ steps[r] >= MaxIterations

GiveUp(r) ==
  /\ pc[r] = "judge"
  /\ Exhausted(r)
  /\ pc' = [pc EXCEPT ![r] = "none"]
  /\ steps' = [steps EXCEPT ![r] = 0]
  /\ UNCHANGED <<ready, counter, index, seen, steady, alone>>

\* The backend the step offers.
Offered(r) == index[r] % NumBackends

\* Mutants: health is not asked about; the flag is taken for its opposite.
AcceptAny(r) == Offered(r) \notin seen[r]
AcceptUnready(r) == Offered(r) \notin seen[r] /\ ~ready[Offered(r)]

\* The accept closure: a backend not offered before, and healthy now.
Accept(r) == Offered(r) \notin seen[r] /\ ready[Offered(r)]

\* Mutant: only a backend not offered before counts as a step.
CountedIfNew(r) == IF Offered(r) \in seen[r] THEN steps[r] ELSE steps[r] + 1

\* Every step counts, whatever it offered.
Counted(r) == steps[r] + 1

Choose(r) ==
  /\ pc[r] = "judge"
  /\ ~Exhausted(r)
  /\ Accept(r)
  /\ pc' = [pc EXCEPT ![r] = "chosen"]
  /\ steps' = [steps EXCEPT ![r] = 0]
  /\ seen' = [seen EXCEPT ![r] = @ \cup {Offered(r)}]
  /\ UNCHANGED <<ready, counter, index, steady, alone>>

\* Seen before or unhealthy: on to the next step.
Skip(r) ==
  /\ pc[r] = "judge"
  /\ ~Exhausted(r)
  /\ ~Accept(r)
  /\ pc' = [pc EXCEPT ![r] = "fetch"]
  /\ steps' = [steps EXCEPT ![r] = Counted(r)]
  /\ seen' = [seen EXCEPT ![r] = @ \cup {Offered(r)}]
  /\ index' = [index EXCEPT ![r] = 0]
  /\ UNCHANGED <<ready, counter, steady, alone>>

Judge(r) == GiveUp(r) \/ Choose(r) \/ Skip(r)

\* A health check changes a flag.
Flip(b) ==
  /\ ready' = [ready EXCEPT ![b] = ~@]
  /\ steady' = [r \in Requests |-> steady[r] \ {b}]
  /\ UNCHANGED <<counter, reqVars, alone>>

Next ==
  \/ \E r \in Requests : Begin(r) \/ Fetch(r) \/ Judge(r)
  \/ \E b \in Backends : Flip(b)

Spec == Init /\ [][Next]_vars

\* A request that has begun to select is scheduled until it is done.
Fairness == \A r \in Requests : WF_vars(Fetch(r) \/ Judge(r))

FairSpec == Spec /\ Fairness

-----------------------------------------------------------------------------
(* Properties                                                              *)

TypeOK ==
  /\ ready \in [Backends -> BOOLEAN]
  /\ counter \in 0 .. CounterSize - 1
  /\ pc \in [Requests -> {"idle", "fetch", "judge", "chosen", "none"}]
  /\ index \in [Requests -> 0 .. CounterSize - 1]
  /\ steps \in [Requests -> 0 .. MaxIterations]
  /\ seen \in [Requests -> SUBSET Backends]
  /\ steady \in [Requests -> SUBSET Backends]
  /\ alone \in [Requests -> BOOLEAN]

\* A step for each backend, when the counter wraps around where the backends
\* begin again; wherever else it wraps, twice as many, less one.
EnoughSteps ==
  \/ /\ NumBackends <= MaxIterations
     /\ \E q \in 1 .. CounterSize : CounterSize = q * NumBackends
  \/ /\ 2 * NumBackends <= MaxIterations + 1
     /\ NumBackends <= CounterSize

\* A selection that was not disturbed passes over no backend that was healthy
\* all the time, also when the counter wraps around in the middle of it.
AloneFindsReady ==
  \A r \in Requests : pc[r] = "none" /\ alone[r] /\ EnoughSteps => steady[r] = {}

\* The counter k steps after first, and the backends offered in the first k.
At(first, k) == (first + k) % CounterSize
Walked(first, k) == {At(first, m) % NumBackends : m \in 0 .. k - 1}

\* Why AloneFindsReady holds: an undisturbed selection was offered what k
\* steps in a row offer, from where the counter was when it began.
AloneInOrder ==
  \A r \in Requests : alone[r] =>
    \E first \in 0 .. CounterSize - 1 :
      /\ pc[r] \in {"fetch", "judge"} => seen[r] = Walked(first, steps[r])
      /\ pc[r] = "fetch" => counter = At(first, steps[r])
      /\ pc[r] = "judge" => index[r] = At(first, steps[r]) /\ counter = At(first, steps[r] + 1)
      /\ pc[r] = "none" /\ NumBackends # 0 => seen[r] = Walked(first, MaxIterations)

\* The backend a request is sent to.
Target(r) == IF pc[r] = "chosen" THEN {Offered(r)} ELSE {}

\* However many requests push the counter on, a backend that a request has
\* been offered and that was healthy all the time is the one it chose: no
\* healthy backend is refused.
SeenReadyIsChosen ==
  \A r \in Requests : seen[r] \cap steady[r] \subseteq Target(r)

\* What a request remembers of the flags is true of them now.
SteadyIsReady == \A r \in Requests : steady[r] \subseteq ReadyNow

\* The inductive invariant behind AloneFindsReady and SeenReadyIsChosen: a
\* backend passed over was not ready then, and so is not steady.
IInv == TypeOK /\ SteadyIsReady /\ SeenReadyIsChosen /\ AloneInOrder

\* A selection ends, even when no backend is healthy and however often others
\* move the counter.
SelectEnds ==
  \A r \in Requests : pc[r] \in {"fetch", "judge"} ~> pc[r] \in {"chosen", "none"}

\* select returns None, answered with a 502, when every backend is unhealthy
\* ("all backends unhealthy: 502", docs/proxy-design.md) - and only then.
\* Refuted when other requests keep moving the counter so that the same
\* unhealthy backend is offered at every step.
NoneMeansAllUnready ==
  \A r \in Requests : pc[r] = "none" => steady[r] = {}

=============================================================================
