----------------------------- MODULE HealthRounds ---------------------------
(***************************************************************************)
(* What the background health checks promise, without clocks, intervals or *)
(* the order of entries: every backend of every entry is probed once in a  *)
(* round, what a probe finds is written to the flag of its entry some time *)
(* later, and rounds follow each other for ever.                           *)
(*                                                                         *)
(* HealthService implements this specification; Upstream composes it with  *)
(* the requests that read the flags.                                       *)
(***************************************************************************)
EXTENDS Naturals

CONSTANTS
  Entries,        \* the server names of the route table
  Addresses,      \* the backends
  BackendsOf      \* the backends of each entry

VARIABLES
  up,         \* can the backend be connected to?
  ready,      \* per entry, the health flags of its backends
  check       \* per entry and backend: "due", what was found, or "idle"

vars == <<up, ready, check>>

Init ==
  /\ up \in [Addresses -> BOOLEAN]
  /\ ready = [e \in Entries |-> [a \in BackendsOf[e] |-> TRUE]]
  /\ check = [e \in Entries |-> [a \in BackendsOf[e] |-> "idle"]]

\* Mutant: a backend that was taken out is not probed any more.
StartRoundOfHealthy ==
  /\ \A e \in Entries : \A a \in BackendsOf[e] : check[e][a] = "idle"
  /\ check' = [e \in Entries |-> [a \in BackendsOf[e] |-> IF ready[e][a] THEN "due" ELSE "idle"]]
  /\ UNCHANGED <<up, ready>>

\* The last round is over: all backends are due again.
StartRound ==
  /\ \A e \in Entries : \A a \in BackendsOf[e] : check[e][a] = "idle"
  /\ check' = [e \in Entries |-> [a \in BackendsOf[e] |-> "due"]]
  /\ UNCHANGED <<up, ready>>

Probe(e, a) ==
  /\ check[e][a] = "due"
  /\ check' = [check EXCEPT ![e][a] = IF up[a] THEN "ok" ELSE "failed"]
  /\ UNCHANGED <<up, ready>>

Report(e, a) ==
  /\ check[e][a] \in {"ok", "failed"}
  /\ ready' = [ready EXCEPT ![e][a] = (check[e][a] = "ok")]
  /\ check' = [check EXCEPT ![e][a] = "idle"]
  /\ UNCHANGED up

\* A backend goes down, or comes back.
Change(a) ==
  /\ up' = [up EXCEPT ![a] = ~@]
  /\ UNCHANGED <<ready, check>>

Step == StartRound \/ \E e \in Entries : \E a \in BackendsOf[e] : Probe(e, a) \/ Report(e, a)

Next == Step \/ \E a \in Addresses : Change(a)

Spec == Init /\ [][Next]_vars

\* The loop of the service never ends, and a probe has a timeout.
Fairness == WF_vars(Step)

-----------------------------------------------------------------------------
(* Properties                                                              *)

TypeOK ==
  /\ up \in [Addresses -> BOOLEAN]
  /\ DOMAIN ready = Entries
  /\ DOMAIN check = Entries
  /\ \A e \in Entries :
       /\ ready[e] \in [BackendsOf[e] -> BOOLEAN]
       /\ check[e] \in [BackendsOf[e] -> {"idle", "due", "ok", "failed"}]

\* A backend that stays down is taken out of every entry, one that stays up is
\* put back, and so it remains, whatever the other backends do meanwhile.
FlagsSettle ==
  \A e \in Entries : \A a \in BackendsOf[e] :
    /\ <>[]up[a] => <>[]ready[e][a]
    /\ <>[](~up[a]) => <>[](~ready[e][a])

=============================================================================
