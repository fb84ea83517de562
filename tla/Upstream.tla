------------------------------ MODULE Upstream ------------------------------
(***************************************************************************)
(* One route entry as a whole: requests select a backend (Selection) while *)
(* the background service probes the backends and writes the flags the     *)
(* requests read (HealthRounds).  The flags are all the two share: an      *)
(* Arc<LoadBalancer> in the route table, read by select_with and written   *)
(* by run_health_check.                                                    *)
(***************************************************************************)
EXTENDS Naturals, FiniteSets

CONSTANTS
  Requests, NumBackends, MaxIterations, CounterSize,   \* see Selection
  Entry                                                \* the entry's name

Backends == 0 .. NumBackends - 1

VARIABLES
  up, flags, check,                                    \* see HealthRounds
  counter, pc, index, steps, seen, steady, alone   \* see Selection

healthVars == <<up, flags, check>>
selectionVars == <<counter, pc, index, steps, seen, steady, alone>>
vars == <<healthVars, selectionVars>>

Ready == flags[Entry]

Sel == INSTANCE Selection WITH ready <- Ready

Rounds == INSTANCE HealthRounds WITH
  Entries <- {Entry}, Addresses <- Backends, BackendsOf <- [e \in {Entry} |-> Backends],
  ready <- flags

Init == Rounds!Init /\ Sel!Init

\* A request takes a step of its selection.
Begin(r) == UNCHANGED healthVars /\ Sel!Begin(r)
Continue(r) == UNCHANGED healthVars /\ (Sel!Fetch(r) \/ Sel!Judge(r))

\* The service starts a round, or a probe finds something.
Check ==
  /\ Rounds!StartRound \/ \E b \in Backends : Rounds!Probe(Entry, b)
  /\ UNCHANGED selectionVars

\* Mutant: what one probe found is taken for all backends of the entry.
ReportForAll(b) ==
  /\ check[Entry][b] \in {"ok", "failed"}
  /\ flags' = [flags EXCEPT ![Entry] = [x \in Backends |-> check[Entry][b] = "ok"]]
  /\ check' = [check EXCEPT ![Entry][b] = "idle"]
  /\ steady' = [r \in Requests |-> {x \in steady[r] : flags'[Entry][x]}]
  /\ UNCHANGED <<up, counter, pc, index, steps, seen, alone>>

\* The result of a probe reaches the flag, in the middle of any selection.
Report(b) ==
  /\ Rounds!Report(Entry, b)
  /\ steady' = [r \in Requests |-> {x \in steady[r] : flags'[Entry][x]}]
  /\ UNCHANGED <<counter, pc, index, steps, seen, alone>>

Change(b) == Rounds!Change(b) /\ UNCHANGED selectionVars

Next ==
  \/ \E r \in Requests : Begin(r) \/ Continue(r)
  \/ Check
  \/ \E b \in Backends : Report(b) \/ Change(b)

Spec == Init /\ [][Next]_vars

\* The service's loop goes on, and a selection that has begun is scheduled.
\* Requests need not come, and backends need not change.
Fairness ==
  /\ WF_vars(Check \/ \E b \in Backends : Report(b))
  /\ \A r \in Requests : WF_vars(Continue(r))

FairSpec == Spec /\ Fairness

-----------------------------------------------------------------------------
(* Properties                                                              *)

\* Health checks do to a selection what Selection lets any environment do, so
\* that everything shown of Selection holds with the real checks too.
ImplementsSelection == Sel!Spec

\* See HealthRounds: the flags follow the backends while requests come and go.
FlagsSettle == Rounds!FlagsSettle

Chooses(r, b) == pc[r] # "chosen" /\ pc'[r] = "chosen" /\ b \in Sel!Target(r)'
Refused(r) == pc[r] # "none" /\ pc'[r] = "none"

\* Requests stop going to a backend that died for good, although each probe
\* may have found it up just before, and a selection may be under way.
DeadIsSpared ==
  \A b \in Backends : <>[](~up[b]) => <>[][\A r \in Requests : ~Chooses(r, b)]_vars

\* As soon as a backend has come up for good, requests that do not disturb
\* each other are refused only a limited number of times, whatever the other
\* backends do: the proxy recovers by itself.
RecoversAlone ==
  \A b \in Backends :
    <>[]up[b] => <>[][\A r \in Requests : Refused(r) => ~alone[r]]_vars

=============================================================================
