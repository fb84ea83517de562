---------------------------- MODULE HealthProofs -----------------------------
(***************************************************************************)
(* HealthService implements HealthRounds, changes no flag without reason,  *)
(* and leaves none out of date for long, for every value of the constants. *)
(*                                                                         *)
(* Of the rounds, only the tick that starts one, the end of a probe and    *)
(* the report of what it found are visible.  Moving to an entry turns its  *)
(* backends from due in this round to being probed, which HealthRounds     *)
(* does not tell apart, and leaving it finds all its probes reported.      *)
(***************************************************************************)
EXTENDS HealthService, FiniteSetTheorems, TLAPS

\* A probe that is not idle runs for the one entry that is visited.
LEMMA ProbedEntry ==
  ASSUME IInv, NEW a \in Addresses, probe[a] # "idle"
  PROVE  /\ phase = "probing"
         /\ \E e \in Entries : entry = {e} /\ e \notin todo /\ a \in BackendsOf[e]
  BY DEF IInv, LoopFits

-----------------------------------------------------------------------------
(* The invariant is inductive                                              *)

LEMMA IInvInit == Init => IInv
  BY HealthAssumption DEF Init, IInv, TypeOK, LoopFits

LEMMA TypeNext ==
  ASSUME IInv, [Next]_vars
  PROVE  TypeOK'
<1> USE HealthAssumption DEF IInv, TypeOK
<1>1. ASSUME Wake PROVE TypeOK'
  <2>1. deadline + Interval \in 0 .. MaxClock + Interval
    BY <1>1 DEF Wake
  <2>2. QED
    BY <1>1, <2>1 DEF Wake, NextDeadline, world
<1>2. ASSUME NEW e \in Entries, Visit(e) PROVE TypeOK'
  BY <1>2 DEF Visit, Remaining, world
<1>3. ASSUME EndVisit \/ EndRound PROVE TypeOK'
  BY <1>3 DEF EndVisit, EndRound, world
<1>4. ASSUME NEW a \in Addresses, Connect(a) \/ Fail(a) PROVE TypeOK'
  BY <1>4 DEF Connect, Fail, world, loop
<1>5. ASSUME NEW a \in Addresses, Report(a) PROVE TypeOK'
  <2>1. DOMAIN ready' = Entries /\ \A e \in Entries : ready'[e] \in [BackendsOf[e] -> BOOLEAN]
    BY <1>5 DEF Report
  <2>2. probe' \in [Addresses -> {"idle", "running", "ok", "failed"}]
    BY <1>5 DEF Report
  <2>3. UNCHANGED <<world, loop>>
    BY <1>5 DEF Report
  <2>4. QED
    BY <2>1, <2>2, <2>3 DEF world, loop
<1>6. ASSUME NEW a \in Addresses, Change(a) PROVE TypeOK'
  BY <1>6 DEF Change, loop
<1>7. ASSUME Tick PROVE TypeOK'
  <2>1. clock + 1 \in 0 .. MaxClock
    BY <1>7 DEF Tick
  <2>2. QED
    BY <1>7, <2>1 DEF Tick, loop
<1>8. ASSUME UNCHANGED vars PROVE TypeOK'
  BY <1>8 DEF vars
<1>9. QED
  BY <1>1, <1>2, <1>3, <1>4, <1>5, <1>6, <1>7, <1>8 DEF Next

LEMMA LoopNext ==
  ASSUME IInv, [Next]_vars
  PROVE  LoopFits'
<1> USE DEF IInv, TypeOK, LoopFits
<1>1. ASSUME Wake PROVE LoopFits'
  BY <1>1 DEF Wake
<1>2. ASSUME NEW e \in Entries, Visit(e) PROVE LoopFits'
  BY <1>2 DEF Visit, Remaining
<1>3. ASSUME EndVisit \/ EndRound PROVE LoopFits'
  BY <1>3 DEF EndVisit, EndRound, AllReported
<1>4. ASSUME NEW a \in Addresses, Connect(a) \/ Fail(a) \/ Report(a) PROVE LoopFits'
  <2>1. UNCHANGED loop /\ probe[a] # "idle" /\ \A b \in Addresses \ {a} : probe'[b] = probe[b]
    BY <1>4 DEF Connect, Fail, Report
  <2>2. PICK e \in Entries : entry = {e} /\ e \notin todo /\ a \in BackendsOf[e]
    BY <2>1, ProbedEntry
  <2>3. QED
    BY <2>1, <2>2, ProbedEntry DEF loop
<1>5. ASSUME UNCHANGED <<loop, probe>> PROVE LoopFits'
  BY <1>5 DEF loop
<1>6. QED
  BY <1>1, <1>2, <1>3, <1>4, <1>5 DEF Next, Change, Tick, vars, loop

\* The loop and its probes fit together: only the entry that is visited is
\* probed, it is not due any more in this round, and none of its probes is
\* still out when the loop moves on (run_health_check waits for all of them).
THEOREM IInvHolds == Spec => []IInv
<1>1. IInv /\ [Next]_vars => IInv'
  BY TypeNext, LoopNext DEF IInv
<1>2. QED
  BY <1>1, IInvInit, PTL DEF Spec

-----------------------------------------------------------------------------
(* The refinement                                                          *)

\* The refinement mapping.
CheckNow == [e \in Entries |-> [a \in BackendsOf[e] |-> CheckOf(e, a)]]

LEMMA InitImplements == Init => Rounds!Init
  BY DEF Init, Rounds!Init, CheckOf

\* When one probe changes, so does one entry of what HealthRounds sees.
LEMMA CheckMoved ==
  ASSUME IInv, NEW a \in Addresses, NEW e \in Entries,
         entry = {e}, e \notin todo, a \in BackendsOf[e], UNCHANGED loop,
         probe'[a] # "running", \A b \in Addresses \ {a} : probe'[b] = probe[b]
  PROVE  CheckNow' = [CheckNow EXCEPT ![e][a] = probe'[a]]
<1>1. ASSUME NEW d \in Entries, NEW b \in BackendsOf[d]
      PROVE  CheckOf(d, b)' = IF d = e /\ b = a THEN probe'[a] ELSE CheckOf(d, b)
  <2>1. b \in Addresses /\ todo' = todo /\ entry' = {e}
    BY HealthAssumption DEF loop
  <2>2. CASE d = e /\ b = a
    BY <2>1, <2>2 DEF CheckOf
  <2>3. CASE d # e
    BY <2>1, <2>3 DEF CheckOf
  <2>4. CASE d = e /\ b # a
    BY <2>1, <2>4 DEF CheckOf
  <2>5. QED
    BY <2>2, <2>3, <2>4
<1>2. CheckNow' = [d \in Entries |-> [b \in BackendsOf[d] |->
                     IF d = e /\ b = a THEN probe'[a] ELSE CheckOf(d, b)]]
  BY <1>1 DEF CheckNow
<1>3. [CheckNow EXCEPT ![e][a] = probe'[a]] =
        [d \in Entries |-> [b \in BackendsOf[d] |->
           IF d = e /\ b = a THEN probe'[a] ELSE CheckOf(d, b)]]
  BY DEF CheckNow
<1>4. QED
  BY <1>2, <1>3

\* A step that moves neither the probes nor the loop, but for its clock.
LEMMA CheckStays ==
  ASSUME UNCHANGED <<todo, entry, probe>>
  PROVE  CheckNow' = CheckNow
  BY DEF CheckNow, CheckOf

LEMMA NextImplements ==
  ASSUME IInv, [Next]_vars
  PROVE  [Rounds!Next]_(Rounds!vars)
<1>1. ASSUME Wake PROVE Rounds!StartRound
  <2>1. \A e \in Entries : \A a \in BackendsOf[e] : CheckOf(e, a) = "idle"
    BY <1>1 DEF Wake, IInv, LoopFits, CheckOf
  <2>2. \A e \in Entries : \A a \in BackendsOf[e] : CheckOf(e, a)' = "due"
    BY <1>1 DEF Wake, CheckOf
  <2>3. UNCHANGED <<up, ready>>
    BY <1>1 DEF Wake, world
  <2>4. QED
    BY <2>1, <2>2, <2>3 DEF CheckNow, Rounds!StartRound
<1>2. ASSUME NEW e \in Entries, Visit(e) PROVE UNCHANGED Rounds!vars
  <2>1. entry = {} /\ e \in todo
    BY <1>2 DEF Visit, IInv, LoopFits
  <2>2. ASSUME NEW d \in Entries, NEW a \in BackendsOf[d] PROVE CheckOf(d, a)' = CheckOf(d, a)
    <3>1. a \in Addresses
      BY HealthAssumption
    <3>2. todo' = todo \ {e} /\ entry' = {e}
      BY <1>2 DEF Visit, Remaining
    <3>3. CASE d = e
      <4>1. probe'[a] = "running"
        BY <1>2, <3>1, <3>3 DEF Visit
      <4>2. QED
        BY <2>1, <3>2, <3>3, <4>1 DEF CheckOf
    <3>4. CASE d # e
      BY <2>1, <3>2, <3>4 DEF CheckOf
    <3>5. QED
      BY <3>3, <3>4
  <2>3. UNCHANGED <<up, ready>>
    BY <1>2 DEF Visit, world
  <2>4. QED
    BY <2>2, <2>3 DEF CheckNow, Rounds!vars
<1>3. ASSUME EndVisit PROVE UNCHANGED Rounds!vars
  <2>1. ASSUME NEW d \in Entries, NEW a \in BackendsOf[d] PROVE CheckOf(d, a)' = CheckOf(d, a)
    BY <1>3, HealthAssumption DEF EndVisit, AllReported, CheckOf
  <2>2. UNCHANGED <<up, ready>>
    BY <1>3 DEF EndVisit, world
  <2>3. QED
    BY <2>1, <2>2 DEF CheckNow, Rounds!vars
<1>4. ASSUME EndRound \/ Tick PROVE UNCHANGED Rounds!vars
  <2>1. UNCHANGED <<up, ready, todo, entry, probe>>
    BY <1>4 DEF EndRound, Tick, world, loop
  <2>2. QED
    BY <2>1, CheckStays DEF CheckNow, Rounds!vars
<1>5. ASSUME NEW a \in Addresses, Connect(a) \/ Fail(a)
      PROVE  \E e \in Entries : \E b \in BackendsOf[e] : Rounds!Probe(e, b)
  <2>1. probe[a] = "running"
    BY <1>5 DEF Connect, Fail
  <2>2. PICK e \in Entries : entry = {e} /\ e \notin todo /\ a \in BackendsOf[e]
    BY <2>1, ProbedEntry
  <2>3. CheckNow[e][a] = "due"
    BY <2>1, <2>2 DEF CheckNow, CheckOf
  <2>4. UNCHANGED loop /\ UNCHANGED <<up, ready>>
    BY <1>5 DEF Connect, Fail, world
  <2>5. CASE Connect(a)
    <3>1. up[a] /\ probe'[a] = "ok" /\ \A b \in Addresses \ {a} : probe'[b] = probe[b]
      BY <2>5 DEF Connect, IInv, TypeOK
    <3>2. CheckNow' = [CheckNow EXCEPT ![e][a] = probe'[a]]
      BY <2>2, <2>4, <3>1, CheckMoved
    <3>3. QED
      BY <2>2, <2>3, <2>4, <3>1, <3>2 DEF CheckNow, Rounds!Probe
  <2>6. CASE Fail(a)
    <3>1. ~up[a] /\ probe'[a] = "failed" /\ \A b \in Addresses \ {a} : probe'[b] = probe[b]
      BY <2>6 DEF Fail, Unreachable, IInv, TypeOK
    <3>2. CheckNow' = [CheckNow EXCEPT ![e][a] = probe'[a]]
      BY <2>2, <2>4, <3>1, CheckMoved
    <3>3. QED
      BY <2>2, <2>3, <2>4, <3>1, <3>2 DEF CheckNow, Rounds!Probe
  <2>7. QED
    BY <1>5, <2>5, <2>6
<1>6. ASSUME NEW a \in Addresses, Report(a)
      PROVE  \E e \in Entries : \E b \in BackendsOf[e] : Rounds!Report(e, b)
  <2>1. probe[a] \in {"ok", "failed"}
    BY <1>6 DEF Report
  <2>2. PICK e \in Entries : entry = {e} /\ e \notin todo /\ a \in BackendsOf[e]
    BY <2>1, ProbedEntry
  <2>3. CheckNow[e][a] = probe[a]
    BY <2>1, <2>2 DEF CheckNow, CheckOf
  <2>4. CheckNow' = [CheckNow EXCEPT ![e][a] = "idle"]
    <3>1. UNCHANGED loop /\ probe'[a] = "idle" /\ \A b \in Addresses \ {a} : probe'[b] = probe[b]
      BY <1>6 DEF Report, IInv, TypeOK
    <3>2. CheckNow' = [CheckNow EXCEPT ![e][a] = probe'[a]]
      BY <2>2, <3>1, CheckMoved
    <3>3. QED
      BY <3>1, <3>2
  <2>5. ready' = [ready EXCEPT ![e][a] = (probe[a] = "ok")]
    BY <1>6, <2>2 DEF Report, IInv, TypeOK
  <2>6. UNCHANGED up
    BY <1>6 DEF Report, world
  <2>7. QED
    BY <2>1, <2>2, <2>3, <2>4, <2>5, <2>6 DEF CheckNow, Rounds!Report
<1>7. ASSUME NEW a \in Addresses, Change(a) PROVE Rounds!Change(a)
  <2>1. UNCHANGED <<todo, entry, probe>>
    BY <1>7 DEF Change, loop
  <2>2. QED
    BY <1>7, <2>1, CheckStays DEF CheckNow, Change, Rounds!Change
<1>8. ASSUME UNCHANGED vars PROVE UNCHANGED Rounds!vars
  BY <1>8, CheckStays DEF CheckNow, vars, Rounds!vars
<1>9. QED
  BY <1>1, <1>2, <1>3, <1>4, <1>5, <1>6, <1>7, <1>8 DEF Next, Rounds!Next, Rounds!Step

\* Whatever the interval, the timeout and the route table, and in whatever
\* order the entries are visited: the loop probes in rounds and believes each
\* probe about the backend and the entry it was made for.
THEOREM LoopImplementsRounds == Spec => ImplementsRounds
<1>1. IInv /\ [Next]_vars => [Rounds!Next]_(Rounds!vars)
  BY NextImplements
<1>2. QED
  BY <1>1, InitImplements, IInvHolds, PTL DEF Spec, ImplementsRounds, Rounds!Spec

-----------------------------------------------------------------------------
(* Flips                                                                   *)

\* The histories tell of now what is so now, and what a probe found was so
\* while it ran.
Witnessed ==
  /\ started <= clock
  /\ \A a \in Addresses :
       /\ IF up[a] THEN lastUp[a] = clock ELSE lastDown[a] = clock
       /\ lastUp[a] <= clock /\ lastDown[a] <= clock
       /\ probe[a] = "ok" => lastUp[a] >= started
       /\ probe[a] = "failed" => lastDown[a] >= started

LEMMA WitnessedInit == Init => Witnessed
  BY HealthAssumption DEF Init, Witnessed

LEMMA WitnessedNext ==
  ASSUME IInv, Witnessed, [Next]_vars
  PROVE  Witnessed'
<1>t. /\ TypeOK /\ clock \in Nat /\ started \in Nat
      /\ \A a \in Addresses : lastUp[a] \in Nat /\ lastDown[a] \in Nat
  BY HealthAssumption DEF IInv, TypeOK
<1>1. ASSUME Wake \/ EndVisit \/ EndRound PROVE Witnessed'
  BY <1>1 DEF Wake, EndVisit, EndRound, world, Witnessed
<1>2. ASSUME NEW e \in Entries, Visit(e) PROVE Witnessed'
  <2>1. UNCHANGED world /\ started' = clock
        /\ \A a \in Addresses : probe'[a] \in {"idle", "running"}
    BY <1>2 DEF Visit
  <2>2. QED
    BY <1>t, <2>1 DEF world, Witnessed
<1>3. ASSUME NEW a \in Addresses, Connect(a) \/ Fail(a) PROVE Witnessed'
  <2>1. UNCHANGED world /\ started' = started
        /\ probe'[a] \in {"ok", "failed"} /\ (up[a] <=> probe'[a] = "ok")
        /\ \A b \in Addresses \ {a} : probe'[b] = probe[b]
    BY <1>t, <1>3 DEF Connect, Fail, Unreachable, loop, TypeOK
  <2>2. QED
    BY <1>t, <2>1 DEF world, Witnessed
<1>4. ASSUME NEW a \in Addresses, Report(a) PROVE Witnessed'
  <2>1. UNCHANGED world /\ started' = started
        /\ \A b \in Addresses : probe'[b] \in {"idle", probe[b]}
    BY <1>t, <1>4 DEF Report, loop, TypeOK
  <2>2. QED
    BY <1>t, <2>1 DEF world, Witnessed
<1>5. ASSUME NEW a \in Addresses, Change(a) PROVE Witnessed'
  <2>1. /\ clock' = clock /\ started' = started /\ probe' = probe
        /\ lastUp'[a] = clock /\ lastDown'[a] = clock
        /\ \A b \in Addresses \ {a} :
             up'[b] = up[b] /\ lastUp'[b] = lastUp[b] /\ lastDown'[b] = lastDown[b]
    BY <1>t, <1>5 DEF Change, loop, TypeOK
  <2>2. QED
    BY <1>t, <2>1 DEF Witnessed
<1>6. ASSUME Tick PROVE Witnessed'
  <2>1. /\ clock' = clock + 1 /\ started' = started /\ probe' = probe /\ up' = up
        /\ \A a \in Addresses :
             /\ lastUp'[a] = IF up[a] THEN clock + 1 ELSE lastUp[a]
             /\ lastDown'[a] = IF up[a] THEN lastDown[a] ELSE clock + 1
    BY <1>6 DEF Tick, loop
  <2>2. QED
    BY <1>t, <2>1 DEF Witnessed
<1>7. ASSUME UNCHANGED vars PROVE Witnessed'
  BY <1>7 DEF vars, Witnessed
<1>8. QED
  BY <1>1, <1>2, <1>3, <1>4, <1>5, <1>6, <1>7 DEF Next

\* No flag is cleared of a backend that was up, nor set of one that was down,
\* all the time it was probed.
THEOREM FlipsHold == Spec => FlipsJustified
<1> DEFINE A == \A e \in Entries : \A a \in BackendsOf[e] :
                  ready'[e][a] # ready[e][a] =>
                    IF ready'[e][a] THEN lastUp[a] >= started ELSE lastDown[a] >= started
<1>1. ASSUME IInv, Witnessed, [Next]_vars PROVE A
  <2>1. CASE UNCHANGED ready
    BY <2>1
  <2>2. ASSUME NEW b \in Addresses, Report(b) PROVE A
    <3>1. SUFFICES ASSUME NEW e \in Entries, NEW a \in BackendsOf[e], ready'[e][a] # ready[e][a]
                   PROVE  IF ready'[e][a] THEN lastUp[a] >= started ELSE lastDown[a] >= started
      OBVIOUS
    <3>2. a = b /\ e \in entry /\ ready'[e][a] = (probe[b] = "ok")
      BY <2>2, <3>1 DEF Report, IInv, TypeOK
    <3>3. probe[b] \in {"ok", "failed"}
      BY <2>2 DEF Report
    <3>4. (probe[b] = "ok" => lastUp[b] >= started) /\ (probe[b] = "failed" => lastDown[b] >= started)
      BY <1>1 DEF Witnessed
    <3>5. CASE probe[b] = "ok"
      BY <3>2, <3>4, <3>5
    <3>6. CASE probe[b] = "failed"
      BY <3>2, <3>4, <3>6
    <3>7. QED
      BY <3>3, <3>5, <3>6
  <2>3. QED
    BY <1>1, <2>1, <2>2
       DEF Next, Wake, Visit, EndVisit, EndRound, Connect, Fail, Change, Tick, vars
<1>2. IInv /\ Witnessed /\ [Next]_vars => [A]_vars
  BY <1>1
<1>3. IInv /\ Witnessed /\ [Next]_vars => Witnessed'
  BY WitnessedNext
<1>4. QED
  BY <1>2, <1>3, WitnessedInit, IInvHolds, PTL DEF Spec, FlipsJustified

-----------------------------------------------------------------------------
(* Freshness                                                               *)

\* When what a flag says was last true.
Since(e, a) == IF ready[e][a] THEN lastUp[a] ELSE lastDown[a]

\* The flag still has to be looked at in this round.
Pending(e, a) == e \in todo \/ (e \in entry /\ probe[a] # "idle")

Longest == IF RoundTime > Interval THEN RoundTime ELSE Interval

\* How long the visits to so many entries may take.
Allowed(n) == n * Timeout

Left == Cardinality(todo)
All == Cardinality(Entries)

\* The flags a round that began at time s has not come to yet were looked at in
\* the round before.
LookedAt(s) ==
  \A e \in Entries : \A a \in BackendsOf[e] :
    IF Pending(e, a) THEN s <= Since(e, a) + Longest ELSE s <= Since(e, a)

\* The last round began at time s, and every entry it has visited took at most
\* a timeout.
PacedFrom(s) ==
  /\ deadline <= s + Interval
  /\ phase = "waiting" => clock <= s + Longest
  /\ phase = "visiting" => clock <= s + Allowed(All - Left)
  /\ phase = "probing" =>
       /\ s <= started /\ started <= s + Allowed(All - Left - 1)
       /\ clock <= started + Timeout
  /\ LookedAt(s)

Paced == \E s \in Nat : s <= clock /\ PacedFrom(s)

LEMMA AllowedIsNat == \A n \in Nat : Allowed(n) \in Nat /\ Allowed(n + 1) = Allowed(n) + Timeout
  BY HealthAssumption DEF Allowed

LEMMA AllowedGrows == \A m, n \in Nat : m <= n => Allowed(m) <= Allowed(n)
<1>1. SUFFICES ASSUME NEW m \in Nat, NEW n \in Nat, m <= n PROVE m * Timeout <= n * Timeout
  BY DEF Allowed
<1>2. PICK d \in Nat : n = m + d
  BY <1>1
<1>3. n * Timeout = m * Timeout + d * Timeout /\ d * Timeout \in Nat /\ m * Timeout \in Nat
  BY <1>2, HealthAssumption
<1>4. QED
  BY <1>3

\* The entries still to be visited are some of them, and one of them less
\* when one is visited.
LEMMA Counting ==
  ASSUME IInv
  PROVE  /\ All \in Nat /\ Left \in Nat /\ Left <= All
         /\ phase = "probing" => Left < All
         /\ \A e \in todo : Cardinality(todo \ {e}) = Left - 1 /\ Left > 0
         /\ todo = {} => Left = 0
         /\ todo = Entries => Left = All
<1>1. IsFiniteSet(Entries) /\ todo \subseteq Entries
  BY HealthAssumption DEF IInv, TypeOK
<1>2. IsFiniteSet(todo) /\ Left \in Nat /\ All \in Nat /\ Left <= All
  BY <1>1, FS_Subset, FS_CardinalityType DEF Left, All
<1>3. phase = "probing" => Left < All
  <2>1. SUFFICES ASSUME phase = "probing" PROVE Left < All
    OBVIOUS
  <2>2. todo # Entries
    BY <2>1 DEF IInv, LoopFits
  <2>3. QED
    BY <1>1, <1>2, <2>2, FS_Subset DEF Left, All
<1>4. \A e \in todo : Cardinality(todo \ {e}) = Left - 1 /\ Left > 0
  <2>1. TAKE e \in todo
  <2>2. Cardinality(todo \ {e}) = Left - 1
    BY <1>2, <2>1, FS_RemoveElement DEF Left
  <2>3. Left # 0
    BY <1>2, <2>1, FS_EmptySet DEF Left
  <2>4. QED
    BY <1>2, <2>2, <2>3
<1>5. todo = {} => Left = 0
  BY FS_EmptySet DEF Left
<1>6. QED
  BY <1>2, <1>3, <1>4, <1>5 DEF Left, All

LEMMA LongestIsNat == Longest \in Nat /\ RoundTime \in Nat /\ RoundTime <= Longest /\ Interval <= Longest
<1>1. Cardinality(Entries) \in Nat
  BY HealthAssumption, FS_CardinalityType
<1>2. RoundTime \in Nat
  BY <1>1, HealthAssumption DEF RoundTime
<1>3. QED
  BY <1>2, HealthAssumption DEF Longest

LEMMA PacedInit == Init => Paced
<1>1. SUFFICES ASSUME Init PROVE 0 <= clock /\ PacedFrom(0)
  BY DEF Paced
<1>2. \A e \in Entries : \A a \in BackendsOf[e] : ~Pending(e, a) /\ Since(e, a) = 0
  BY <1>1, HealthAssumption DEF Init, Pending, Since
<1>3. QED
  BY <1>1, <1>2, LongestIsNat, HealthAssumption DEF Init, PacedFrom, LookedAt

\* What a flag says is only confirmed by time and by the backends.
LEMMA SinceGrows ==
  ASSUME IInv, Witnessed, [Next]_vars, NEW e \in Entries, NEW a \in BackendsOf[e],
         ready'[e][a] = ready[e][a]
  PROVE  Since(e, a) \in Nat /\ Since(e, a)' \in Nat /\ Since(e, a) <= Since(e, a)'
<1>1. a \in Addresses
  BY HealthAssumption
<1>2. lastUp[a] \in Nat /\ lastDown[a] \in Nat /\ clock \in Nat
  BY <1>1, HealthAssumption DEF IInv, TypeOK
<1>3. lastUp[a] <= clock /\ lastDown[a] <= clock
  BY <1>1 DEF Witnessed
<1>4. lastUp'[a] \in {lastUp[a], clock, clock + 1} /\ lastDown'[a] \in {lastDown[a], clock, clock + 1}
  <2>1. ASSUME NEW b \in Addresses, Change(b)
        PROVE  lastUp'[a] \in {lastUp[a], clock} /\ lastDown'[a] \in {lastDown[a], clock}
    BY <1>1, <2>1 DEF Change, IInv, TypeOK
  <2>2. ASSUME Tick
        PROVE  lastUp'[a] \in {lastUp[a], clock + 1} /\ lastDown'[a] \in {lastDown[a], clock + 1}
    BY <1>1, <2>2 DEF Tick
  <2>3. CASE UNCHANGED <<lastUp, lastDown>>
    BY <2>3
  <2>4. QED
    BY <2>1, <2>2, <2>3
       DEF Next, Wake, Visit, EndVisit, EndRound, Connect, Fail, Report, world, vars
<1>5. QED
  BY <1>2, <1>3, <1>4 DEF Since


\* A round that goes on forgets no flag.
LEMMA LookedAtKept ==
  ASSUME IInv, Witnessed, [Next]_vars, NEW s \in Nat, LookedAt(s), ready' = ready,
         \A e \in Entries : \A a \in BackendsOf[e] : Pending(e, a) => Pending(e, a)'
  PROVE  LookedAt(s)'
<1>1. SUFFICES ASSUME NEW e \in Entries, NEW a \in BackendsOf[e]
               PROVE  IF Pending(e, a)' THEN s <= Since(e, a)' + Longest ELSE s <= Since(e, a)'
  BY DEF LookedAt, Longest, RoundTime
<1>2. Since(e, a) \in Nat /\ Since(e, a)' \in Nat /\ Since(e, a) <= Since(e, a)'
  BY SinceGrows
<1>3. IF Pending(e, a) THEN s <= Since(e, a) + Longest ELSE s <= Since(e, a)
  BY DEF LookedAt
<1>4. QED
  BY <1>2, <1>3, LongestIsNat

LEMMA PacedWake ==
  ASSUME IInv, Witnessed, Paced, Wake
  PROVE  Paced'
<1>1. PICK s \in Nat : s <= clock /\ PacedFrom(s)
  BY DEF Paced
<1>2. clock \in Nat /\ clock' = clock /\ deadline \in Nat /\ deadline' = deadline + Interval
      /\ deadline <= clock /\ phase' = "visiting" /\ todo' = Entries /\ clock <= s + Longest
  BY <1>1, HealthAssumption DEF Wake, NextDeadline, world, IInv, TypeOK, PacedFrom
<1>3. All' = All /\ Left' = All /\ All - All = 0
  BY <1>2, Counting DEF All, Left
<1>4. LookedAt(clock)'
  <2>1. SUFFICES ASSUME NEW e \in Entries, NEW a \in BackendsOf[e]
                 PROVE  Pending(e, a)' /\ clock' <= Since(e, a)' + Longest
    BY DEF LookedAt, Longest, RoundTime
  <2>2. ~Pending(e, a)
    BY DEF Wake, IInv, LoopFits, Pending
  <2>3. s <= Since(e, a)
    BY <1>1, <2>2 DEF PacedFrom, LookedAt
  <2>4. Since(e, a) \in Nat /\ Since(e, a)' \in Nat /\ Since(e, a) <= Since(e, a)'
    <3>1. ready'[e][a] = ready[e][a]
      BY DEF Wake
    <3>2. QED
      BY <3>1, SinceGrows DEF Next
  <2>5. QED
    BY <1>2, <2>3, <2>4, LongestIsNat DEF Pending
<1>5. PacedFrom(clock)'
  BY <1>2, <1>3, <1>4, AllowedIsNat, HealthAssumption DEF PacedFrom, Allowed
<1>6. QED
  BY <1>2, <1>5 DEF Paced

LEMMA PacedVisit ==
  ASSUME IInv, Witnessed, Paced, NEW e \in Entries, Visit(e)
  PROVE  Paced'
<1>1. PICK s \in Nat : s <= clock /\ PacedFrom(s)
  BY DEF Paced
<1>2. clock \in Nat /\ clock' = clock /\ deadline' = deadline /\ phase' = "probing"
      /\ started' = clock /\ clock <= s + Allowed(All - Left) /\ deadline <= s + Interval
  BY <1>1 DEF Visit, world, IInv, TypeOK, PacedFrom
<1>3. e \in todo /\ todo' = todo \ {e}
  BY DEF Visit, Remaining
<1>4. All' = All /\ Left' = Left - 1 /\ Left \in Nat /\ All \in Nat
  BY <1>3, Counting DEF All, Left
<1>5. All - Left' - 1 = All - Left
  BY <1>4
<1>6. LookedAt(s)'
  <2>1. ASSUME NEW f \in Entries, NEW a \in BackendsOf[f], Pending(f, a) PROVE Pending(f, a)'
    <3>1. f \in todo
      BY <2>1 DEF Visit, IInv, LoopFits, Pending
    <3>2. CASE f = e
      <4>1. a \in Addresses /\ e \in entry' /\ probe'[a] = "running"
        BY <3>2, HealthAssumption DEF Visit
      <4>2. QED
        BY <3>2, <4>1 DEF Pending
    <3>3. CASE f # e
      BY <1>3, <3>1, <3>3 DEF Pending
    <3>4. QED
      BY <3>2, <3>3
  <2>2. ready' = ready /\ LookedAt(s)
    BY <1>1 DEF Visit, PacedFrom
  <2>3. QED
    BY <2>1, <2>2, LookedAtKept DEF Next
<1>7. PacedFrom(s)'
  BY <1>1, <1>2, <1>4, <1>5, <1>6, HealthAssumption DEF PacedFrom, Allowed
<1>8. QED
  BY <1>1, <1>2, <1>7 DEF Paced

LEMMA PacedEndVisit ==
  ASSUME IInv, Witnessed, Paced, EndVisit
  PROVE  Paced'
<1>1. PICK s \in Nat : s <= clock /\ PacedFrom(s)
  BY DEF Paced
<1>2. clock \in Nat /\ started \in Nat /\ clock' = clock /\ deadline' = deadline
      /\ phase' = "visiting" /\ deadline <= s + Interval
      /\ started <= s + Allowed(All - Left - 1) /\ clock <= started + Timeout
  BY <1>1 DEF EndVisit, world, IInv, TypeOK, PacedFrom
<1>3. All' = All /\ Left' = Left /\ Left \in Nat /\ All \in Nat /\ Left < All
  BY Counting DEF All, Left, EndVisit
<1>4. Allowed(All - Left) = Allowed(All - Left - 1) + Timeout /\ Allowed(All - Left - 1) \in Nat
  <2>1. All - Left - 1 \in Nat /\ All - Left - 1 + 1 = All - Left
    BY <1>3
  <2>2. QED
    BY <2>1, AllowedIsNat
<1>5. LookedAt(s)'
  <2>1. ASSUME NEW f \in Entries, NEW a \in BackendsOf[f], Pending(f, a) PROVE Pending(f, a)'
    BY <2>1, HealthAssumption DEF EndVisit, AllReported, Pending
  <2>2. ready' = ready /\ LookedAt(s)
    BY <1>1 DEF EndVisit, PacedFrom
  <2>3. QED
    BY <2>1, <2>2, LookedAtKept DEF Next
<1>6. clock <= s + Allowed(All - Left)
  BY <1>2, <1>4, HealthAssumption
<1>7. PacedFrom(s)'
  BY <1>2, <1>3, <1>5, <1>6 DEF PacedFrom, Allowed
<1>8. QED
  BY <1>1, <1>2, <1>7 DEF Paced

LEMMA PacedEndRound ==
  ASSUME IInv, Witnessed, Paced, EndRound
  PROVE  Paced'
<1>1. PICK s \in Nat : s <= clock /\ PacedFrom(s)
  BY DEF Paced
<1>2. clock \in Nat /\ clock' = clock /\ deadline' = deadline /\ phase' = "waiting"
      /\ deadline <= s + Interval /\ clock <= s + Allowed(All - Left)
  BY <1>1 DEF EndRound, world, IInv, TypeOK, PacedFrom
<1>3. Allowed(All - Left) = RoundTime
  <2>1. Left = 0 /\ All \in Nat
    BY Counting DEF EndRound
  <2>2. All - Left = All
    BY <2>1
  <2>3. QED
    BY <2>2 DEF Allowed, RoundTime, All
<1>4. LookedAt(s)'
  <2>1. ready' = ready /\ LookedAt(s)
    BY <1>1 DEF EndRound, PacedFrom
  <2>2. QED
    BY <2>1, LookedAtKept DEF Next, EndRound, Pending
<1>5. clock <= s + Longest
  BY <1>2, <1>3, LongestIsNat
<1>6. PacedFrom(s)'
  BY <1>2, <1>4, <1>5 DEF PacedFrom, Longest, RoundTime
<1>7. QED
  BY <1>1, <1>2, <1>6 DEF Paced

\* What is left to be done is the same, and so are the times.
LEMMA PacedProbe ==
  ASSUME IInv, Witnessed, Paced, [Next]_vars, UNCHANGED loop, clock' = clock,
         \A s \in Nat : PacedFrom(s) => LookedAt(s)'
  PROVE  Paced'
<1>1. PICK s \in Nat : s <= clock /\ PacedFrom(s)
  BY DEF Paced
<1>2. LookedAt(s)'
  BY <1>1
<1>3. PacedFrom(s)'
  BY <1>1, <1>2 DEF PacedFrom, loop, Longest, RoundTime, Allowed, All, Left
<1>4. QED
  BY <1>1, <1>3 DEF Paced

LEMMA PacedResult ==
  ASSUME IInv, Witnessed, Paced, NEW a \in Addresses, Connect(a) \/ Fail(a)
  PROVE  Paced'
<1>1. UNCHANGED <<loop, ready>> /\ clock' = clock /\ [Next]_vars
  BY DEF Connect, Fail, world, Next
<1>2. \A b \in Addresses : probe[b] # "idle" => probe'[b] # "idle"
  BY DEF Connect, Fail, IInv, TypeOK
<1>3. ASSUME NEW s \in Nat, PacedFrom(s) PROVE LookedAt(s)'
  <2>1. \A e \in Entries : \A b \in BackendsOf[e] : Pending(e, b) => Pending(e, b)'
    BY <1>1, <1>2, HealthAssumption DEF Pending, loop
  <2>2. QED
    BY <1>1, <1>3, <2>1, LookedAtKept DEF PacedFrom
<1>4. QED
  BY <1>1, <1>3, PacedProbe

LEMMA PacedReport ==
  ASSUME IInv, Witnessed, Paced, NEW b \in Addresses, Report(b)
  PROVE  Paced'
<1>1. UNCHANGED loop /\ UNCHANGED world /\ clock' = clock /\ [Next]_vars
  BY DEF Report, world, Next
<1>2. phase = "probing" /\ probe[b] \in {"ok", "failed"}
  BY ProbedEntry DEF Report
<1>3. ASSUME NEW s \in Nat, PacedFrom(s), NEW e \in Entries, NEW a \in BackendsOf[e]
      PROVE  IF Pending(e, a)' THEN s <= Since(e, a)' + Longest ELSE s <= Since(e, a)'
  <2>1. a \in Addresses /\ s <= started
    BY <1>2, <1>3, HealthAssumption DEF PacedFrom
  <2>2. CASE e \in entry /\ a = b
    <3>1. ready'[e][a] = (probe[a] = "ok")
      BY <2>2 DEF Report, IInv, TypeOK
    <3>2. IF ready'[e][a] THEN lastUp[a] >= started ELSE lastDown[a] >= started
      BY <1>2, <2>1, <2>2, <3>1 DEF Witnessed
    <3>3. Since(e, a)' \in Nat /\ started \in Nat /\ started <= Since(e, a)'
      BY <1>1, <2>1, <3>2, HealthAssumption DEF Since, world, IInv, TypeOK
    <3>4. QED
      BY <2>1, <3>3, LongestIsNat
  <2>3. CASE ~(e \in entry /\ a = b)
    <3>1. ready'[e][a] = ready[e][a]
      BY <2>3 DEF Report, IInv, TypeOK
    <3>2. Since(e, a)' = Since(e, a)
      BY <1>1, <3>1 DEF Since, world
    <3>3. Pending(e, a)' <=> Pending(e, a)
      BY <1>1, <2>1, <2>3 DEF Report, Pending, loop, IInv, TypeOK
    <3>4. QED
      BY <1>3, <3>2, <3>3 DEF PacedFrom, LookedAt
  <2>4. QED
    BY <2>2, <2>3
<1>4. \A s \in Nat : PacedFrom(s) => LookedAt(s)'
  BY <1>3 DEF LookedAt, Longest, RoundTime
<1>5. QED
  BY <1>1, <1>4, PacedProbe

LEMMA PacedChange ==
  ASSUME IInv, Witnessed, Paced, NEW a \in Addresses, Change(a)
  PROVE  Paced'
<1>1. UNCHANGED <<clock, ready, loop, probe>> /\ [Next]_vars
  BY DEF Change, Next
<1>2. \A e \in Entries : \A b \in BackendsOf[e] : Pending(e, b) => Pending(e, b)'
  BY <1>1 DEF Pending, loop
<1>3. \A s \in Nat : PacedFrom(s) => LookedAt(s)'
  BY <1>1, <1>2, LookedAtKept DEF PacedFrom
<1>4. QED
  BY <1>1, <1>3, PacedProbe

\* Time passes only up to the next tick of the interval, or to the timeout.
LEMMA PacedTick ==
  ASSUME IInv, Witnessed, Paced, Tick
  PROVE  Paced'
<1>1. PICK s \in Nat : s <= clock /\ PacedFrom(s)
  BY DEF Paced
<1>2. clock \in Nat /\ clock' = clock + 1 /\ UNCHANGED <<ready, loop, probe>> /\ [Next]_vars
  BY DEF Tick, Next, IInv, TypeOK
<1>3. LookedAt(s)'
  <2>1. \A e \in Entries : \A b \in BackendsOf[e] : Pending(e, b) => Pending(e, b)'
    BY <1>2 DEF Pending, loop
  <2>2. QED
    BY <1>1, <1>2, <2>1, LookedAtKept DEF PacedFrom
<1>4. \/ phase = "waiting" /\ clock < deadline
      \/ phase = "probing" /\ clock < started + Timeout
  BY DEF Tick, Waits
<1>5. deadline \in Nat /\ started \in Nat
  BY HealthAssumption DEF IInv, TypeOK
<1>6. UNCHANGED <<phase, deadline, todo, started>> /\ All' = All /\ Left' = Left
  BY <1>2 DEF loop, All, Left
<1>7. CASE phase = "waiting" /\ clock < deadline
  <2>1. clock + 1 <= s + Longest
    BY <1>1, <1>2, <1>5, <1>7, LongestIsNat, HealthAssumption DEF PacedFrom
  <2>2. PacedFrom(s)'
    BY <1>1, <1>2, <1>3, <1>6, <1>7, <2>1 DEF PacedFrom, Longest, RoundTime
  <2>3. QED
    BY <1>1, <1>2, <2>2 DEF Paced
<1>8. CASE phase = "probing" /\ clock < started + Timeout
  <2>1. clock + 1 <= started + Timeout
    BY <1>2, <1>5, <1>8, HealthAssumption
  <2>2. PacedFrom(s)'
    BY <1>1, <1>2, <1>3, <1>6, <1>8, <2>1 DEF PacedFrom, Allowed
  <2>3. QED
    BY <1>1, <1>2, <2>2 DEF Paced
<1>9. QED
  BY <1>4, <1>7, <1>8

LEMMA PacedNext ==
  ASSUME IInv, Witnessed, Paced, [Next]_vars
  PROVE  Paced'
<1>1. CASE UNCHANGED vars
  BY <1>1 DEF vars, Paced, PacedFrom, LookedAt, Pending, Since, Longest, RoundTime, Allowed, All, Left
<1>2. CASE Next
  BY <1>2, PacedWake, PacedVisit, PacedEndVisit, PacedEndRound, PacedResult, PacedReport,
     PacedChange, PacedTick DEF Next
<1>3. QED
  BY <1>1, <1>2

\* Within a round, and between two of them, a flag is as old as the argument
\* allows.
LEMMA PacedIsFresh == IInv /\ Witnessed /\ Paced => FlagsFresh
<1>1. SUFFICES ASSUME IInv, Witnessed, Paced, NEW e \in Entries, NEW a \in BackendsOf[e]
               PROVE  clock - Since(e, a) <= Longest + RoundTime
  BY DEF FlagsFresh, Staleness, Longest, Since
<1>2. PICK s \in Nat : s <= clock /\ PacedFrom(s)
  BY <1>1 DEF Paced
<1>3. Since(e, a) \in Nat /\ clock \in Nat /\ started \in Nat
  BY <1>1, HealthAssumption DEF Since, IInv, TypeOK
<1>4. IF Pending(e, a) THEN s <= Since(e, a) + Longest ELSE s <= Since(e, a)
  BY <1>1, <1>2 DEF PacedFrom, LookedAt
<1>5. Allowed(All) = RoundTime
  BY DEF Allowed, All, RoundTime
<1>6. CASE phase = "waiting"
  <2>1. ~Pending(e, a)
    BY <1>1, <1>6 DEF IInv, LoopFits, Pending
  <2>2. QED
    BY <1>2, <1>3, <1>4, <1>6, <2>1, LongestIsNat DEF PacedFrom
<1>7. CASE phase = "visiting"
  <2>1. All \in Nat /\ All - Left \in Nat /\ All - Left <= All
    BY <1>1, Counting
  <2>2. Allowed(All - Left) <= Allowed(All) /\ Allowed(All - Left) \in Nat
    BY <2>1, AllowedGrows, AllowedIsNat
  <2>3. QED
    BY <1>2, <1>3, <1>4, <1>5, <1>7, <2>2, LongestIsNat DEF PacedFrom
<1>8. CASE phase = "probing"
  <2>1. All \in Nat /\ All - Left - 1 \in Nat /\ All - Left - 1 + 1 <= All
    BY <1>1, <1>8, Counting
  <2>2. Allowed(All - Left - 1 + 1) <= Allowed(All)
        /\ Allowed(All - Left - 1) \in Nat
        /\ Allowed(All - Left - 1 + 1) = Allowed(All - Left - 1) + Timeout
    BY <2>1, AllowedGrows, AllowedIsNat
  <2>3. QED
    BY <1>2, <1>3, <1>4, <1>5, <1>8, <2>2, LongestIsNat, HealthAssumption DEF PacedFrom
<1>9. QED
  BY <1>1, <1>6, <1>7, <1>8 DEF IInv, TypeOK

\* No flag is out of date by more than a round and the longer of a round and
\* the interval, for any route table, interval and timeout.
THEOREM FlagsStayFresh == Spec => []FlagsFresh
<1>1. IInv /\ Witnessed /\ Paced /\ [Next]_vars => Witnessed' /\ Paced'
  BY WitnessedNext, PacedNext
<1>2. QED
  BY <1>1, WitnessedInit, PacedInit, PacedIsFresh, IInvHolds, PTL DEF Spec

=============================================================================
