--------------------------- MODULE SelectionProofs ---------------------------
(***************************************************************************)
(* Proofs about Selection for every number of requests, backends and steps *)
(* and every size of the counter.                                          *)
(***************************************************************************)
EXTENDS Selection, Integers, TLAPS

\* What a remainder is.
LEMMA Remainder ==
  ASSUME NEW m \in Nat, NEW n \in Nat \ {0}
  PROVE  m % n \in 0 .. n - 1
  OBVIOUS

\* A step offers a backend when there is one.
LEMMA OfferedIsBackend ==
  ASSUME TypeOK, NEW r \in Requests, ~Exhausted(r)
  PROVE  Offered(r) \in Backends
<1>1. index[r] \in Nat
  BY SelectionAssumption DEF TypeOK
<1>2. NumBackends \in Nat \ {0}
  BY SelectionAssumption DEF Exhausted
<1>3. QED
  BY <1>1, <1>2, Remainder DEF Offered, Backends

-----------------------------------------------------------------------------
(* Remainders: where a counter that wraps around is after some steps       *)

LEMMA AtLeastOnce ==
  ASSUME NEW d \in Int, NEW n \in Nat, d >= 1
  PROVE  d * n >= n
<1>1. (d - 1) * n >= 0
  OBVIOUS
<1>2. d * n = (d - 1) * n + n
  OBVIOUS
<1>3. QED
  BY <1>1, <1>2

\* A remainder is known by any multiple it is apart from.
LEMMA RemainderIs ==
  ASSUME NEW n \in Nat \ {0}, NEW a \in Int, NEW q \in Int, NEW r \in 0 .. n - 1,
         a = q * n + r
  PROVE  a % n = r
<1> DEFINE p == a \div n
           s == a % n
<1>1. p \in Int /\ s \in 0 .. n - 1 /\ a = p * n + s
  OBVIOUS
<1> HIDE DEF p, s
<1>2. (p - q) * n = r - s /\ (q - p) * n = s - r
  BY <1>1
<1>3. CASE p - q >= 1
  <2>1. (p - q) * n >= n
    BY <1>1, <1>3, AtLeastOnce
  <2>2. QED
    BY <1>1, <1>2, <2>1
<1>4. CASE q - p >= 1
  <2>1. (q - p) * n >= n
    BY <1>1, <1>4, AtLeastOnce
  <2>2. QED
    BY <1>1, <1>2, <2>1
<1>5. CASE p = q
  <2>1. s = r
    BY <1>1, <1>5
  <2>2. QED
    BY <2>1 DEF s
<1>6. QED
  BY <1>1, <1>3, <1>4, <1>5

\* Fetching advances the counter by one step.
LEMMA OneStepOn ==
  ASSUME NEW first \in Nat, NEW k \in Nat
  PROVE  /\ At(first, k) \in 0 .. CounterSize - 1
         /\ (At(first, k) + 1) % CounterSize = At(first, k + 1)
<1> DEFINE n == CounterSize
           q == (first + k) \div n
           s == (first + k) % n
           t == (s + 1) % n
<1>1. n \in Nat \ {0}
  BY SelectionAssumption
<1>2. q \in Int /\ s \in 0 .. n - 1 /\ first + k = q * n + s
  BY <1>1
<1>3. (s + 1) \div n \in Int /\ t \in 0 .. n - 1 /\ s + 1 = ((s + 1) \div n) * n + t
  BY <1>1, <1>2
<1> HIDE DEF q, s, t
<1>4. PICK p \in Int : first + (k + 1) = p * n + t
  <2>1. first + (k + 1) = (q + (s + 1) \div n) * n + t
    BY <1>1, <1>2, <1>3
  <2>2. QED
    BY <1>2, <1>3, <2>1
<1>5. (first + (k + 1)) % n = t
  <2>1. t \in 0 .. n - 1 /\ first + (k + 1) \in Int
    BY <1>3
  <2> HIDE DEF n
  <2>2. QED
    BY <1>1, <1>4, <2>1, RemainderIs
<1>6. QED
  BY <1>2, <1>5 DEF At, n, s, t

\* One step more offers one backend more.
LEMMA OneMoreOffered ==
  ASSUME NEW first, NEW k \in Nat
  PROVE  Walked(first, k + 1) = Walked(first, k) \cup {At(first, k) % NumBackends}
BY 0 .. (k + 1) - 1 = (0 .. k - 1) \cup {k} DEF Walked

\* As long as the counter does not wrap around, a step for each backend
\* offers every one.
LEMMA OffersInARow ==
  ASSUME NumBackends # 0, NEW first \in Nat, NEW b \in Backends
  PROVE  \E k \in 0 .. NumBackends - 1 : (first + k) % NumBackends = b
<1> DEFINE n == NumBackends
           p == first \div n
           s == first % n
<1>1. n \in Nat \ {0} /\ b \in 0 .. n - 1
  BY SelectionAssumption DEF Backends
<1>2. p \in Int /\ s \in 0 .. n - 1 /\ first = p * n + s
  BY <1>1
<1> HIDE DEF p, s
<1>3. CASE s <= b
  <2>1. first + (b - s) = p * n + b
    BY <1>1, <1>2
  <2>2. b - s \in 0 .. n - 1
    BY <1>1, <1>2, <1>3
  <2>3. (first + (b - s)) % n = b
    BY <1>1, <1>2, <2>1, <2>2, RemainderIs
  <2>4. QED
    BY <2>2, <2>3
<1>4. CASE b < s
  <2>1. first + (b + n - s) = (p + 1) * n + b
    BY <1>1, <1>2
  <2>2. b + n - s \in 0 .. n - 1
    BY <1>1, <1>2, <1>4
  <2>3. (first + (b + n - s)) % n = b
    BY <1>1, <1>2, <2>1, <2>2, RemainderIs
  <2>4. QED
    BY <2>2, <2>3
<1>5. QED
  BY <1>1, <1>2, <1>3, <1>4

\* Before the counter wraps around, and after.
LEMMA BeforeTheWrap ==
  ASSUME NEW first \in Nat, NEW k \in Nat, first + k < CounterSize
  PROVE  At(first, k) = first + k
<1>1. first + k = 0 * CounterSize + (first + k)
  BY SelectionAssumption
<1>2. QED
  BY <1>1, SelectionAssumption, RemainderIs DEF At

LEMMA AfterTheWrap ==
  ASSUME NEW first \in Nat, NEW k \in Nat,
         CounterSize <= first + k, first + k < 2 * CounterSize
  PROVE  At(first, k) = first + k - CounterSize
<1>1. first + k = 1 * CounterSize + (first + k - CounterSize)
  BY SelectionAssumption
<1>2. first + k - CounterSize \in 0 .. CounterSize - 1
  BY SelectionAssumption
<1>3. QED
  BY <1>1, <1>2, SelectionAssumption, RemainderIs DEF At

\* With enough steps, every backend is offered, wherever the counter began.
LEMMA EnoughOffersAll ==
  ASSUME EnoughSteps, NumBackends # 0, NEW first \in 0 .. CounterSize - 1
  PROVE  Backends \subseteq Walked(first, MaxIterations)
<1> SUFFICES ASSUME NEW b \in Backends
             PROVE  \E k \in 0 .. MaxIterations - 1 : At(first, k) % NumBackends = b
  BY DEF Walked
<1>1. NumBackends \in Nat \ {0} /\ CounterSize \in Nat \ {0} /\ MaxIterations \in Nat \ {0}
  BY SelectionAssumption
<1>2. first \in Nat /\ first < CounterSize /\ b \in 0 .. NumBackends - 1
  BY <1>1 DEF Backends
<1>3. PICK k \in 0 .. NumBackends - 1 : (first + k) % NumBackends = b
  BY <1>2, OffersInARow
<1>4. CASE first + k < CounterSize
  <2>1. At(first, k) = first + k
    BY <1>1, <1>2, <1>3, <1>4, BeforeTheWrap
  <2>2. k \in 0 .. MaxIterations - 1
    BY <1>1, <1>3 DEF EnoughSteps
  <2>3. QED
    BY <1>3, <2>1, <2>2
<1>5. ASSUME CounterSize <= first + k,
             NumBackends <= MaxIterations,
             NEW q \in 1 .. CounterSize, CounterSize = q * NumBackends
      PROVE  At(first, k) % NumBackends = b /\ k \in 0 .. MaxIterations - 1
  <2>1. NumBackends <= CounterSize
    BY <1>1, <1>5, AtLeastOnce
  <2>2. first + k < 2 * CounterSize /\ k \in Nat
    BY <1>1, <1>2, <1>3, <2>1
  <2>3. At(first, k) = first + k - CounterSize
    BY <1>2, <1>5, <2>2, AfterTheWrap
  <2> DEFINE d == (first + k) \div NumBackends
  <2>4. d \in Int /\ first + k = d * NumBackends + b
    BY <1>1, <1>2, <1>3
  <2> HIDE DEF d
  <2>5. first + k - CounterSize = (d - q) * NumBackends + b
    BY <1>1, <1>2, <1>5, <2>4
  <2>6. (first + k - CounterSize) % NumBackends = b
    <3>1. PICK e \in Int : first + k - CounterSize = e * NumBackends + b
      BY <2>4, <2>5
    <3>2. first + k - CounterSize \in Int
      BY <1>1, <1>2, <2>2
    <3>3. QED
      BY <1>1, <1>2, <3>1, <3>2, RemainderIs
  <2>7. QED
    BY <1>1, <1>3, <1>5, <2>3, <2>6
<1>6. ASSUME CounterSize <= first + k,
             2 * NumBackends <= MaxIterations + 1,
             NumBackends <= CounterSize
      PROVE  \E m \in 0 .. MaxIterations - 1 : At(first, m) % NumBackends = b
  <2> DEFINE m == (CounterSize - first) + b
  <2>1. m \in 0 .. MaxIterations - 1
    BY <1>1, <1>2, <1>3, <1>6
  <2>2. At(first, m) = first + m - CounterSize
    BY <1>1, <1>2, <1>6, <2>1, AfterTheWrap
  <2>3. At(first, m) = b
    BY <1>1, <1>2, <2>2
  <2>4. b % NumBackends = b
    <3>1. b = 0 * NumBackends + b
      BY <1>1, <1>2
    <3>2. QED
      BY <1>1, <1>2, <3>1, RemainderIs
  <2>5. QED
    BY <2>1, <2>3, <2>4
<1>7. first + k < CounterSize \/ CounterSize <= first + k
  BY <1>1, <1>2, <1>3
<1>8. QED
  BY <1>4, <1>5, <1>6, <1>7 DEF EnoughSteps

-----------------------------------------------------------------------------
(* The invariant is inductive                                              *)

LEMMA IInvInit == Init => IInv
<1> SUFFICES ASSUME Init PROVE IInv
  OBVIOUS
<1>1. TypeOK
  BY SelectionAssumption DEF Init, TypeOK
<1>2. SteadyIsReady /\ SeenReadyIsChosen
  BY DEF Init, SteadyIsReady, SeenReadyIsChosen
<1>3. AloneInOrder
  BY SelectionAssumption DEF Init, AloneInOrder
<1>4. QED
  BY <1>1, <1>2, <1>3 DEF IInv

LEMMA TypeNext ==
  ASSUME IInv, [Next]_vars
  PROVE  TypeOK'
<1> USE SelectionAssumption DEF IInv, TypeOK
<1>1. ASSUME NEW r \in Requests, Begin(r) PROVE TypeOK'
  <2>1. ReadyNow \in SUBSET Backends
    BY DEF ReadyNow
  <2>2. QED
    BY <1>1, <2>1 DEF Begin
<1>2. ASSUME NEW r \in Requests, Fetch(r) PROVE TypeOK'
  <2>1. Advanced \in 0 .. CounterSize - 1
    <3>1. counter + 1 \in Nat
      OBVIOUS
    <3>2. QED
      BY <3>1, Remainder DEF Advanced
  <2>2. alone' \in [Requests -> BOOLEAN]
    BY <1>2 DEF Fetch
  <2>3. index' \in [Requests -> 0 .. CounterSize - 1]
    BY <1>2 DEF Fetch
  <2>4. QED
    BY <1>2, <2>1, <2>2, <2>3 DEF Fetch
<1>3. ASSUME NEW r \in Requests, GiveUp(r) PROVE TypeOK'
  BY <1>3 DEF GiveUp
<1>4. ASSUME NEW r \in Requests, Choose(r) PROVE TypeOK'
  <2>1. Offered(r) \in Backends
    BY <1>4, OfferedIsBackend DEF Choose
  <2>2. QED
    BY <1>4, <2>1 DEF Choose
<1>5. ASSUME NEW r \in Requests, Skip(r) PROVE TypeOK'
  <2>1. Offered(r) \in Backends
    BY <1>5, OfferedIsBackend DEF Skip
  <2>2. Counted(r) \in 0 .. MaxIterations
    BY <1>5 DEF Skip, Exhausted, Counted
  <2>3. QED
    BY <1>5, <2>1, <2>2 DEF Skip
<1>6. ASSUME NEW b \in Backends, Flip(b) PROVE TypeOK'
  BY <1>6 DEF Flip, reqVars
<1>7. ASSUME UNCHANGED vars PROVE TypeOK'
  BY <1>7 DEF vars, reqVars
<1>8. QED
  BY <1>1, <1>2, <1>3, <1>4, <1>5, <1>6, <1>7 DEF Next, Judge

LEMMA SteadyNext ==
  ASSUME IInv, [Next]_vars
  PROVE  SteadyIsReady'
<1> USE DEF IInv, TypeOK, SteadyIsReady, ReadyNow
<1>1. ASSUME NEW r \in Requests, Begin(r) PROVE SteadyIsReady'
  BY <1>1 DEF Begin
<1>2. ASSUME UNCHANGED <<ready, steady>> PROVE SteadyIsReady'
  BY <1>2
<1>3. ASSUME NEW b \in Backends, Flip(b) PROVE SteadyIsReady'
  BY <1>3 DEF Flip
<1>4. QED
  BY <1>1, <1>2, <1>3 DEF Next, Fetch, Judge, GiveUp, Choose, Skip, vars

LEMMA SeenNext ==
  ASSUME IInv, [Next]_vars
  PROVE  SeenReadyIsChosen'
<1> USE DEF IInv, TypeOK, SeenReadyIsChosen, Target
<1>1. ASSUME NEW r \in Requests, Begin(r) PROVE SeenReadyIsChosen'
  BY <1>1 DEF Begin, Offered
<1>2. ASSUME NEW r \in Requests, Fetch(r) PROVE SeenReadyIsChosen'
  BY <1>2 DEF Fetch, Offered
<1>3. ASSUME NEW r \in Requests, GiveUp(r) PROVE SeenReadyIsChosen'
  BY <1>3 DEF GiveUp, Offered
<1>4. ASSUME NEW r \in Requests, Choose(r) PROVE SeenReadyIsChosen'
  BY <1>4 DEF Choose, Offered
<1>5. ASSUME NEW r \in Requests, Skip(r) PROVE SeenReadyIsChosen'
  <2>1. Offered(r) \in seen[r] \/ Offered(r) \notin steady[r]
    BY <1>5, OfferedIsBackend DEF Skip, Accept, SteadyIsReady, ReadyNow
  <2>2. QED
    BY <1>5, <2>1 DEF Skip, Offered
<1>6. ASSUME NEW b \in Backends, Flip(b) PROVE SeenReadyIsChosen'
  BY <1>6 DEF Flip, reqVars, Offered
<1>7. ASSUME UNCHANGED vars PROVE SeenReadyIsChosen'
  BY <1>7 DEF vars, reqVars, Offered
<1>8. QED
  BY <1>1, <1>2, <1>3, <1>4, <1>5, <1>6, <1>7 DEF Next, Judge

\* What a selection was offered, if it is undisturbed, for one request.
InOrder(r, first) ==
  /\ pc[r] \in {"fetch", "judge"} => seen[r] = Walked(first, steps[r])
  /\ pc[r] = "fetch" => counter = At(first, steps[r])
  /\ pc[r] = "judge" => index[r] = At(first, steps[r]) /\ counter = At(first, steps[r] + 1)
  /\ pc[r] = "none" /\ NumBackends # 0 => seen[r] = Walked(first, MaxIterations)

LEMMA AloneIsInOrder ==
  ASSUME IInv, NEW r \in Requests, alone[r]
  PROVE  \E first \in 0 .. CounterSize - 1 : InOrder(r, first)
BY DEF IInv, AloneInOrder, InOrder

\* Steps of other requests leave an undisturbed selection as it is.
LEMMA OthersInOrder ==
  ASSUME IInv, NEW r \in Requests, NEW q \in Requests, q # r, alone'[q],
         Begin(r) \/ Fetch(r) \/ Judge(r)
  PROVE  \E first \in 0 .. CounterSize - 1 : InOrder(q, first)'
<1>1. UNCHANGED <<pc[q], index[q], steps[q], seen[q], counter>> /\ alone[q]
  BY DEF IInv, TypeOK, Begin, Fetch, Judge, GiveUp, Choose, Skip
<1>2. QED
  BY <1>1, AloneIsInOrder DEF InOrder

LEMMA BeginInOrder ==
  ASSUME IInv, NEW r \in Requests, Begin(r)
  PROVE  \E first \in 0 .. CounterSize - 1 : InOrder(r, first)'
<1>1. pc'[r] = "fetch" /\ steps'[r] = 0 /\ seen'[r] = {} /\ counter' = counter
  BY DEF IInv, TypeOK, Begin
<1>2. counter \in 0 .. CounterSize - 1
  BY DEF IInv, TypeOK
<1>3. Walked(counter, 0) = {}
  BY DEF Walked
<1>4. At(counter, 0) = counter
  BY <1>2, SelectionAssumption, BeforeTheWrap
<1>5. ASSUME NEW first, first = counter PROVE InOrder(r, first)'
  BY <1>1, <1>3, <1>4, <1>5 DEF InOrder
<1>6. QED
  BY <1>2, <1>5

LEMMA FetchInOrder ==
  ASSUME IInv, NEW r \in Requests, NEW first \in 0 .. CounterSize - 1, InOrder(r, first), Fetch(r)
  PROVE  InOrder(r, first)'
<1>1. /\ pc[r] = "fetch" /\ pc'[r] = "judge" /\ index'[r] = counter
      /\ counter' = (counter + 1) % CounterSize
      /\ steps'[r] = steps[r] /\ seen'[r] = seen[r]
  BY DEF IInv, TypeOK, Fetch, Advanced
<1>2. steps[r] \in Nat /\ first \in Nat
  BY SelectionAssumption DEF IInv, TypeOK
<1>3. counter' = At(first, steps[r] + 1)
  BY <1>1, <1>2, OneStepOn DEF InOrder
<1>4. QED
  BY <1>1, <1>3 DEF InOrder

LEMMA JudgeInOrder ==
  ASSUME IInv, NEW r \in Requests, NEW first \in 0 .. CounterSize - 1, InOrder(r, first), Judge(r)
  PROVE  InOrder(r, first)'
<1>1. pc[r] = "judge" /\ steps[r] \in Nat /\ steps[r] <= MaxIterations
  BY SelectionAssumption DEF IInv, TypeOK, Judge, GiveUp, Choose, Skip
<1>2. CASE GiveUp(r)
  <2>1. pc'[r] = "none" /\ seen'[r] = seen[r]
    BY <1>2 DEF IInv, TypeOK, GiveUp
  <2>2. NumBackends # 0 => steps[r] = MaxIterations
    BY <1>1, <1>2, SelectionAssumption DEF GiveUp, Exhausted
  <2>3. QED
    BY <1>1, <2>1, <2>2 DEF InOrder
<1>3. CASE Choose(r)
  <2>1. pc'[r] = "chosen"
    BY <1>3 DEF IInv, TypeOK, Choose
  <2>2. QED
    BY <2>1 DEF InOrder
<1>4. CASE Skip(r)
  <2>1. /\ pc'[r] = "fetch" /\ steps'[r] = steps[r] + 1 /\ counter' = counter
        /\ seen'[r] = seen[r] \cup {index[r] % NumBackends}
    BY <1>4 DEF IInv, TypeOK, Skip, Counted, Offered
  <2>2. seen'[r] = Walked(first, steps[r] + 1)
    BY <1>1, <2>1, OneMoreOffered DEF InOrder
  <2>3. QED
    BY <1>1, <2>1, <2>2 DEF InOrder
<1>5. QED
  BY <1>2, <1>3, <1>4 DEF Judge

LEMMA AloneNext ==
  ASSUME IInv, [Next]_vars
  PROVE  AloneInOrder'
<1> SUFFICES ASSUME NEW q \in Requests, alone'[q]
             PROVE  \E first \in 0 .. CounterSize - 1 : InOrder(q, first)'
  BY DEF AloneInOrder, InOrder
<1>1. ASSUME NEW r \in Requests, Begin(r) \/ Fetch(r) \/ Judge(r), q # r
      PROVE  \E first \in 0 .. CounterSize - 1 : InOrder(q, first)'
  BY <1>1, OthersInOrder
<1>2. CASE Begin(q)
  BY <1>2, BeginInOrder
<1>3. CASE Fetch(q) \/ Judge(q)
  <2>1. alone[q]
    BY <1>3 DEF Fetch, Judge, GiveUp, Choose, Skip
  <2>2. PICK first \in 0 .. CounterSize - 1 : InOrder(q, first)
    BY <2>1, AloneIsInOrder
  <2>3. QED
    BY <1>3, <2>2, FetchInOrder, JudgeInOrder
<1>4. CASE UNCHANGED <<counter, reqVars, alone>>
  <2>1. PICK first \in 0 .. CounterSize - 1 : InOrder(q, first)
    BY <1>4, AloneIsInOrder
  <2>2. InOrder(q, first)'
    BY <1>4, <2>1 DEF InOrder, reqVars
  <2>3. QED
    BY <2>2
<1>5. QED
  BY <1>1, <1>2, <1>3, <1>4 DEF Next, Flip, vars

LEMMA IInvHolds == Spec => []IInv
<1>1. IInv /\ [Next]_vars => IInv'
  BY TypeNext, SteadyNext, SeenNext, AloneNext DEF IInv
<1>2. QED
  BY <1>1, IInvInit, PTL DEF Spec

\* The inductive invariant, and with it the types: the counter stays in its
\* range when it wraps around, and a selection never takes a step too many.
THEOREM SelectionInvariant == Spec => []IInv
  BY IInvHolds

\* No request passes over a backend that was healthy all the time, however
\* many other requests move the counter and whichever flags change.
THEOREM NoHealthyPassedOver == Spec => []SeenReadyIsChosen
<1>1. IInv => SeenReadyIsChosen
  BY DEF IInv
<1>2. QED
  BY <1>1, IInvHolds, PTL

\* A selection that no other request disturbed passes over no backend that was
\* healthy all the time, for any number of backends, as long as there are steps
\* enough to be offered all of them; with the 32 steps of the code that is so
\* for up to 16 backends wherever the counter wraps around.
THEOREM UndisturbedFindsReady == Spec => []AloneFindsReady
<1>1. IInv => AloneFindsReady
  <2> SUFFICES ASSUME IInv, NEW r \in Requests, pc[r] = "none", alone[r], EnoughSteps
               PROVE  steady[r] = {}
    BY DEF AloneFindsReady
  <2>1. seen[r] \cap steady[r] = {} /\ steady[r] \subseteq Backends
    BY DEF IInv, TypeOK, SeenReadyIsChosen, Target
  <2>2. CASE NumBackends = 0
    BY <2>1, <2>2 DEF Backends
  <2>3. CASE NumBackends # 0
    <3>1. PICK first \in 0 .. CounterSize - 1 : seen[r] = Walked(first, MaxIterations)
      BY <2>3, AloneIsInOrder DEF InOrder
    <3>2. Backends \subseteq seen[r]
      BY <2>3, <3>1, EnoughOffersAll
    <3>3. QED
      BY <2>1, <3>2
  <2>4. QED
    BY <2>2, <2>3
<1>2. QED
  BY <1>1, IInvHolds, PTL

=============================================================================
