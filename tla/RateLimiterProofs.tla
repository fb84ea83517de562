------------------------- MODULE RateLimiterProofs -------------------------
(***************************************************************************)
(* Proofs about RateLimiter for every set of requests, keys and sweepers   *)
(* and every limit, window and delay.                                      *)
(*                                                                         *)
(* The inductive invariant is IInv.  Its heart is RecentKept: an admission *)
(* decided at time d carries a timestamp of at least d - MaxDelay, every   *)
(* drain and every sweep cuts at a time not later than clock - Window, so  *)
(* an admission decided after clock - (Window - MaxDelay) survives them    *)
(* all.  With DequeBounded this bounds the admissions themselves.  The     *)
(* last parts show that RateLimiter implements SlidingWindow, and that     *)
(* SlidingWindow by itself keeps the limit it promises.                    *)
(***************************************************************************)
EXTENDS RateLimiter, FiniteSetTheorems, TLAPS

(***************************************************************************)
(* Type correctness                                                        *)
(***************************************************************************)

LEMMA AdvancedType ==
  ASSUME TypeOK, NEW s \in Sweepers
  PROVE  Advanced(s) \in [op : {"idle", "evict", "clear"}, cutoff : Int, at : 0 .. NumShards]
  BY LimiterAssumption DEF TypeOK, Advanced, Further, Idle

LEMMA TypeOKInit == Init => TypeOK
  BY LimiterAssumption DEF Init, TypeOK, Idle

LEMMA TypeOKNext == TypeOK /\ [Next]_vars => TypeOK'
<1> SUFFICES ASSUME TypeOK, [Next]_vars PROVE TypeOK'
  OBVIOUS
<1> USE LimiterAssumption DEF TypeOK
<1>1. ASSUME NEW r \in Requests, Now(r) PROVE TypeOK'
  BY <1>1 DEF Now
<1>2. ASSUME NEW r \in Requests, Panic(r) PROVE TypeOK'
  BY <1>2 DEF Panic
<1>3. ASSUME NEW r \in Requests, Allow(r) PROVE TypeOK'
  BY <1>3 DEF Allow, Drained, Live
<1>4. ASSUME NEW r \in Requests, Deny(r) PROVE TypeOK'
  BY <1>4 DEF Deny, Drained, Live
<1>5. ASSUME NEW k \in Keys, Reset(k) PROVE TypeOK'
  BY <1>5 DEF Reset
<1>6. ASSUME NEW s \in Sweepers, StartEvict(s) PROVE TypeOK'
  BY <1>6 DEF StartEvict
<1>7. ASSUME NEW s \in Sweepers, StartClear(s) PROVE TypeOK'
  BY <1>7 DEF StartClear
<1>8. ASSUME NEW s \in Sweepers, EvictShard(s) PROVE TypeOK'
  <2>1. sweep' \in [Sweepers -> [op : {"idle", "evict", "clear"}, cutoff : Int, at : 0 .. NumShards]]
    BY <1>8, AdvancedType DEF EvictShard
  <2>2. QED
    BY <1>8, <2>1 DEF EvictShard, KeysKept, Live
<1>9. ASSUME NEW s \in Sweepers, ClearShard(s) PROVE TypeOK'
  <2>1. sweep' \in [Sweepers -> [op : {"idle", "evict", "clear"}, cutoff : Int, at : 0 .. NumShards]]
    BY <1>9, AdvancedType DEF ClearShard
  <2>2. QED
    BY <1>9, <2>1 DEF ClearShard
<1>10. CASE Tick
  BY <1>10 DEF Tick
<1>11. CASE UNCHANGED vars
  BY <1>11 DEF vars
<1>12. QED
  BY <1>1, <1>2, <1>3, <1>4, <1>5, <1>6, <1>7, <1>8, <1>9, <1>10, <1>11 DEF Next

\* Every variable keeps its type, whatever the calls and their interleaving.
THEOREM TypeCorrect == Spec => []TypeOK
  BY TypeOKInit, TypeOKNext, PTL DEF Spec

(***************************************************************************)
(* Lemmas on deques and admissions                                         *)
(***************************************************************************)

\* A drain that cuts no later than clock - Window loses no recent admission.
LEMMA LiveKeepsRecent ==
  ASSUME IInv, NEW k \in Keys, NEW c \in Int, c <= clock - Window
  PROVE  Admitted(k, Window - MaxDelay) \subseteq Live(k, c)
  BY LimiterAssumption DEF IInv, TypeOK, StampsFresh, RecentKept, Admitted, Live

\* A drained deque is a finite part of the deque, so it respects the limit.
LEMMA LiveBounded ==
  ASSUME IInv, NEW k \in Keys, NEW c \in Int
  PROVE  /\ Live(k, c) \subseteq entries[k]
         /\ Live(k, c) \subseteq log[k]
         /\ IsFiniteSet(Live(k, c))
         /\ Cardinality(Live(k, c)) \in Nat
         /\ Cardinality(Live(k, c)) <= MaxRequests
<1>1. Live(k, c) \subseteq entries[k] /\ entries[k] \subseteq log[k] /\ IsFiniteSet(log[k])
  BY DEF Live, IInv, DequeBounded
<1>2. IsFiniteSet(entries[k])
  BY <1>1, FS_Subset
<1>3. /\ IsFiniteSet(Live(k, c))
      /\ Cardinality(Live(k, c)) <= Cardinality(entries[k])
  BY <1>1, <1>2, FS_Subset
<1>4. Cardinality(Live(k, c)) \in Nat /\ Cardinality(entries[k]) \in Nat
  BY <1>2, <1>3, FS_CardinalityType
<1>5. Cardinality(entries[k]) <= MaxRequests
  BY DEF IInv, DequeBounded
<1>6. QED
  BY <1>1, <1>3, <1>4, <1>5, LimiterAssumption

\* A push adds at most one element.
LEMMA AddOne ==
  ASSUME NEW S, NEW x, IsFiniteSet(S)
  PROVE  /\ IsFiniteSet(S \cup {x})
         /\ Cardinality(S) \in Nat
         /\ Cardinality(S \cup {x}) \in Nat
         /\ Cardinality(S \cup {x}) <= Cardinality(S) + 1
<1>1. Cardinality(S) \in Nat
  BY FS_CardinalityType
<1>2. IsFiniteSet(S \cup {x})
  BY FS_AddElement
<1>3. CASE x \in S
  <2>1. S \cup {x} = S
    BY <1>3
  <2>2. QED
    BY <1>1, <1>2, <2>1
<1>4. CASE x \notin S
  <2>1. Cardinality(S \cup {x}) = Cardinality(S) + 1
    BY <1>4, FS_AddElement
  <2>2. QED
    BY <1>1, <1>2, <2>1
<1>5. QED
  BY <1>3, <1>4

\* The timestamp a call decides on is at most MaxDelay old and not from the
\* future.
LEMMA TimedCall ==
  ASSUME IInv, NEW r \in Requests, pc[r] = "timed"
  PROVE  /\ stamp[r] \in Nat /\ clock \in Nat
         /\ stamp[r] <= clock
         /\ clock <= stamp[r] + MaxDelay
         /\ KeyOf[r] \in Keys
         /\ \A k \in Keys : r \notin log[k]
  BY LimiterAssumption DEF IInv, TypeOK, StampsFresh

(***************************************************************************)
(* The invariant                                                           *)
(***************************************************************************)

LEMMA IInvInit == Init => IInv
<1> SUFFICES ASSUME Init PROVE IInv
  OBVIOUS
<1>1. TypeOK
  BY TypeOKInit
<1>2. StampsFresh
  BY LimiterAssumption DEF Init, StampsFresh, Idle
<1>3. DequeBounded
  BY FS_EmptySet, LimiterAssumption DEF Init, DequeBounded
<1>4. RecentKept
  BY DEF Init, RecentKept, Admitted
<1>5. QED
  BY <1>1, <1>2, <1>3, <1>4 DEF IInv

LEMMA AllowIInv ==
  ASSUME IInv, TypeOK', NEW r \in Requests, Allow(r)
  PROVE  IInv'
<1> DEFINE k == KeyOf[r]
<1>1. /\ pc[r] = "timed"
      /\ pc' = [pc EXCEPT ![r] = "allowed"]
      /\ entries' = [entries EXCEPT ![k] = Drained(r) \cup {r}]
      /\ log' = [log EXCEPT ![k] = @ \cup {r}]
      /\ decided' = [decided EXCEPT ![r] = clock]
      /\ UNCHANGED <<clock, stamp, sweep>>
      /\ Cardinality(Drained(r)) < MaxRequests
  BY DEF Allow, HasRoom
<1>2. /\ stamp[r] \in Nat /\ clock \in Nat
      /\ stamp[r] <= clock
      /\ clock <= stamp[r] + MaxDelay
      /\ k \in Keys
      /\ \A j \in Keys : r \notin log[j]
  BY <1>1, TimedCall
<1>3. stamp[r] - Window \in Int /\ stamp[r] - Window <= clock - Window
  BY <1>2, LimiterAssumption
<1>4. /\ Drained(r) \subseteq log[k]
      /\ IsFiniteSet(Drained(r))
      /\ Cardinality(Drained(r)) \in Nat
  BY <1>2, <1>3, LiveBounded DEF Drained
<1>5. Admitted(k, Window - MaxDelay) \subseteq Drained(r)
  BY <1>2, <1>3, LiveKeepsRecent DEF Drained
<1>6. StampsFresh'
  <2>1. (\A q \in Requests :
           /\ stamp[q] <= clock
           /\ pc[q] = "timed" => clock <= stamp[q] + MaxDelay)'
    BY <1>1, <1>2 DEF IInv, TypeOK, StampsFresh
  <2>2. (\A s \in Sweepers : sweep[s].op = "evict" => sweep[s].cutoff <= clock - Window)'
    BY <1>1 DEF IInv, StampsFresh
  <2>3. ASSUME NEW j \in Keys, NEW a \in log'[j]
        PROVE  (/\ pc[a] = "allowed"
                /\ KeyOf[a] = j
                /\ stamp[a] <= decided[a]
                /\ decided[a] <= stamp[a] + MaxDelay
                /\ decided[a] <= clock)'
    <3>1. CASE a = r
      BY <1>1, <1>2, <2>3, <3>1 DEF IInv, TypeOK
    <3>2. CASE a # r
      BY <1>1, <1>2, <2>3, <3>2 DEF IInv, TypeOK, StampsFresh
    <3>3. QED
      BY <3>1, <3>2
  <2>4. QED
    BY <2>1, <2>2, <2>3 DEF StampsFresh
<1>7. DequeBounded'
  <2>1. SUFFICES ASSUME NEW j \in Keys
                 PROVE  /\ entries'[j] \subseteq log'[j]
                        /\ IsFiniteSet(log'[j])
                        /\ Cardinality(entries'[j]) <= MaxRequests
    BY DEF DequeBounded
  <2>2. CASE j # k
    BY <1>1, <2>2 DEF IInv, TypeOK, DequeBounded
  <2>3. CASE j = k
    <3>1. entries'[k] = Drained(r) \cup {r} /\ log'[k] = log[k] \cup {r}
      BY <1>1, <1>2 DEF IInv, TypeOK
    <3>2. IsFiniteSet(log[k])
      BY <1>2 DEF IInv, DequeBounded
    <3>3. IsFiniteSet(log[k] \cup {r})
      BY <3>2, AddOne
    <3>4. /\ Cardinality(Drained(r) \cup {r}) \in Nat
          /\ Cardinality(Drained(r) \cup {r}) <= Cardinality(Drained(r)) + 1
      BY <1>4, AddOne
    <3>5. Cardinality(Drained(r) \cup {r}) <= MaxRequests
      BY <1>1, <1>4, <3>4, LimiterAssumption
    <3>6. QED
      BY <1>4, <2>3, <3>1, <3>3, <3>5
  <2>4. QED
    BY <2>2, <2>3
<1>8. RecentKept'
  <2>1. SUFFICES ASSUME NEW j \in Keys, NEW a \in Admitted(j, Window - MaxDelay)'
                 PROVE  a \in entries'[j]
    BY DEF RecentKept
  <2>2. CASE a = r
    BY <1>1, <1>2, <2>1, <2>2 DEF Admitted, IInv, TypeOK
  <2>3. CASE a # r
    <3>1. a \in Admitted(j, Window - MaxDelay)
      BY <1>1, <1>2, <2>1, <2>3 DEF Admitted, IInv, TypeOK
    <3>2. CASE j = k
      BY <1>1, <1>2, <1>5, <3>1, <3>2 DEF IInv, TypeOK
    <3>3. CASE j # k
      BY <1>1, <1>2, <3>1, <3>3 DEF IInv, TypeOK, RecentKept
    <3>4. QED
      BY <3>2, <3>3
  <2>4. QED
    BY <2>2, <2>3
<1>9. QED
  BY <1>6, <1>7, <1>8 DEF IInv

LEMMA DenyIInv ==
  ASSUME IInv, TypeOK', NEW r \in Requests, Deny(r)
  PROVE  IInv'
<1> DEFINE k == KeyOf[r]
<1>1. /\ pc[r] = "timed"
      /\ pc' = [pc EXCEPT ![r] = "denied"]
      /\ entries' = [entries EXCEPT ![k] = Drained(r)]
      /\ decided' = [decided EXCEPT ![r] = clock]
      /\ UNCHANGED <<clock, stamp, sweep, log>>
  BY DEF Deny
<1>2. /\ stamp[r] \in Nat /\ clock \in Nat
      /\ stamp[r] <= clock
      /\ k \in Keys
      /\ \A j \in Keys : r \notin log[j]
  BY <1>1, TimedCall
<1>3. stamp[r] - Window \in Int /\ stamp[r] - Window <= clock - Window
  BY <1>2, LimiterAssumption
<1>4. StampsFresh'
  <2>1. (\A q \in Requests :
           /\ stamp[q] <= clock
           /\ pc[q] = "timed" => clock <= stamp[q] + MaxDelay)'
    BY <1>1, <1>2 DEF IInv, TypeOK, StampsFresh
  <2>2. (\A s \in Sweepers : sweep[s].op = "evict" => sweep[s].cutoff <= clock - Window)'
    BY <1>1 DEF IInv, StampsFresh
  <2>3. ASSUME NEW j \in Keys, NEW a \in log'[j]
        PROVE  (/\ pc[a] = "allowed"
                /\ KeyOf[a] = j
                /\ stamp[a] <= decided[a]
                /\ decided[a] <= stamp[a] + MaxDelay
                /\ decided[a] <= clock)'
    BY <1>1, <1>2 DEF IInv, TypeOK, StampsFresh
  <2>4. QED
    BY <2>1, <2>2, <2>3 DEF StampsFresh
<1>5. DequeBounded'
  <2>1. /\ Drained(r) \subseteq log[k]
        /\ Cardinality(Drained(r)) <= MaxRequests
    BY <1>2, <1>3, LiveBounded DEF Drained
  <2>2. QED
    BY <1>1, <1>2, <2>1 DEF IInv, TypeOK, DequeBounded
<1>6. RecentKept'
  <2>1. Admitted(k, Window - MaxDelay) \subseteq Drained(r)
    BY <1>2, <1>3, LiveKeepsRecent DEF Drained
  <2>2. \A j \in Keys : Admitted(j, Window - MaxDelay)' = Admitted(j, Window - MaxDelay)
    BY <1>1, <1>2 DEF Admitted, IInv, TypeOK
  <2>3. QED
    BY <1>1, <1>2, <2>1, <2>2 DEF IInv, TypeOK, RecentKept
<1>7. QED
  BY <1>4, <1>5, <1>6 DEF IInv

\* Steps of reset, clear and evict_stale shrink deques and forget admissions:
\* the invariant is kept when what remains of a log is in what remains of its
\* deque, or is old.
LEMMA ShrinkIInv ==
  ASSUME IInv, TypeOK',
         UNCHANGED <<clock, pc, stamp, decided>>,
         \A s \in Sweepers : sweep'[s].op = "evict" => sweep'[s].cutoff <= clock - Window,
         \A k \in Keys : /\ entries'[k] \subseteq entries[k]
                         /\ \/ log'[k] = {} /\ entries'[k] = {}
                            \/ /\ log'[k] = log[k]
                               /\ Admitted(k, Window - MaxDelay) \subseteq entries'[k]
  PROVE  IInv'
<1>1. StampsFresh'
  BY DEF IInv, TypeOK, StampsFresh
<1>2. DequeBounded'
  <2>1. SUFFICES ASSUME NEW k \in Keys
                 PROVE  /\ entries'[k] \subseteq log'[k]
                        /\ IsFiniteSet(log'[k])
                        /\ Cardinality(entries'[k]) <= MaxRequests
    BY DEF DequeBounded
  <2>2. entries[k] \subseteq log[k] /\ IsFiniteSet(log[k]) /\ Cardinality(entries[k]) <= MaxRequests
    BY DEF IInv, DequeBounded
  <2>3. IsFiniteSet(entries[k])
    BY <2>2, FS_Subset
  <2>4. IsFiniteSet(entries'[k]) /\ Cardinality(entries'[k]) <= Cardinality(entries[k])
    BY <2>3, FS_Subset
  <2>5. Cardinality(entries'[k]) \in Nat /\ Cardinality(entries[k]) \in Nat
    BY <2>3, <2>4, FS_CardinalityType
  <2>6. Cardinality(entries'[k]) <= MaxRequests
    BY <2>2, <2>4, <2>5, LimiterAssumption
  <2>7. IsFiniteSet(log'[k])
    BY <2>2, FS_EmptySet
  <2>8. QED
    BY <2>2, <2>6, <2>7
<1>3. RecentKept'
  BY DEF RecentKept, Admitted
<1>4. QED
  BY <1>1, <1>2, <1>3 DEF IInv

LEMMA ResetIInv ==
  ASSUME IInv, TypeOK', NEW k \in Keys, Reset(k)
  PROVE  IInv'
<1>1. \A s \in Sweepers : sweep'[s].op = "evict" => sweep'[s].cutoff <= clock - Window
  BY DEF Reset, IInv, StampsFresh
<1>2. ASSUME NEW j \in Keys
      PROVE  /\ entries'[j] \subseteq entries[j]
             /\ \/ log'[j] = {} /\ entries'[j] = {}
                \/ /\ log'[j] = log[j]
                   /\ Admitted(j, Window - MaxDelay) \subseteq entries'[j]
  BY DEF Reset, IInv, TypeOK, RecentKept
<1>3. QED
  BY <1>1, <1>2, ShrinkIInv DEF Reset

\* Advancing a sweep does not change its cutoff.
LEMMA AdvancedCutoff ==
  ASSUME IInv, NEW s \in Sweepers, sweep' = [sweep EXCEPT ![s] = Advanced(s)]
  PROVE  \A q \in Sweepers : sweep'[q].op = "evict" => sweep'[q].cutoff <= clock - Window
  BY DEF IInv, TypeOK, StampsFresh, Advanced, Further, Idle

LEMMA EvictShardIInv ==
  ASSUME IInv, TypeOK', NEW s \in Sweepers, EvictShard(s)
  PROVE  IInv'
<1>1. sweep[s].cutoff \in Int /\ sweep[s].cutoff <= clock - Window
  BY DEF EvictShard, IInv, TypeOK, StampsFresh
<1>2. ASSUME NEW j \in Keys
      PROVE  /\ entries'[j] \subseteq entries[j]
             /\ log'[j] = log[j]
             /\ Admitted(j, Window - MaxDelay) \subseteq entries'[j]
  <2>1. CASE j \in Shard(s)
    <3>1. entries'[j] = Live(j, sweep[s].cutoff) /\ log'[j] = log[j]
      BY <2>1 DEF EvictShard
    <3>2. QED
      BY <1>1, <3>1, LiveKeepsRecent, LiveBounded
  <2>2. CASE j \notin Shard(s)
    BY <2>2 DEF EvictShard, IInv, RecentKept
  <2>3. QED
    BY <2>1, <2>2
<1>3. \A q \in Sweepers : sweep'[q].op = "evict" => sweep'[q].cutoff <= clock - Window
  BY AdvancedCutoff DEF EvictShard
<1>4. UNCHANGED <<clock, pc, stamp, decided>>
  BY DEF EvictShard
<1>5. QED
  BY <1>2, <1>3, <1>4, ShrinkIInv

LEMMA ClearShardIInv ==
  ASSUME IInv, TypeOK', NEW s \in Sweepers, ClearShard(s)
  PROVE  IInv'
<1>1. ASSUME NEW j \in Keys
      PROVE  /\ entries'[j] \subseteq entries[j]
             /\ \/ log'[j] = {} /\ entries'[j] = {}
                \/ /\ log'[j] = log[j]
                   /\ Admitted(j, Window - MaxDelay) \subseteq entries'[j]
  BY DEF ClearShard, IInv, RecentKept
<1>2. \A q \in Sweepers : sweep'[q].op = "evict" => sweep'[q].cutoff <= clock - Window
  BY AdvancedCutoff DEF ClearShard
<1>3. UNCHANGED <<clock, pc, stamp, decided>>
  BY DEF ClearShard
<1>4. QED
  BY <1>1, <1>2, <1>3, ShrinkIInv

\* A step that leaves the deques, the logs and what was decided alone keeps
\* the invariant when it keeps StampsFresh and time does not run backwards.
LEMMA QuietIInv ==
  ASSUME IInv, TypeOK', StampsFresh', UNCHANGED <<entries, log, decided>>, clock <= clock'
  PROVE  IInv'
<1>1. DequeBounded'
  BY DEF IInv, DequeBounded
<1>2. RecentKept'
  <2>1. SUFFICES ASSUME NEW k \in Keys, NEW a \in Admitted(k, Window - MaxDelay)'
                 PROVE  a \in entries'[k]
    BY DEF RecentKept
  <2>2. clock \in Int /\ clock' \in Int /\ Window - MaxDelay \in Int /\ decided[a] \in Int
    BY <2>1, LimiterAssumption DEF IInv, TypeOK, Admitted
  <2>3. a \in Admitted(k, Window - MaxDelay)
    BY <2>1, <2>2 DEF Admitted
  <2>4. QED
    BY <2>3 DEF IInv, RecentKept
<1>3. QED
  BY <1>1, <1>2 DEF IInv

LEMMA IInvNext == IInv /\ [Next]_vars => IInv'
<1> SUFFICES ASSUME IInv, [Next]_vars PROVE IInv'
  OBVIOUS
<1> USE LimiterAssumption
<1>a. TypeOK'
  BY TypeOKNext DEF IInv
<1>1. ASSUME NEW r \in Requests, Now(r) PROVE IInv'
  <2>1. StampsFresh'
    BY <1>1 DEF Now, IInv, TypeOK, StampsFresh
  <2>2. QED
    BY <1>1, <1>a, <2>1, QuietIInv DEF Now, IInv, TypeOK
<1>2. ASSUME NEW r \in Requests, Panic(r) PROVE IInv'
  <2>1. StampsFresh'
    BY <1>2 DEF Panic, IInv, TypeOK, StampsFresh
  <2>2. QED
    BY <1>2, <1>a, <2>1, QuietIInv DEF Panic, IInv, TypeOK
<1>3. ASSUME NEW r \in Requests, Allow(r) PROVE IInv'
  BY <1>3, <1>a, AllowIInv
<1>4. ASSUME NEW r \in Requests, Deny(r) PROVE IInv'
  BY <1>4, <1>a, DenyIInv
<1>5. ASSUME NEW k \in Keys, Reset(k) PROVE IInv'
  BY <1>5, <1>a, ResetIInv
<1>6. ASSUME NEW s \in Sweepers, StartEvict(s) PROVE IInv'
  <2>1. StampsFresh'
    BY <1>6 DEF StartEvict, IInv, TypeOK, StampsFresh
  <2>2. QED
    BY <1>6, <1>a, <2>1, QuietIInv DEF StartEvict, IInv, TypeOK
<1>7. ASSUME NEW s \in Sweepers, StartClear(s) PROVE IInv'
  <2>1. StampsFresh'
    BY <1>7 DEF StartClear, IInv, TypeOK, StampsFresh
  <2>2. QED
    BY <1>7, <1>a, <2>1, QuietIInv DEF StartClear, IInv, TypeOK
<1>8. ASSUME NEW s \in Sweepers, EvictShard(s) PROVE IInv'
  BY <1>8, <1>a, EvictShardIInv
<1>9. ASSUME NEW s \in Sweepers, ClearShard(s) PROVE IInv'
  BY <1>9, <1>a, ClearShardIInv
<1>10. CASE Tick
  <2>1. clock' = clock + 1 /\ UNCHANGED <<pc, stamp, sweep, entries, log, decided>> /\ clock \in Nat
    BY <1>10 DEF Tick, IInv, TypeOK
  <2>2. \A r \in Requests : pc[r] = "timed" => clock - stamp[r] < MaxDelay
    BY <1>10 DEF Tick
  <2>3. StampsFresh'
    <3>1. (\A q \in Requests :
             /\ stamp[q] <= clock
             /\ pc[q] = "timed" => clock <= stamp[q] + MaxDelay)'
      BY <2>1, <2>2 DEF IInv, TypeOK, StampsFresh
    <3>2. (\A s \in Sweepers : sweep[s].op = "evict" => sweep[s].cutoff <= clock - Window)'
      BY <2>1 DEF IInv, TypeOK, StampsFresh
    <3>3. ASSUME NEW j \in Keys, NEW a \in log'[j]
          PROVE  (/\ pc[a] = "allowed"
                  /\ KeyOf[a] = j
                  /\ stamp[a] <= decided[a]
                  /\ decided[a] <= stamp[a] + MaxDelay
                  /\ decided[a] <= clock)'
      BY <2>1 DEF IInv, TypeOK, StampsFresh
    <3>4. QED
      BY <3>1, <3>2, <3>3 DEF StampsFresh
  <2>4. QED
    BY <1>a, <2>1, <2>3, QuietIInv
<1>11. CASE UNCHANGED vars
  BY <1>11 DEF vars, IInv, TypeOK, StampsFresh, DequeBounded, RecentKept, Admitted
<1>12. QED
  BY <1>1, <1>2, <1>3, <1>4, <1>5, <1>6, <1>7, <1>8, <1>9, <1>10, <1>11 DEF Next

\* The invariant holds in every reachable state.
THEOREM IInvHolds == Spec => []IInv
  BY IInvInit, IInvNext, PTL DEF Spec

\* The recent admissions of a key are part of its deque, which respects the
\* limit.
LEMMA IInvWindowLimit == IInv => WindowLimit
<1> SUFFICES ASSUME IInv, NEW k \in Keys
             PROVE  Cardinality(Admitted(k, Window - MaxDelay)) <= MaxRequests
  BY DEF WindowLimit
<1>1. /\ Admitted(k, Window - MaxDelay) \subseteq entries[k]
      /\ entries[k] \subseteq log[k]
      /\ IsFiniteSet(log[k])
      /\ Cardinality(entries[k]) <= MaxRequests
  BY DEF IInv, RecentKept, DequeBounded
<1>2. IsFiniteSet(entries[k])
  BY <1>1, FS_Subset
<1>3. /\ IsFiniteSet(Admitted(k, Window - MaxDelay))
      /\ Cardinality(Admitted(k, Window - MaxDelay)) <= Cardinality(entries[k])
  BY <1>1, <1>2, FS_Subset
<1>4. /\ Cardinality(Admitted(k, Window - MaxDelay)) \in Nat
      /\ Cardinality(entries[k]) \in Nat
  BY <1>2, <1>3, FS_CardinalityType
<1>5. QED
  BY <1>1, <1>3, <1>4, LimiterAssumption

\* However many calls, resets, clears and evictions interleave, no key has
\* more than MaxRequests admissions within Window - MaxDelay.
THEOREM WindowLimitHolds == Spec => []WindowLimit
  BY IInvHolds, IInvWindowLimit, PTL

-----------------------------------------------------------------------------
(* Empty deques                                                            *)

\* A call is denied only by what is in its deque.
LEMMA DenyKeepsSome ==
  ASSUME IInv, NEW r \in Requests, Deny(r)
  PROVE  Drained(r) # {}
<1>1. MaxRequests \in Nat \ {0} /\ ~(Cardinality(Drained(r)) < MaxRequests)
  BY LimiterAssumption DEF Deny, HasRoom
<1>2. Cardinality({}) = 0
  BY FS_EmptySet
<1>3. QED
  BY <1>1, <1>2

LEMMA NoEmptyNext == IInv /\ NoEmptyDeque /\ [Next]_vars => NoEmptyDeque'
<1> SUFFICES ASSUME IInv, NoEmptyDeque, [Next]_vars PROVE NoEmptyDeque'
  OBVIOUS
<1>t. TypeOK
  BY DEF IInv
<1>1. ASSUME UNCHANGED <<tracked, entries>> PROVE NoEmptyDeque'
  BY <1>1 DEF NoEmptyDeque
<1>2. ASSUME NEW r \in Requests, Allow(r) PROVE NoEmptyDeque'
  BY <1>t, <1>2, LimiterAssumption DEF Allow, NoEmptyDeque, TypeOK
<1>3. ASSUME NEW r \in Requests, Deny(r) PROVE NoEmptyDeque'
  BY <1>t, <1>3, DenyKeepsSome, LimiterAssumption DEF Deny, NoEmptyDeque, TypeOK
<1>4. ASSUME NEW k \in Keys, Reset(k) PROVE NoEmptyDeque'
  BY <1>t, <1>4 DEF Reset, NoEmptyDeque, TypeOK
<1>5. ASSUME NEW s \in Sweepers, EvictShard(s) PROVE NoEmptyDeque'
  BY <1>5 DEF EvictShard, KeysKept, NoEmptyDeque, Live
<1>6. ASSUME NEW s \in Sweepers, ClearShard(s) PROVE NoEmptyDeque'
  BY <1>6 DEF ClearShard, NoEmptyDeque
<1>7. QED
  BY <1>1, <1>2, <1>3, <1>4, <1>5, <1>6
     DEF Next, Now, Panic, StartEvict, StartClear, Tick, vars

\* key_count counts the keys with a recorded admission, whatever calls, resets
\* and sweeps do at the same time.
THEOREM NoEmptyDequeHolds == Spec => []NoEmptyDeque
<1>1. Init => NoEmptyDeque
  BY DEF Init, NoEmptyDeque
<1>2. QED
  BY <1>1, NoEmptyNext, IInvHolds, PTL DEF Spec

-----------------------------------------------------------------------------
(* Retry-After                                                             *)

\* Only Deny denies.
LEMMA WhoDenies ==
  ASSUME TypeOK, [Next]_vars, NEW q \in Requests, pc[q] = "timed", pc'[q] = "denied"
  PROVE  Deny(q)
<1>1. ASSUME NEW r \in Requests, Now(r) \/ Panic(r) \/ Allow(r) PROVE FALSE
  BY <1>1 DEF Now, Panic, Allow, TypeOK
<1>2. ASSUME NEW r \in Requests, Deny(r) PROVE r = q
  BY <1>2 DEF Deny, TypeOK
<1>3. pc' # pc
  OBVIOUS
<1>4. QED
  BY <1>1, <1>2, <1>3
     DEF Next, Reset, StartEvict, StartClear, EvictShard, ClearShard, Tick, vars

\* A call made Window after a denial is denied only because of calls that were
\* admitted in between: Retry-After never sends a client away too early.
THEOREM RetryAfterHolds == Spec => RetryAfterSuffices
<1>1. ASSUME IInv, [Next]_vars, NEW r \in Requests, NEW q \in Requests,
             pc[q] = "timed", pc'[q] = "denied", KeyOf[q] = KeyOf[r],
             stamp[q] >= decided[r] + Window
      PROVE  Cardinality({a \in log[KeyOf[r]] : decided[a] > decided[r]}) >= MaxRequests
  <2> DEFINE k == KeyOf[r]
             Since == {a \in log[k] : decided[a] > decided[r]}
  <2>1. Deny(q) /\ k \in Keys
    BY <1>1, WhoDenies, LimiterAssumption DEF IInv
  <2>2. /\ stamp[q] \in Nat /\ decided[r] \in Nat /\ Window \in Nat
        /\ stamp[q] - Window \in Int
    BY <1>1, LimiterAssumption DEF IInv, TypeOK
  <2>3. Drained(q) \subseteq Since
    <3>1. SUFFICES ASSUME NEW a \in Drained(q) PROVE a \in Since
      OBVIOUS
    <3>2. a \in log[k] /\ a \in Requests /\ stamp[a] > stamp[q] - Window
      BY <1>1, <2>1, <3>1 DEF Drained, Live, IInv, TypeOK, DequeBounded
    <3>3. stamp[a] <= decided[a] /\ stamp[a] \in Nat /\ decided[a] \in Nat
      BY <1>1, <2>1, <3>2 DEF IInv, TypeOK, StampsFresh
    <3>4. decided[a] > decided[r]
      BY <1>1, <2>2, <3>2, <3>3
    <3>5. QED
      BY <3>2, <3>4
  <2>4. IsFiniteSet(Since)
    <3>1. IsFiniteSet(log[k]) /\ Since \subseteq log[k]
      BY <1>1, <2>1 DEF IInv, DequeBounded
    <3>2. QED
      BY <3>1, FS_Subset
  <2>5. /\ IsFiniteSet(Drained(q)) /\ Cardinality(Drained(q)) <= Cardinality(Since)
        /\ Cardinality(Since) \in Nat
    BY <2>3, <2>4, FS_Subset, FS_CardinalityType
  <2>6. Cardinality(Drained(q)) \in Nat /\ ~(Cardinality(Drained(q)) < MaxRequests)
    BY <2>1, <2>5, FS_CardinalityType DEF Deny, HasRoom
  <2> HIDE DEF Since
  <2>7. Cardinality(Since) >= MaxRequests
    BY <2>5, <2>6, LimiterAssumption
  <2>8. QED
    BY <2>7 DEF Since
<1> DEFINE A == \A r, q \in Requests :
                  /\ pc[r] = "denied" /\ pc[q] = "timed" /\ pc'[q] = "denied"
                  /\ KeyOf[q] = KeyOf[r]
                  /\ stamp[q] >= decided[r] + Window
                  => Cardinality({a \in log[KeyOf[r]] : decided[a] > decided[r]}) >= MaxRequests
<1>2. IInv /\ [Next]_vars => A
  BY <1>1
<1>3. IInv /\ [Next]_vars => [A]_vars
  BY <1>2
<1>4. QED
  BY <1>3, IInvHolds, PTL DEF Spec, RetryAfterSuffices

-----------------------------------------------------------------------------
(* Eviction                                                                *)

\* An admission that justifies that its key is still there after eviction s.
Fresh(s, a) == stamp[a] > sweep[s].cutoff \/ decided[a] >= sweep[s].cutoff + Window

\* The keys in the shards an eviction has left behind all have one.
Swept ==
  \A s \in Sweepers : sweep[s].op = "evict" =>
    \A k \in tracked : ShardOf[k] < sweep[s].at => \E a \in entries[k] : Fresh(s, a)

\* Draining a deque leaves it empty or keeps a fresh admission, because what
\* it keeps is younger than what it drops.
LEMMA LiveFresh ==
  ASSUME IInv, MaxDelay <= Window, NEW s \in Sweepers, NEW k \in Keys, NEW c \in Int,
         NEW a \in entries[k], Fresh(s, a), Live(k, c) # {}
  PROVE  \E x \in Live(k, c) : Fresh(s, x)
<1>1. PICK x \in Live(k, c) : TRUE
  OBVIOUS
<1>2. \A y \in entries[k] :
        /\ y \in Requests /\ stamp[y] \in Nat /\ decided[y] \in Nat
        /\ decided[y] <= stamp[y] + MaxDelay
  BY DEF IInv, TypeOK, StampsFresh, DequeBounded
<1>3. sweep[s].cutoff \in Int /\ Window \in Nat /\ MaxDelay \in Nat
  BY LimiterAssumption DEF IInv, TypeOK
<1>4. CASE stamp[a] > c
  BY <1>4 DEF Live
<1>5. CASE stamp[a] <= c
  <2>1. x \in entries[k] /\ stamp[x] > c
    BY <1>1 DEF Live
  <2>2. stamp[x] > sweep[s].cutoff
    BY <1>2, <1>3, <1>5, <2>1 DEF Fresh
  <2>3. QED
    BY <1>1, <2>2 DEF Fresh
<1>6. QED
  BY <1>2, <1>4, <1>5

\* A step that drains some deques of a part of their keys, and leaves the
\* sweeps as they are.
LEMMA DrainSwept ==
  ASSUME IInv, Swept, MaxDelay <= Window, NEW s \in Sweepers, NEW k \in Keys, NEW c \in Int,
         sweep[s].op = "evict", ShardOf[k] < sweep[s].at, k \in tracked,
         entries'[k] = Live(k, c), entries'[k] # {},
         sweep'[s].cutoff = sweep[s].cutoff,
         \A a \in entries[k] : stamp'[a] = stamp[a] /\ decided'[a] = decided[a]
  PROVE  \E a \in entries'[k] : Fresh(s, a)'
<1>1. PICK a \in entries[k] : Fresh(s, a)
  BY DEF Swept
<1>2. PICK x \in Live(k, c) : Fresh(s, x)
  BY <1>1, LiveFresh
<1>3. x \in entries[k]
  BY DEF Live
<1>4. QED
  BY <1>2, <1>3 DEF Fresh

LEMMA StaySwept ==
  ASSUME Swept, NEW s \in Sweepers, NEW k \in tracked,
         sweep[s].op = "evict", ShardOf[k] < sweep[s].at,
         entries'[k] = entries[k], sweep'[s].cutoff = sweep[s].cutoff,
         \A a \in entries[k] : stamp'[a] = stamp[a] /\ decided'[a] = decided[a]
  PROVE  \E a \in entries'[k] : Fresh(s, a)'
  BY DEF Swept, Fresh

\* Calls and resets on key k.
LEMMA AllowSwept ==
  ASSUME IInv, Swept, NEW r \in Requests, Allow(r)
  PROVE  Swept'
<1> DEFINE k == KeyOf[r]
<1>1. /\ pc[r] = "timed" /\ k \in Keys /\ sweep' = sweep /\ stamp' = stamp
      /\ tracked' = tracked \cup {k}
      /\ r \in entries'[k] /\ \A j \in Keys \ {k} : entries'[j] = entries[j]
      /\ decided'[r] = clock /\ \A a \in Requests \ {r} : decided'[a] = decided[a]
  BY LimiterAssumption DEF Allow, IInv, TypeOK
<1>2. ASSUME NEW s \in Sweepers, sweep[s].op = "evict", NEW j \in tracked',
             ShardOf[j] < sweep[s].at
      PROVE  \E a \in entries'[j] : Fresh(s, a)'
  <2>1. CASE j = k
    <3>1. sweep[s].cutoff <= clock - Window /\ sweep[s].cutoff \in Int /\ clock \in Nat
      BY <1>2 DEF IInv, TypeOK, StampsFresh
    <3>2. clock >= sweep[s].cutoff + Window
      BY <3>1, LimiterAssumption
    <3>3. Fresh(s, r)'
      BY <1>1, <3>2 DEF Fresh
    <3>4. QED
      BY <1>1, <2>1, <3>3
  <2>2. CASE j # k
    <3>1. j \in tracked /\ j \in Keys
      BY <1>1, <2>2 DEF IInv, TypeOK
    <3>2. \A a \in entries[j] : a \in Requests /\ a # r
      BY <1>1, <3>1, TimedCall DEF IInv, TypeOK, DequeBounded
    <3>3. QED
      BY <1>1, <1>2, <2>2, <3>1, <3>2, StaySwept
  <2>3. QED
    BY <2>1, <2>2
<1>3. QED
  BY <1>1, <1>2 DEF Swept

LEMMA DenySwept ==
  ASSUME IInv, Swept, NoEmptyDeque, MaxDelay <= Window, NEW r \in Requests, Deny(r)
  PROVE  Swept'
<1> DEFINE k == KeyOf[r]
<1>1. /\ pc[r] = "timed" /\ k \in Keys /\ sweep' = sweep /\ stamp' = stamp
      /\ tracked' = tracked \cup {k}
      /\ entries'[k] = Live(k, stamp[r] - Window)
      /\ \A j \in Keys \ {k} : entries'[j] = entries[j]
      /\ \A a \in Requests \ {r} : decided'[a] = decided[a]
  BY LimiterAssumption DEF Deny, Drained, IInv, TypeOK
<1>2. \A j \in Keys : \A a \in entries[j] : a \in Requests /\ a # r
  BY <1>1, TimedCall DEF IInv, TypeOK, DequeBounded
<1>3. entries'[k] # {} /\ stamp[r] - Window \in Int
  BY <1>1, DenyKeepsSome, LimiterAssumption DEF Drained, IInv, TypeOK
<1>4. k \in tracked
  BY <1>1, <1>3 DEF NoEmptyDeque, Live
<1>5. ASSUME NEW s \in Sweepers, sweep[s].op = "evict", NEW j \in tracked',
             ShardOf[j] < sweep[s].at
      PROVE  \E a \in entries'[j] : Fresh(s, a)'
  <2>1. CASE j = k
    BY <1>1, <1>2, <1>3, <1>4, <1>5, <2>1, DrainSwept
  <2>2. CASE j # k
    <3>1. j \in tracked /\ j \in Keys
      BY <1>1, <2>2, <1>5 DEF IInv, TypeOK
    <3>2. QED
      BY <1>1, <1>2, <1>5, <2>2, <3>1, StaySwept
  <2>3. QED
    BY <2>1, <2>2
<1>6. QED
  BY <1>1, <1>5 DEF Swept

\* A shard that is evicted, by the same sweeper or another one.
LEMMA EvictSwept ==
  ASSUME IInv, Swept, MaxDelay <= Window, NEW t \in Sweepers, EvictShard(t)
  PROVE  Swept'
<1> DEFINE c == sweep[t].cutoff
<1>1. /\ sweep[t].op = "evict" /\ stamp' = stamp /\ decided' = decided
      /\ sweep'[t] = Advanced(t) /\ \A s \in Sweepers \ {t} : sweep'[s] = sweep[s]
      /\ c \in Int /\ tracked \subseteq Keys /\ sweep[t].at \in Nat
  BY LimiterAssumption DEF EvictShard, IInv, TypeOK
<1>2. \A k \in Keys : entries'[k] = IF k \in Shard(t) THEN Live(k, c) ELSE entries[k]
  BY DEF EvictShard
<1>3. \A k \in tracked' : k \in tracked /\ (k \in Shard(t) => Live(k, c) # {})
  BY DEF EvictShard, KeysKept
<1>4. ASSUME NEW s \in Sweepers, sweep'[s].op = "evict", NEW k \in tracked',
             ShardOf[k] < sweep'[s].at
      PROVE  \E a \in entries'[k] : Fresh(s, a)'
  <2>1. k \in tracked /\ k \in Keys /\ ShardOf[k] \in Nat
    BY <1>1, <1>3, LimiterAssumption
  <2>2. sweep[s].op = "evict" /\ sweep'[s].cutoff = sweep[s].cutoff
    BY <1>1, <1>4 DEF Advanced, Further, Idle
  <2>3. CASE ShardOf[k] < sweep[s].at
    <3>1. CASE k \in Shard(t)
      <4>1. entries'[k] = Live(k, c) /\ entries'[k] # {}
        BY <1>2, <1>3, <2>1, <3>1
      <4>2. QED
        BY <1>1, <2>1, <2>2, <2>3, <4>1, DrainSwept
    <3>2. CASE k \notin Shard(t)
      <4>1. entries'[k] = entries[k]
        BY <1>2, <2>1, <3>2
      <4>2. QED
        BY <1>1, <2>1, <2>2, <2>3, <4>1, StaySwept
    <3>3. QED
      BY <3>1, <3>2
  <2>4. CASE ~(ShardOf[k] < sweep[s].at)
    <3>1. s = t /\ sweep'[s].at = sweep[t].at + 1
      BY <1>1, <1>4, <2>4 DEF Advanced, Further, Idle
    <3>2. ShardOf[k] = sweep[t].at
      BY <1>1, <1>4, <2>1, <2>4, <3>1
    <3>3. k \in Shard(t)
      BY <2>1, <3>2 DEF Shard
    <3>4. PICK a \in Live(k, c) : TRUE
      BY <1>3, <3>3
    <3>5. stamp[a] > c /\ a \in entries'[k]
      BY <1>2, <2>1, <3>3, <3>4 DEF Live
    <3>6. Fresh(s, a)'
      BY <1>1, <2>2, <3>1, <3>5 DEF Fresh
    <3>7. QED
      BY <3>5, <3>6
  <2>5. QED
    BY <2>3, <2>4
<1>5. QED
  BY <1>4 DEF Swept

\* Keys may go, and the sweeps may stand still or begin.
LEMMA FewerSwept ==
  ASSUME Swept, UNCHANGED <<stamp, decided>>, tracked' \subseteq tracked,
         \A k \in tracked' : entries'[k] = entries[k],
         \A s \in Sweepers : sweep'[s].op = "evict" =>
           sweep'[s] = sweep[s] \/ \A k \in tracked' : ~(ShardOf[k] < sweep'[s].at)
  PROVE  Swept'
<1>1. ASSUME NEW s \in Sweepers, sweep'[s].op = "evict", NEW k \in tracked',
             ShardOf[k] < sweep'[s].at
      PROVE  \E a \in entries'[k] : Fresh(s, a)'
  <2>1. sweep'[s] = sweep[s]
    BY <1>1
  <2>2. QED
    BY <1>1, <2>1, StaySwept
<1>2. QED
  BY <1>1 DEF Swept

LEMMA SweptNext ==
  ASSUME IInv, NoEmptyDeque, Swept, MaxDelay <= Window, [Next]_vars
  PROVE  Swept'
<1>t. TypeOK /\ tracked \subseteq Keys
  BY DEF IInv, TypeOK
<1>1. ASSUME NEW r \in Requests, Now(r) PROVE Swept'
  <2>1. /\ UNCHANGED <<tracked, entries, sweep, decided>>
        /\ pc[r] = "idle" /\ \A a \in Requests \ {r} : stamp'[a] = stamp[a]
    BY <1>t, <1>1 DEF Now, TypeOK
  <2>2. \A k \in Keys : \A a \in entries[k] : a \in Requests \ {r}
    BY <1>t, <2>1 DEF IInv, TypeOK, DequeBounded, StampsFresh
  <2>3. ASSUME NEW s \in Sweepers, sweep[s].op = "evict", NEW k \in tracked,
               ShardOf[k] < sweep[s].at
        PROVE  \E a \in entries'[k] : Fresh(s, a)'
    BY <1>t, <2>1, <2>2, <2>3, StaySwept
  <2>4. QED
    BY <2>1, <2>3 DEF Swept
<1>2. ASSUME UNCHANGED <<stamp, tracked, entries, sweep, decided>> PROVE Swept'
  BY <1>2 DEF Swept, Fresh
<1>3. ASSUME NEW r \in Requests, Allow(r) PROVE Swept'
  BY <1>3, AllowSwept
<1>4. ASSUME NEW r \in Requests, Deny(r) PROVE Swept'
  BY <1>4, DenySwept
<1>5. ASSUME NEW k \in Keys, Reset(k) PROVE Swept'
  BY <1>t, <1>5, FewerSwept DEF Reset, TypeOK
<1>6. ASSUME NEW t \in Sweepers, StartEvict(t) \/ StartClear(t) PROVE Swept'
  <2>1. UNCHANGED <<stamp, decided, tracked, entries>>
    BY <1>6 DEF StartEvict, StartClear
  <2>2. ASSUME NEW s \in Sweepers, sweep'[s].op = "evict"
        PROVE  sweep'[s] = sweep[s] \/ \A k \in tracked' : ~(ShardOf[k] < sweep'[s].at)
    <3>1. CASE s # t
      BY <1>t, <1>6, <3>1 DEF StartEvict, StartClear, TypeOK
    <3>2. CASE s = t
      <4>1. sweep'[s].at = 1
        BY <1>t, <1>6, <3>2 DEF StartEvict, StartClear, TypeOK
      <4>2. \A k \in tracked' : ShardOf[k] \in Nat /\ ShardOf[k] >= 1
        BY <1>t, <2>1, LimiterAssumption
      <4>3. QED
        BY <4>1, <4>2
    <3>3. QED
      BY <3>1, <3>2
  <2>3. QED
    BY <2>1, <2>2, FewerSwept
<1>7. ASSUME NEW t \in Sweepers, EvictShard(t) PROVE Swept'
  BY <1>7, EvictSwept
<1>8. ASSUME NEW t \in Sweepers, ClearShard(t) PROVE Swept'
  <2>1. /\ UNCHANGED <<stamp, decided>> /\ tracked' \subseteq tracked
        /\ \A k \in tracked' : entries'[k] = entries[k]
    BY <1>t, <1>8 DEF ClearShard
  <2>2. \A s \in Sweepers : sweep'[s].op = "evict" => sweep'[s] = sweep[s]
    BY <1>t, <1>8 DEF ClearShard, Advanced, Further, Idle, TypeOK
  <2>3. QED
    BY <2>1, <2>2, FewerSwept
<1>9. QED
  BY <1>1, <1>2, <1>3, <1>4, <1>5, <1>6, <1>7, <1>8 DEF Next, Panic, Tick, vars

\* When evict_stale is done, no key is left that had nothing in the window,
\* whatever was called meanwhile - as long as no call is held up for longer
\* than a window.
THEOREM EvictionHolds == MaxDelay <= Window => (Spec => EvictLeavesNoStaleKey)
<1> SUFFICES ASSUME MaxDelay <= Window PROVE Spec => EvictLeavesNoStaleKey
  OBVIOUS
<1>1. ASSUME IInv, Swept, MaxDelay <= Window, [Next]_vars, NEW s \in Sweepers,
             sweep[s].op = "evict", sweep'[s].op = "idle", NEW k \in tracked'
      PROVE  \E a \in entries'[k] :
               stamp[a] > sweep[s].cutoff \/ decided[a] >= sweep[s].cutoff + Window
  <2>t. TypeOK
    BY <1>1 DEF IInv
  <2>1. EvictShard(s)
    <3>1. ASSUME NEW t \in Sweepers, StartEvict(t) \/ StartClear(t) \/ ClearShard(t) PROVE FALSE
      BY <2>t, <1>1, <3>1 DEF StartEvict, StartClear, ClearShard, TypeOK
    <3>2. ASSUME NEW t \in Sweepers, EvictShard(t) PROVE t = s
      BY <2>t, <1>1, <3>2 DEF EvictShard, TypeOK
    <3>3. sweep' # sweep
      BY <1>1
    <3>4. QED
      BY <1>1, <3>1, <3>2, <3>3 DEF Next, Now, Panic, Allow, Deny, Reset, Tick, vars
  <2>2. k \in Keys /\ k \in tracked /\ ShardOf[k] \in 1 .. NumShards
        /\ (k \in Shard(s) => Live(k, sweep[s].cutoff) # {})
    BY <2>t, <2>1, <1>1, LimiterAssumption DEF EvictShard, KeysKept, TypeOK
  <2>3. sweep[s].at \in Nat /\ sweep[s].at >= NumShards /\ sweep[s].cutoff \in Int
    BY <2>t, <2>1, <1>1, LimiterAssumption DEF EvictShard, Advanced, Further, TypeOK
  <2>4. ShardOf[k] <= sweep[s].at
    BY <2>2, <2>3, LimiterAssumption
  <2>5. CASE k \in Shard(s)
    BY <2>1, <2>2, <2>5 DEF EvictShard, Live
  <2>6. CASE k \notin Shard(s)
    <3>1. ShardOf[k] < sweep[s].at
      BY <2>2, <2>3, <2>4, <2>6 DEF Shard
    <3>2. entries'[k] = entries[k]
      BY <2>1, <2>2, <2>6 DEF EvictShard
    <3>3. QED
      BY <1>1, <2>2, <3>1, <3>2 DEF Swept, Fresh
  <2>7. QED
    BY <2>5, <2>6
<1> DEFINE A == \A s \in Sweepers :
                  sweep[s].op = "evict" /\ sweep'[s].op = "idle" =>
                    \A k \in tracked' : \E a \in entries'[k] :
                      \/ stamp[a] > sweep[s].cutoff
                      \/ decided[a] >= sweep[s].cutoff + Window
<1>2. IInv /\ Swept /\ [Next]_vars => A
  BY <1>1
<1>3. IInv /\ Swept /\ [Next]_vars => [A]_vars
  BY <1>2
<1>4. Init => Swept
  BY DEF Init, Swept
<1>5. IInv /\ NoEmptyDeque /\ Swept /\ [Next]_vars => Swept'
  BY SweptNext
<1>6. QED
  BY <1>3, <1>4, <1>5, IInvHolds, NoEmptyDequeHolds, PTL DEF Spec, EvictLeavesNoStaleKey

-----------------------------------------------------------------------------
(* The refinement: RateLimiter implements SlidingWindow.                   *)
(*                                                                         *)
(* Reading the clock, sweeping stale entries and starting a sweep are      *)
(* invisible in the abstract specification; Allow is its Admit, because    *)
(* every admission of the last Window - MaxDelay is in the drained deque;  *)
(* Deny is its Refuse, because a drained deque holds only admissions of    *)
(* the last Window + MaxDelay; Reset and each step of clear are its        *)
(* Forget.                                                                 *)


LEMMA InitImplements == Init => Abstract!Init
  BY DEF Init, Abstract!Init, Verdict

\* When a call changes its own pc only, its verdict changes accordingly.
LEMMA VerdictOf ==
  ASSUME TypeOK, NEW r \in Requests, NEW v \in {"allowed", "denied", "panicked"},
         pc[r] \in {"idle", "timed"}, pc' = [pc EXCEPT ![r] = v]
  PROVE  /\ Verdict[r] = "pending"
         /\ Verdict' = [Verdict EXCEPT ![r] = v]
  BY DEF TypeOK, Verdict

\* The abstract specification counts as this one does.
LEMMA SameCardinality == \A S : Abstract!Cardinality(S) = Cardinality(S)
  BY DEF Abstract!Cardinality, Cardinality

LEMMA AllowImplements ==
  ASSUME IInv, NEW r \in Requests, Allow(r)
  PROVE  Abstract!Admit(r)
<1> DEFINE k == KeyOf[r]
<1>1. pc[r] = "timed" /\ pc' = [pc EXCEPT ![r] = "allowed"]
  BY DEF Allow
<1>2. /\ Verdict[r] = "pending"
      /\ Verdict' = [Verdict EXCEPT ![r] = "allowed"]
  BY <1>1, VerdictOf DEF IInv
<1>3. k \in Keys /\ stamp[r] - Window \in Int /\ stamp[r] - Window <= clock - Window
  BY <1>1, TimedCall, LimiterAssumption
<1>4. Admitted(k, Window - MaxDelay) \subseteq Drained(r)
  BY <1>3, LiveKeepsRecent DEF Drained
<1>5. /\ IsFiniteSet(Drained(r))
      /\ Cardinality(Drained(r)) \in Nat
  BY <1>3, LiveBounded DEF Drained
<1>6. /\ IsFiniteSet(Admitted(k, Window - MaxDelay))
      /\ Cardinality(Admitted(k, Window - MaxDelay)) <= Cardinality(Drained(r))
  BY <1>4, <1>5, FS_Subset
<1>7. Cardinality(Admitted(k, Window - MaxDelay)) \in Nat
  BY <1>6, FS_CardinalityType
<1>8. Cardinality(Admitted(k, Window - MaxDelay)) < MaxRequests
  BY <1>5, <1>6, <1>7, LimiterAssumption DEF Allow, HasRoom
<1>9. Abstract!Within(k, Window - MaxDelay) = Admitted(k, Window - MaxDelay)
  BY DEF Abstract!Within, Admitted
<1>10. QED
  BY <1>2, <1>8, <1>9, SameCardinality DEF Allow, Abstract!Admit

LEMMA DenyImplements ==
  ASSUME IInv, NEW r \in Requests, Deny(r)
  PROVE  Abstract!Refuse(r)
<1> DEFINE k == KeyOf[r]
<1>1. pc[r] = "timed" /\ pc' = [pc EXCEPT ![r] = "denied"]
  BY DEF Deny
<1>2. /\ Verdict[r] = "pending"
      /\ Verdict' = [Verdict EXCEPT ![r] = "denied"]
  BY <1>1, VerdictOf DEF IInv
<1>3. /\ k \in Keys /\ clock \in Nat /\ stamp[r] \in Nat
      /\ stamp[r] - Window \in Int
      /\ clock <= stamp[r] + MaxDelay
  BY <1>1, TimedCall, LimiterAssumption
<1>4. Drained(r) \subseteq log[k] /\ Cardinality(Drained(r)) \in Nat
  BY <1>3, LiveBounded DEF Drained
<1>5. Drained(r) \subseteq Admitted(k, Window + MaxDelay)
  <2>1. SUFFICES ASSUME NEW a \in Drained(r) PROVE a \in Admitted(k, Window + MaxDelay)
    OBVIOUS
  <2>2. a \in log[k] /\ a \in Requests /\ stamp[a] > stamp[r] - Window
    BY <1>3, <1>4, <2>1 DEF Drained, Live, IInv, TypeOK
  <2>3. stamp[a] <= decided[a] /\ stamp[a] \in Nat /\ decided[a] \in Nat
    BY <1>3, <2>2 DEF IInv, TypeOK, StampsFresh
  <2>4. decided[a] > clock - (Window + MaxDelay)
    BY <1>3, <2>2, <2>3, LimiterAssumption
  <2>5. QED
    BY <2>2, <2>4 DEF Admitted
<1>6. IsFiniteSet(Admitted(k, Window + MaxDelay))
  <2>1. IsFiniteSet(log[k])
    BY <1>3 DEF IInv, DequeBounded
  <2>2. Admitted(k, Window + MaxDelay) \subseteq log[k]
    BY DEF Admitted
  <2>3. QED
    BY <2>1, <2>2, FS_Subset
<1>7. /\ Cardinality(Drained(r)) <= Cardinality(Admitted(k, Window + MaxDelay))
      /\ Cardinality(Admitted(k, Window + MaxDelay)) \in Nat
  BY <1>5, <1>6, FS_Subset, FS_CardinalityType
<1>8. Cardinality(Admitted(k, Window + MaxDelay)) >= MaxRequests
  BY <1>4, <1>7, LimiterAssumption DEF Deny, HasRoom
<1>9. Abstract!Within(k, Window + MaxDelay) = Admitted(k, Window + MaxDelay)
  BY DEF Abstract!Within, Admitted
<1>10. QED
  BY <1>2, <1>8, <1>9, SameCardinality DEF Deny, Abstract!Refuse

LEMMA NextImplements ==
  ASSUME IInv, [Next]_vars
  PROVE  [Abstract!Next]_(Abstract!vars)
<1>1. ASSUME NEW r \in Requests, Now(r) PROVE UNCHANGED Abstract!vars
  <2>1. Verdict' = Verdict
    BY <1>1 DEF Now, IInv, TypeOK, Verdict
  <2>2. QED
    BY <1>1, <2>1 DEF Now, Abstract!vars
<1>2. ASSUME NEW r \in Requests, Panic(r) PROVE Abstract!Abort(r)
  <2>1. /\ Verdict[r] = "pending"
        /\ Verdict' = [Verdict EXCEPT ![r] = "panicked"]
    BY <1>2, VerdictOf DEF IInv, Panic
  <2>2. QED
    BY <1>2, <2>1 DEF Panic, Abstract!Abort
<1>3. ASSUME NEW r \in Requests, Allow(r) PROVE Abstract!Admit(r)
  BY <1>3, AllowImplements
<1>4. ASSUME NEW r \in Requests, Deny(r) PROVE Abstract!Refuse(r)
  BY <1>4, DenyImplements
<1>5. ASSUME NEW k \in Keys, Reset(k) PROVE Abstract!Forget
  <2>1. log' = [j \in Keys |-> IF j \in {k} THEN {} ELSE log[j]]
    BY <1>5 DEF Reset, IInv, TypeOK
  <2>2. Verdict' = Verdict
    BY <1>5 DEF Reset, Verdict
  <2>3. {k} \in SUBSET Keys
    OBVIOUS
  <2>4. QED
    BY <1>5, <2>1, <2>2, <2>3 DEF Reset, Abstract!Forget
<1>6. ASSUME NEW s \in Sweepers, StartEvict(s) \/ StartClear(s) \/ EvictShard(s)
      PROVE  UNCHANGED Abstract!vars
  BY <1>6 DEF StartEvict, StartClear, EvictShard, Abstract!vars, Verdict
<1>7. ASSUME NEW s \in Sweepers, ClearShard(s) PROVE Abstract!Forget
  <2>1. Shard(s) \in SUBSET Keys
    BY DEF Shard
  <2>2. log' = [j \in Keys |-> IF j \in Shard(s) THEN {} ELSE log[j]]
    BY <1>7 DEF ClearShard
  <2>3. Verdict' = Verdict
    BY <1>7 DEF ClearShard, Verdict
  <2>4. QED
    BY <1>7, <2>1, <2>2, <2>3 DEF ClearShard, Abstract!Forget
<1>8. ASSUME Tick PROVE Abstract!Tick
  <2>1. Verdict' = Verdict
    BY <1>8 DEF Tick, Verdict
  <2>2. QED
    BY <1>8, <2>1 DEF Tick, Abstract!Tick
<1>9. ASSUME UNCHANGED vars PROVE UNCHANGED Abstract!vars
  BY <1>9 DEF vars, Abstract!vars, Verdict
<1>10. QED
  BY <1>1, <1>2, <1>3, <1>4, <1>5, <1>6, <1>7, <1>8, <1>9 DEF Next, Abstract!Next

\* Every behaviour of the limiter is one of a sliding window whose length is
\* off by at most the delay of a call.
THEOREM ImplementsWindow == Spec => ImplementsSlidingWindow
<1>1. IInv /\ [Next]_vars => [Abstract!Next]_(Abstract!vars)
  BY NextImplements
<1>2. QED
  BY <1>1, InitImplements, IInvHolds, PTL DEF Spec, ImplementsSlidingWindow, Abstract!Spec

-----------------------------------------------------------------------------
(* The abstract specification keeps its limit.  What is said of Verdict    *)
(* here holds whatever the verdicts stand for: its definition is not used. *)

WithinLimit == \A k \in Keys : Cardinality(Abstract!Within(k, Window - MaxDelay)) <= MaxRequests

\* The limit together with what a step needs to keep it: the admissions of a
\* key are finitely many, and were decided, so that nothing decides them again.
Kept ==
  /\ clock \in Nat
  /\ decided \in [Requests -> Nat]
  /\ Verdict \in [Requests -> {"pending", "allowed", "denied", "panicked"}]
  /\ log \in [Keys -> SUBSET Requests]
  /\ \A k \in Keys : IsFiniteSet(log[k]) /\ \A a \in log[k] : Verdict[a] # "pending"
  /\ WithinLimit

\* Fewer admissions, or the same at a later time, keep the limit.
LEMMA FewerKept ==
  ASSUME Kept, NEW k \in Keys,
         NEW S, S \subseteq Abstract!Within(k, Window - MaxDelay)
  PROVE  IsFiniteSet(S) /\ Cardinality(S) <= MaxRequests
<1>1. Abstract!Within(k, Window - MaxDelay) \subseteq log[k]
  BY DEF Abstract!Within
<1>2. IsFiniteSet(Abstract!Within(k, Window - MaxDelay))
  BY <1>1, FS_Subset DEF Kept
<1>3. IsFiniteSet(S) /\ Cardinality(S) <= Cardinality(Abstract!Within(k, Window - MaxDelay))
  BY <1>2, FS_Subset
<1>4. Cardinality(Abstract!Within(k, Window - MaxDelay)) \in Nat /\ Cardinality(S) \in Nat
  BY <1>2, <1>3, FS_CardinalityType
<1>5. Cardinality(Abstract!Within(k, Window - MaxDelay)) <= MaxRequests
  BY DEF Kept, WithinLimit
<1>6. QED
  BY <1>3, <1>4, <1>5, LimiterAssumption

\* An admission adds one to a window that had room for it.
LEMMA AdmitKept ==
  ASSUME Kept, NEW r \in Requests, Abstract!Admit(r)
  PROVE  Kept'
<1> DEFINE recent(k) == Abstract!Within(k, Window - MaxDelay)
<1>1. /\ Verdict[r] = "pending"
      /\ KeyOf[r] \in Keys
      /\ clock' = clock
      /\ Verdict' = [Verdict EXCEPT ![r] = "allowed"]
      /\ log' = [log EXCEPT ![KeyOf[r]] = @ \cup {r}]
      /\ decided' = [decided EXCEPT ![r] = clock]
  BY LimiterAssumption DEF Abstract!Admit
<1>2. /\ clock' \in Nat
      /\ decided' \in [Requests -> Nat]
      /\ Verdict' \in [Requests -> {"pending", "allowed", "denied", "panicked"}]
      /\ log' \in [Keys -> SUBSET Requests]
  BY <1>1 DEF Kept
<1>3. \A k \in Keys : IsFiniteSet(log'[k]) /\ \A a \in log'[k] : Verdict'[a] # "pending"
  <2> SUFFICES ASSUME NEW k \in Keys
               PROVE  IsFiniteSet(log'[k]) /\ \A a \in log'[k] : Verdict'[a] # "pending"
    OBVIOUS
  <2>1. IsFiniteSet(log[k]) /\ IsFiniteSet(log[k] \cup {r})
    BY FS_AddElement DEF Kept
  <2>2. log'[k] = log[k] \/ log'[k] = log[k] \cup {r}
    BY <1>1 DEF Kept
  <2>3. IsFiniteSet(log'[k])
    BY <2>1, <2>2
  <2>4. ASSUME NEW a \in log'[k]
        PROVE  Verdict'[a] # "pending"
    <3>1. a \in Requests /\ (a = r \/ (a \in log[k] /\ Verdict[a] # "pending"))
      BY <1>2, <2>2 DEF Kept
    <3>2. Verdict'[a] = IF a = r THEN "allowed" ELSE Verdict[a]
      BY <1>1, <3>1 DEF Kept
    <3>3. QED
      BY <3>1, <3>2
  <2>5. QED
    BY <2>3, <2>4
<1>4. ASSUME NEW k \in Keys
      PROVE  Cardinality(recent(k)') <= MaxRequests
  <2>1. CASE k # KeyOf[r]
    <3>1. recent(k)' \subseteq recent(k)
      BY <1>1, <2>1 DEF Abstract!Within, Kept
    <3>2. QED
      BY <3>1, FewerKept
  <2>2. CASE k = KeyOf[r]
    <3>1. recent(k)' \subseteq recent(k) \cup {r}
      BY <1>1, <2>2 DEF Abstract!Within, Kept
    <3>2. IsFiniteSet(recent(k)) /\ Cardinality(recent(k)) \in Nat
      BY FewerKept, FS_CardinalityType
    <3>3. /\ IsFiniteSet(recent(k) \cup {r})
          /\ Cardinality(recent(k) \cup {r}) <= Cardinality(recent(k)) + 1
      BY <3>2, AddOne
    <3>4. IsFiniteSet(recent(k)') /\ Cardinality(recent(k)') <= Cardinality(recent(k) \cup {r})
      BY <3>1, <3>3, FS_Subset
    <3>5. Cardinality(recent(k)') \in Nat /\ Cardinality(recent(k) \cup {r}) \in Nat
      BY <3>3, <3>4, FS_CardinalityType
    <3>6. Cardinality(recent(k)) < MaxRequests
      BY <2>2, SameCardinality DEF Abstract!Admit
    <3> HIDE DEF recent
    <3>7. QED
      BY <3>2, <3>3, <3>4, <3>5, <3>6, LimiterAssumption
  <2>3. QED
    BY <2>1, <2>2
<1>5. QED
  BY <1>2, <1>3, <1>4 DEF Kept, WithinLimit

\* A step that admits nobody leaves the logs as they are or shorter, and no
\* window reaches further back than before.
LEMMA OtherKept ==
  ASSUME Kept,
         clock' \in Nat, clock <= clock',
         decided' \in [Requests -> Nat],
         Verdict' \in [Requests -> {"pending", "allowed", "denied", "panicked"}],
         log' \in [Keys -> SUBSET Requests],
         \A k \in Keys : log'[k] \subseteq log[k],
         \A k \in Keys : \A a \in log[k] : decided'[a] = decided[a] /\ Verdict'[a] # "pending"
  PROVE  Kept'
<1>1. ASSUME NEW k \in Keys
      PROVE  Abstract!Within(k, Window - MaxDelay)' \subseteq Abstract!Within(k, Window - MaxDelay)
  BY <1>1, LimiterAssumption DEF Abstract!Within, Kept
<1>2. WithinLimit'
  BY <1>1, FewerKept DEF WithinLimit
<1>3. \A k \in Keys : IsFiniteSet(log'[k])
  BY FS_Subset DEF Kept
<1>4. QED
  BY <1>2, <1>3 DEF Kept

LEMMA KeptNext == Kept /\ [Abstract!Next]_(Abstract!vars) => Kept'
<1> SUFFICES ASSUME Kept, [Abstract!Next]_(Abstract!vars) PROVE Kept'
  OBVIOUS
<1>1. ASSUME NEW r \in Requests, Abstract!Admit(r) PROVE Kept'
  BY <1>1, AdmitKept
<1>2. ASSUME NEW r \in Requests, Abstract!Refuse(r) PROVE Kept'
  BY <1>2, OtherKept DEF Abstract!Refuse, Kept
<1>3. ASSUME NEW r \in Requests, Abstract!Abort(r) PROVE Kept'
  BY <1>3, OtherKept DEF Abstract!Abort, Kept
<1>4. ASSUME Abstract!Forget PROVE Kept'
  BY <1>4, OtherKept DEF Abstract!Forget, Kept
<1>5. ASSUME Abstract!Tick PROVE Kept'
  BY <1>5, OtherKept DEF Abstract!Tick, Kept
<1>6. ASSUME UNCHANGED Abstract!vars PROVE Kept'
  BY <1>6, OtherKept DEF Abstract!vars, Kept
<1>7. QED
  BY <1>1, <1>2, <1>3, <1>4, <1>5, <1>6 DEF Abstract!Next

LEMMA KeptInit == Abstract!Init => Kept
<1> SUFFICES ASSUME Abstract!Init PROVE Kept
  OBVIOUS
<1>1. \A k \in Keys : log[k] = {} /\ Abstract!Within(k, Window - MaxDelay) = {}
  BY DEF Abstract!Init, Abstract!Within
<1>2. WithinLimit
  BY <1>1, FS_EmptySet, LimiterAssumption DEF WithinLimit
<1>3. QED
  BY <1>1, <1>2, FS_EmptySet DEF Abstract!Init, Kept

\* The promise of the sliding window that the limiter implements, shown of the
\* abstract specification by itself: no key has more than MaxRequests
\* admissions in any Window - MaxDelay units of time (RateLimiter::allow).
THEOREM AbstractWindowLimit == Abstract!Spec => []Abstract!WindowLimit
<1>1. Abstract!Init => Kept
  BY KeptInit
<1>2. Kept /\ [Abstract!Next]_(Abstract!vars) => Kept'
  BY KeptNext
<1>3. Kept => Abstract!WindowLimit
  BY SameCardinality DEF Kept, WithinLimit, Abstract!WindowLimit
<1>4. QED
  BY <1>1, <1>2, <1>3, PTL DEF Abstract!Spec

=============================================================================
