---------------------------- MODULE RateLimiter ----------------------------
(***************************************************************************)
(* The sliding-window rate limiter of src/src/rate_limit/limiter.rs:       *)
(* allow, reset, clear and evict_stale, called concurrently by any number  *)
(* of threads on one DashMap.                                              *)
(*                                                                         *)
(* allow reads the clock (Now) BEFORE it takes the lock of the key's       *)
(* entry, and drains, counts and pushes under that lock (Allow, Deny), so  *)
(* another call may come between the two.  evict_stale and clear visit the *)
(* map shard by shard, one shard lock at a time.                           *)
(*                                                                         *)
(* The deque of a key is the set of the admitted requests whose timestamps *)
(* it holds: the code only filters it, counts it and appends to it, so the *)
(* order of its elements is never observed.                                *)
(***************************************************************************)
EXTENDS Integers, FiniteSets

CONSTANTS
  Requests,      \* the calls of allow; each is made at most once
  Keys,          \* the rate-limit keys
  KeyOf,         \* the key each request is made with
  Sweepers,      \* the threads that call evict_stale or clear
  NumShards,     \* shards of the DashMap
  ShardOf,       \* the shard each key hashes to
  MaxRequests,   \* RateLimiter.max_requests
  Window,        \* RateLimiter.window
  MinInstant,    \* the smallest Instant the platform can represent
  MaxDelay,      \* how long a call may be held up between clock and lock
  MaxClock       \* bound on the modelled time

ASSUME LimiterAssumption ==
  /\ KeyOf \in [Requests -> Keys]
  /\ NumShards \in Nat \ {0}
  /\ ShardOf \in [Keys -> 1 .. NumShards]
  /\ MaxRequests \in Nat \ {0}      \* asserted by RateLimiter::new
  /\ Window \in Nat
  /\ MinInstant \in Int
  /\ MaxDelay \in Nat
  /\ MaxClock \in Nat

VARIABLES
  clock,         \* the monotonic clock behind Instant::now()
  pc,            \* where each call of allow is
  stamp,         \* the Instant each call read
  tracked,       \* the keys present in the map
  entries,       \* per key, the requests whose timestamps its deque holds
  sweep,         \* where each evict_stale or clear is
  log,           \* history: per key, the admissions not reset or cleared
  decided        \* history: when each call got its answer

vars == <<clock, pc, stamp, tracked, entries, sweep, log, decided>>

Idle == [op |-> "idle", cutoff |-> 0, at |-> 0]

Init ==
  /\ clock = 0
  /\ pc = [r \in Requests |-> "idle"]
  /\ stamp = [r \in Requests |-> 0]
  /\ tracked = {}
  /\ entries = [k \in Keys |-> {}]
  /\ sweep = [s \in Sweepers |-> Idle]
  /\ log = [k \in Keys |-> {}]
  /\ decided = [r \in Requests |-> 0]

-----------------------------------------------------------------------------
(* allow                                                                   *)

\* The call reads the clock.
Now(r) ==
  /\ pc[r] = "idle"
  /\ clock - Window >= MinInstant
  /\ pc' = [pc EXCEPT ![r] = "timed"]
  /\ stamp' = [stamp EXCEPT ![r] = clock]
  /\ UNCHANGED <<clock, tracked, entries, sweep, log, decided>>

\* now - self.window panics when the result is not representable.
Panic(r) ==
  /\ pc[r] = "idle"
  /\ clock - Window < MinInstant
  /\ pc' = [pc EXCEPT ![r] = "panicked"]
  /\ UNCHANGED <<clock, stamp, tracked, entries, sweep, log, decided>>

\* Mutants: the drain keeps a timestamp that is exactly at the cutoff; the
\* drain forgets the oldest unit of the window.
LiveAtCutoff(k, cutoff) == {a \in entries[k] : stamp[a] >= cutoff}
LiveShort(k, cutoff) == {a \in entries[k] : stamp[a] > cutoff + 1}

\* What a deque keeps when it is drained of the timestamps up to cutoff.
Live(k, cutoff) == {a \in entries[k] : stamp[a] > cutoff}

\* Mutant: the call counts a deque it has not drained.
Undrained(r) == entries[KeyOf[r]]

\* What the call finds in the drained deque of its key.
Drained(r) == Live(KeyOf[r], stamp[r] - Window)

\* Mutant: the limit is off by one.
HasRoomAtLimit(r) == Cardinality(Drained(r)) <= MaxRequests

HasRoom(r) == Cardinality(Drained(r)) < MaxRequests

Allow(r) ==
  /\ pc[r] = "timed"
  /\ HasRoom(r)
  /\ pc' = [pc EXCEPT ![r] = "allowed"]
  /\ tracked' = tracked \cup {KeyOf[r]}
  /\ entries' = [entries EXCEPT ![KeyOf[r]] = Drained(r) \cup {r}]
  /\ log' = [log EXCEPT ![KeyOf[r]] = @ \cup {r}]
  /\ decided' = [decided EXCEPT ![r] = clock]
  /\ UNCHANGED <<clock, stamp, sweep>>

Deny(r) ==
  /\ pc[r] = "timed"
  /\ ~HasRoom(r)
  /\ pc' = [pc EXCEPT ![r] = "denied"]
  /\ tracked' = tracked \cup {KeyOf[r]}
  /\ entries' = [entries EXCEPT ![KeyOf[r]] = Drained(r)]
  /\ decided' = [decided EXCEPT ![r] = clock]
  /\ UNCHANGED <<clock, stamp, sweep, log>>

-----------------------------------------------------------------------------
(* reset, clear and evict_stale                                            *)

Reset(k) ==
  /\ tracked' = tracked \ {k}
  /\ entries' = [entries EXCEPT ![k] = {}]
  /\ log' = [log EXCEPT ![k] = {}]
  /\ UNCHANGED <<clock, pc, stamp, sweep, decided>>

\* evict_stale reads the clock once, before it visits the first shard.
StartEvict(s) ==
  /\ sweep[s].op = "idle"
  /\ clock - Window >= MinInstant
  /\ sweep' = [sweep EXCEPT ![s] = [op |-> "evict", cutoff |-> clock - Window, at |-> 1]]
  /\ UNCHANGED <<clock, pc, stamp, tracked, entries, log, decided>>

StartClear(s) ==
  /\ sweep[s].op = "idle"
  /\ sweep' = [sweep EXCEPT ![s] = [op |-> "clear", cutoff |-> 0, at |-> 1]]
  /\ UNCHANGED <<clock, pc, stamp, tracked, entries, log, decided>>

\* The keys of the shard that sweeper s visits.
Shard(s) == {k \in Keys : ShardOf[k] = sweep[s].at}

\* Sweeper s goes on to the next shard.
Further(s) == [op |-> sweep[s].op, cutoff |-> sweep[s].cutoff, at |-> sweep[s].at + 1]

\* Shards are visited in order; after the last one the sweep is over.
Advanced(s) == IF sweep[s].at < NumShards THEN Further(s) ELSE Idle

\* Mutant: a key stays in the map although its deque was emptied.
KeysKeptEmpty(s) == tracked

\* The keys that stay in the map: evict_stale drops a key it left empty.
KeysKept(s) ==
  {k \in tracked : k \in Shard(s) => Live(k, sweep[s].cutoff) # {}}

EvictShard(s) ==
  /\ sweep[s].op = "evict"
  /\ entries' = [k \in Keys |->
       IF k \in Shard(s) THEN Live(k, sweep[s].cutoff) ELSE entries[k]]
  /\ tracked' = KeysKept(s)
  /\ sweep' = [sweep EXCEPT ![s] = Advanced(s)]
  /\ UNCHANGED <<clock, pc, stamp, log, decided>>

ClearShard(s) ==
  /\ sweep[s].op = "clear"
  /\ entries' = [k \in Keys |-> IF k \in Shard(s) THEN {} ELSE entries[k]]
  /\ tracked' = tracked \ Shard(s)
  /\ log' = [k \in Keys |-> IF k \in Shard(s) THEN {} ELSE log[k]]
  /\ sweep' = [sweep EXCEPT ![s] = Advanced(s)]
  /\ UNCHANGED <<clock, pc, stamp, decided>>

-----------------------------------------------------------------------------

\* Time passes, but no call is held up for more than MaxDelay between
\* reading the clock and taking the lock.
Tick ==
  /\ clock < MaxClock
  /\ \A r \in Requests : pc[r] = "timed" => clock - stamp[r] < MaxDelay
  /\ clock' = clock + 1
  /\ UNCHANGED <<pc, stamp, tracked, entries, sweep, log, decided>>

Next ==
  \/ \E r \in Requests : Now(r) \/ Panic(r) \/ Allow(r) \/ Deny(r)
  \/ \E k \in Keys : Reset(k)
  \/ \E s \in Sweepers : StartEvict(s) \/ StartClear(s) \/ EvictShard(s) \/ ClearShard(s)
  \/ Tick

Spec == Init /\ [][Next]_vars

-----------------------------------------------------------------------------
(* Properties                                                              *)

TypeOK ==
  /\ clock \in 0 .. MaxClock
  /\ pc \in [Requests -> {"idle", "timed", "allowed", "denied", "panicked"}]
  /\ stamp \in [Requests -> 0 .. MaxClock]
  /\ tracked \in SUBSET Keys
  /\ entries \in [Keys -> SUBSET Requests]
  /\ sweep \in [Sweepers -> [op : {"idle", "evict", "clear"}, cutoff : Int, at : 0 .. NumShards]]
  /\ log \in [Keys -> SUBSET Requests]
  /\ decided \in [Requests -> 0 .. MaxClock]

\* The admissions of key k during the last d units of time, forgotten ones
\* excepted.
Admitted(k, d) == {a \in log[k] : decided[a] > clock - d}

\* However the calls interleave, no key has more than MaxRequests admissions
\* in any Window - MaxDelay units of time.  The window that ends now is
\* enough: every other window ended in an earlier state.
WindowLimit ==
  \A k \in Keys : Cardinality(Admitted(k, Window - MaxDelay)) <= MaxRequests

\* The map never keeps a key with an empty deque: the keys key_count counts
\* are exactly the keys with an admission still recorded.
NoEmptyDeque == \A k \in Keys : k \in tracked <=> entries[k] # {}

\* Why WindowLimit holds: an admission young enough to matter is still in its
\* key's deque, whoever drained, swept or reset it in between, and a deque
\* never outgrows the limit.
RecentKept ==
  \A k \in Keys : Admitted(k, Window - MaxDelay) \subseteq entries[k]

\* A deque holds admissions of its own key only, and at most MaxRequests.
DequeBounded ==
  \A k \in Keys :
    /\ entries[k] \subseteq log[k]
    /\ IsFiniteSet(log[k])
    /\ Cardinality(entries[k]) <= MaxRequests

\* No clock reading is from the future, or older than the delay bound allows.
StampsFresh ==
  /\ \A r \in Requests :
       /\ stamp[r] <= clock
       /\ pc[r] = "timed" => clock <= stamp[r] + MaxDelay
  /\ \A k \in Keys : \A a \in log[k] :
       /\ pc[a] = "allowed"
       /\ KeyOf[a] = k
       /\ stamp[a] <= decided[a]
       /\ decided[a] <= stamp[a] + MaxDelay
       /\ decided[a] <= clock
  /\ \A s \in Sweepers : sweep[s].op = "evict" => sweep[s].cutoff <= clock - Window

IInv == TypeOK /\ StampsFresh /\ DequeBounded /\ RecentKept

\* Waiting as long as the Retry-After header of a 429 says is enough: a call
\* made Window after another call on its key was denied is denied in turn only
\* if MaxRequests others have been admitted on that key since.
RetryAfterSuffices ==
  [][\A r, q \in Requests :
       /\ pc[r] = "denied" /\ pc[q] = "timed" /\ pc'[q] = "denied"
       /\ KeyOf[q] = KeyOf[r]
       /\ stamp[q] >= decided[r] + Window
       => Cardinality({a \in log[KeyOf[r]] : decided[a] > decided[r]}) >= MaxRequests]_vars

\* evict_stale bounds memory: when it is done, a key still in the map has an
\* admission that was inside the window when the sweep began, or was made
\* after that.
EvictLeavesNoStaleKey ==
  [][\A s \in Sweepers :
       sweep[s].op = "evict" /\ sweep'[s].op = "idle" =>
         \A k \in tracked' : \E a \in entries'[k] :
           \/ stamp[a] > sweep[s].cutoff
           \/ decided[a] >= sweep[s].cutoff + Window]_vars

\* What a caller knows of each request.
Verdict == [r \in Requests |-> IF pc[r] \in {"idle", "timed"} THEN "pending" ELSE pc[r]]

Abstract == INSTANCE SlidingWindow WITH verdict <- Verdict, Slack <- MaxDelay

\* The limiter implements the abstract sliding window, with the delay of a
\* call as slack.
ImplementsSlidingWindow == Abstract!Spec

=============================================================================
