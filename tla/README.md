# Verification of simply-proxy

TLA+ modules for the reverse proxy in `src/`, model-checked with TLC and, where
it matters for every value of the parameters, proved with TLAPS. Paths below
are those of the repository; `src/src/...` is the crate.

## The system

simply-proxy is an HTTP reverse proxy built on pingora. It routes a request by
the name in its `Host` header to a group of upstream backends, limits the rate
of requests per client, takes unhealthy backends out of rotation, and marks
JSON responses.

| Component | Code | State it keeps | Operations | Module |
|---|---|---|---|---|
| Rate limiter | `rate_limit/limiter.rs` | a sharded map from key to the timestamps of the admitted requests | `allow`, `reset`, `clear`, `evict_stale` | `RateLimiter`, `SlidingWindow` |
| Response filters | `proxy/simple_proxy.rs` 158-188, 323-390 | per request: content type, the body kept so far | header filter, body filter (once per chunk) | `ResponseBody` |
| Backend selection | `proxy/route.rs` 30-49 | per route entry: round-robin counter, health flag per backend | `select` | `Selection` |
| Health service | `proxy/health.rs`, `proxy/route.rs` 31-37 | ticks of an interval; writes the flags | the endless loop of rounds, the probes | `HealthService`, `HealthRounds` |
| Route entry as a whole | the two above | what they share: the flags | requests select while checks write | `Upstream` |
| Configuration and startup | `conf/*.rs`, `main.rs`, `try_new` of route table and proxy | the maps built on the way | load, resolve, build routes and limiter | `Startup` |
| Request pipeline | `proxy/simple_proxy.rs` | per request: route, port, the state of its connections | the `ProxyHttp` hooks | `SimpleProxy`, `Exchange` |
| Host and port | `utils.rs` | none | `get_host_port`, `split_host_port` | `HostPort` |
| Example upstream | `examples/server.rs` | a counter of ids, a sharded map of users | the handlers for users and health | `UserStore` |
| Configuration swap | `conf/mod.rs` | an `ArcSwap` of the configuration | `update` | not modelled |

How they interact. `main` resolves the configuration once, builds the route
table, the limiter and the proxy, and starts the health service as a background
task. pingora then calls the hooks of `SimpleProxy` for every request, many at
a time on several threads: `request_filter` asks the limiter and looks up the
route; `upstream_peer` selects a backend; the connection may fail, be retried
or deliver a response, which passes the two response filters; an error that is
not retried ends in `fail_to_proxy`. What requests share is the limiter's map,
the counter of a route entry, and the flags that the health service writes
while requests read them. `ProxyContext` belongs to one request. The server of
the examples is what the proxy is tried out with: a program of its own, whose
handlers share a store of users.

### What is hard, and what must hold

* **Rate limiter.** `allow` reads the clock before it takes the lock of its
  key, so calls decide on readings that are out of order; `evict_stale` and
  `clear` go over the map one shard at a time. Correct means: no key gets more
  than its allowance, whatever the interleaving; who waits as long as
  `Retry-After` says is not refused for old requests; the map keeps no key for
  nothing.
* **Response filters.** A document is spread over calls of the filter, whose
  state is in the context, and the stream may end with data, without data,
  with trailers or not at all. Correct means: a JSON document arrives whole,
  annotated and once, or not at all, and nothing else is rewritten.
* **Selection.** All requests advance one counter and read flags that change
  under them. Correct means: no healthy backend is overlooked, no unhealthy one
  chosen, and a selection ends.
* **Health service.** Probes of dead backends take time, missed ticks burst,
  entries are probed one after another. Correct means: a flag is out of date
  for a bounded time only, and does not change without a reason.
* **Route entry.** Dead backends are found by probing, and so are those that
  came back. Correct means: traffic stops going to a backend that died for good,
  and the proxy recovers by itself when one is up again.
* **Startup.** Several loops fill maps from one another and may each find a
  fault. Correct means: exactly the well-formed configurations get served, and
  as they were written.
* **Pipeline.** Refusals, retries and errors meet at every stage. Correct means:
  nothing refused gets through, nothing is sent again that may have been executed
  (unless a reused connection broke), no request goes to another server than it
  names, and the client gets one status, the documented one.

* **Example upstream.** An id is taken before a step that may fail, an update works
  on a clone, a list visits one shard after another. Correct means: who is
  in the store is what the answers said, no id is used twice, a list misses no one
  who stayed.

`PROJECT.json` lists these hazards one by one with the line at which each
bites and the properties that are about it.

## The modules

### RateLimiter and SlidingWindow

`RateLimiter` has one action per step that other threads can observe.
`allow` is `Now` (read `Instant::now()`) followed by `Allow` or `Deny` (drain,
count, push: one step, since the entry's lock is held), or `Panic` when
`now - window` cannot be represented. `evict_stale` is `StartEvict` (read the
clock once) and an `EvictShard` per shard; `clear` is `StartClear` and a
`ClearShard` per shard; `reset` is one step. A key's deque is the set of the
admitted requests whose timestamps it holds: the code only filters, counts and
appends, so order is never observed. `key_count` is the cardinality of
`tracked`. `log` and `decided` are history: which admissions count, and when
each call was really answered.

`MaxDelay` bounds how long a call is held up between clock and lock. The code
has no such bound, and that is the point: *how much* the limit can be off is
exactly this delay. For windows of full length and a delay above zero the
limit does not hold, because a held-up call drains and counts with an old
reading; the guarantee is for windows of `Window - MaxDelay`.

`SlidingWindow` says the same without clock readings, locks, shards or deques:
a request may be admitted when fewer than `MaxRequests` were *really* admitted
in the last `Window - Slack`, and refused only when that many were in the last
`Window + Slack`. `RateLimiter` implements it with `Slack = MaxDelay`
(`ImplementsSlidingWindow`), a call of which the answer is out being mapped to
its verdict.

### ResponseBody

One response. `Header` and `Interim` are `upstream_response_filter` (every
header, also a 1xx one, sets `ctx.resp_content_type`; the headers it sets and
removes have no say in what becomes of the body). `Chunk`, `LastChunk` and `EndOfStream` are the calls of
`upstream_response_body_filter`: not the last, the last with data, the last
without. `Trailers` ends a response without a last call and `Break` ends it
early. A body is a text cut into pieces, the text one of `Documents` or not
JSON; a JSON value keeps what the annotation tells apart: object or not, what
is under the key `x-simple-proxy`, array items. `Passed` has the early returns
of the filter: with no data kept, another content type or a text that does not
parse, the chunk of *this* call is what is left in the body. A value that was
parsed can always be serialised, so the branch for the error is left out.

### Selection

`RouteEntry::select`, many requests at a time. pingora's iterator is external:
each step fetches and advances one shared counter (`Fetch`), then asks the
`accept` closure about a backend it has not offered this request before, which
reads the flag (`Choose`, `Skip`), and gives up after `MaxIterations` steps
(`GiveUp`; 32 in the code). The counter wraps around at `CounterSize` (2^64 in
the code). `Flip` is the health check changing a flag at any
moment. `Target` is the backend a request goes to. `steady` (backends that were
healthy ever since the request began) and `alone` (nobody else moved the counter)
are history.

### HealthService

The loop of `HealthService::start_service` in discrete seconds: `Wake`,
`Visit` (one entry, in any order of the map), the parallel probes (`Connect`,
`Fail`, `Report`), `EndVisit`, `EndRound`. Flags are kept per entry, also for a
backend that entries share, as in the code. `Change` lets backends go down and
come back at any moment. Time only passes when the service waits: for a tick,
or for a probe that has not timed out. A late tick does not shift the later
ones (tokio's default, `Burst`). That one result changes a flag and that a
probe takes at most 1 s are pingora's defaults, which the code does not change.
`AllReported` is the `true` in `run_health_check(true)`: probes of an entry are
parallel, and all are waited for.

### HealthRounds and Upstream

`HealthRounds` is what the loop promises, without time or order: in a round every
backend of every entry is due once (`StartRound`), is probed (`Probe`), and what
was found reaches its flag some time later (`Report`). `HealthService` implements
it (`ImplementsRounds`); `CheckOf` maps the place of the loop to what is due.

`Upstream` is one route entry as a whole: an instance of `Selection` and one of
`HealthRounds` that share nothing but the flags, as `RouteEntry` and
`HealthService` share an `Arc<LoadBalancer>`. In place of the `Flip` of
`Selection`, flags are written by `Report`; `ImplementsSelection` says that this
is one of the environments `Selection` allows.

### Startup

`main`, `ProxyConfigResolved::try_from`, `RouteTable::try_new` and
`SimpleProxy::try_new` as one sequential machine, an action per iteration or
fallible call, in the code's order: file, upstream map, TLS files (certificate,
key, CA: the first that is missing is the error), servers and their names, TLS
settings, routes, limiter. `InsertedBackends` is
`HashMap::insert` (a second upstream of a name replaces the first),
`RejectName` the duplicate check, `MakeLimiter` the `assert!` of
`RateLimiter::new`. What YAML can express is abstracted to the faults that can
be found in it (`RawConfigs`); `Sound` and `WellFormed` read a configuration as a
whole, without the order of the loops. `Over` is the end of startup.

### HostPort, SimpleProxy and Exchange

`HostPort` has the two functions of `utils.rs`. A header is given by what it
says: a name or an IPv6 literal, and the parts that follow it after colons; an
opaque value; or nothing. `Parts` is what the code sees of it, split at colons.

`SimpleProxy` composes it with an instance of `RateLimiter` whose keys are the
addresses of connections, and has an action per hook and outcome. For
`request_filter`: `SkipLimiter`, `AskLimiter`, `LimiterPanics`, `Admit`, and the
refusal, whose two awaited writes are steps of their own: `TooManyRequests` sends
the header and `RefusalSent` the body; `TooManyRequestsUnsent` and `RefusalCut`
are the failures of the one and the other, which end in `fail_to_proxy`. For
`upstream_peer`: `NotFound`, `BadGateway`, `Connected`. For the two connection
hooks: `ConnectFails`, `Retry`, `UpstreamFails`. `Code`, `Answered` and
`FailToProxy` are `fail_to_proxy`. The instance of the limiter has no sweepers
and `Reset` is not part of the next-state relation, because nothing in the
proxy calls `evict_stale`, `clear` or `reset`. Selection is abstracted to what
`Selection` shows: a backend that is healthy at that moment, or none.

Retries follow `decide_reuse`, which settles only what pingora has left open
(`Retries`). The proxy has HTTP/2 spoken to its backends, and when a backend
says that it did not process a request (a GOAWAY without an error, a refused
stream) pingora has decided to retry before the hook is called: `refused`, retried
over any connection and with whatever the retry buffer still holds. A connection that merely `broke` is
retried when it was a reused one and the buffer was not truncated (`Reusable`).
`BodyTruncated` is the body outgrowing the buffer, and `whole` in the history of
attempts says whether the body went out from its beginning.

`Named` is the host that a request names, by what its head says and not by how
the code splits it. `Known` is that it is one of the servers, and readable to
the proxy: an IPv6 literal in a `Host` header is cut at its first colon and never
found, while the same literal in the authority of a URI is.

`Exchange` is what all of this promises, told by what a client and a backend can
see of a request: an instance of `SlidingWindow` lets it in or refuses it; it is
sent (`Send`) to backends of the server it names, again only after the backend
before refused it or a reused connection broke (`Fail`), and while the client has
heard nothing; and the client gets one status (`Refuse`, `Respond`, `Explain`),
whose message may be cut short (`Close`). Hooks, context, routes, flags, the retry
buffer and the calls of the limiter are gone. `SimpleProxy` implements it
(`ImplementsExchange`): `Asked` maps the head of a request to what it asks for
(is it limited, and the server it names, by `Known` and `Named`); the rest is
there by name; asking the limiter, routing, flags and the buffer are stuttering
steps.

### UserStore

The handlers of `examples/server.rs`. `TakeId` is the `fetch_add` of
`create_user`, `CreateFails` and `InsertUser` what comes of hashing the password;
`CloneUser`, `UpdateFails` and `UpdateUser` are the steps of `update_user`,
`BeginList`, `ListShard` and `EndList` those of `list_user`, whose iterator locks
one shard of the map at a time; `GetUser` and `DeleteUser` are one step each. A
user is its id: whether somebody is there is what the handlers can get wrong.
`AfterUpdate` is the map after an update, as the code has it: `update_user`
answers with its changed clone and does not put it back. `steady` and `met` are
the history of a list: who was there all the time, and who at some time.

## Runs

| Run | Instance | What it shows |
|---|---|---|
| `limiter` | one key in the middle one of three shards, five calls, limit 2, window 2, delay 1, a sweeper, resets | `IInv`, `WindowLimit`, `NoEmptyDeque`, `RetryAfterSuffices`, `EvictLeavesNoStaleKey`, and the refinement `ImplementsSlidingWindow` |
| `body` | every document shape, up to four pieces, every chunking and ending | `BodyInv`, `JsonAllOrNothing`, `OnlyJsonRewritten`, `Annotated` |
| `body_other` | the same, bodies of up to two pieces | refutes `OtherUntouched` |
| `selection` | two backends, three steps, a counter of three values, two requests, fair | `AloneFindsReady`, `SeenReadyIsChosen`, `SelectEnds` |
| `selection_none` | two backends, the 32 steps of the code, two requests | refutes `NoneMeansAllUnready` |
| `health` | two entries sharing a backend, interval 3, timeout 2 | `IInv`, `FlagsFresh`, `FlipsJustified`, and the refinement `ImplementsRounds` |
| `health_frequency` | the intervals of the code (5 s and 1 s) | refutes `DetectedAtCheckFrequency` |
| `upstream` | three backends, a request that selects over and over, fair checks | `FlagsSettle`, `DeadIsSpared`, `RecoversAlone`, and the refinement `ImplementsSelection` |
| `startup` | all configurations with up to two upstreams and two servers over two names; all global faults | `IInv`, `ServesWellFormed`, `ErrorIsReal`, `RoutesAsConfigured` |
| `proxy` | two requests on one connection, limit 1, every form of request, one retry, three servers sharing a backend | `IInv`, `ForwardedWasAdmitted`, `HealthNeverLimited`, `NoBlindRetry`, `StaysOnRoute`, `OneStatus`, `DocumentedStatus`, and the refinement `ImplementsExchange` |
| `proxy_ip` | a connection each for two requests of one IP | refutes `LimitPerClientIP` |
| `users` | five requests of every kind, two shards | `IInv`, `StoreMatchesAnswers`, `IdsUnique`, `ListSound` |

### The bounds, and why they are enough

* `limiter`: with a limit of 2, five calls fill a window, are refused, and begin
  the next one; four ticks of a window of 2 let admissions expire. The key's
  shard is the second of three, so that it can be pushed to before, between and
  after the visits of a sweep; another key would share nothing with it but the
  sweep. The proofs cover all other values. `MinInstant` is -1 so that calls panic
  at time 0 and do not later.
* `body`: four pieces allow chunkings with empty, single and longer chunks
  before and at the end; the buffer's invariant is by position, and proved.
* `selection`: the counter wraps around in the middle of the backends, where an
  undisturbed selection needs the most steps to be offered all of them; three
  steps for two backends leave none to spare (`EnoughSteps`), and the mutant
  with one step fewer fails. Two requests are enough to disturb each other. The
  real counter wraps at 2^64: what that means for other numbers of backends is
  proved, not run. `selection_none` keeps the 32 of the code to show that its
  constant does not help against other requests.
* `health`: with a timeout of 2 and an interval of 3, rounds take 0 to 4
  seconds, so they are shorter, as long as and longer than the interval, and
  ticks are missed. 14 seconds hold four rounds.
* `upstream`: three backends and as many steps, so that a selection that skips a
  dead backend has none to spare. One request, over and over, is enough to meet
  every flag in every state; that requests disturb each other is the business of
  `selection`, and `RecoversAlone` is about those that do not.
* `users`: five requests allow a user to be created, updated, deleted and listed
  with one more create in between; paths name the first two users and one that
  never is. Both shards hold users. `MaxId` is 6 and never reached by five creates.
* `startup`: two names are the least for a duplicate within a server, between
  servers, and none. The proofs cover configurations of every length.
* `proxy`: two requests are enough for one to take the other's allowance; every
  form of request is paired with one that is counted but routed nowhere, and
  plain and health requests with a plain one. `MaxClock` 1 is enough because
  windows are the limiter's own runs' business. `NoBlindRetry` is about pairs of
  attempts that follow one another: one retry gives every pair, with the first
  refused or broken, over a new or a reused connection, with the buffer truncated
  or not. One server has an IPv6 literal for a name.

`CHECK_DEADLOCK FALSE` is set for `ResponseBody` only: a response ends. Every
other specification always has a step: backends change, a reset is possible,
startup has its `Over` step and the user store its `Idle`.

### Fairness

Safety needs none. `SelectEnds` is checked under weak fairness of `Fetch` and
`Judge` of every request: `select` is synchronous code without a wait, so a
thread that is in it is scheduled again. Neither `Begin` nor `Flip` is fair:
that new requests come or flags change is not needed, and `SelectEnds` holds
although flags may change and others may move the counter for ever.

`Upstream` assumes weak fairness of the service's own steps (`Check` or `Report`)
and, per request, of `Continue`. The first is one task that loops for ever, whose
waits end: a tick comes, and a probe has a timeout of 1 s. The second is again
synchronous code. `Begin` and `Change` are unfair: requests need not come, and
backends need not recover. What depends on backends is stated with `<>[]up` or
`<>[](~up)` of the one backend it is about, whatever the others do.

## Where code and documents differ

* `simple_proxy.rs:341` A body that is not JSON and comes in several chunks is
  cut to its last chunk: all earlier calls took theirs out of the stream and the
  early returns of the last call do not put them back (`OtherUntouched`).
* `route.rs:47` `select` may return `None`, answered with 502, while a backend is
  healthy, when other requests take every other value of the counter. The design
  document gives "all backends unhealthy" as the condition
  (`NoneMeansAllUnready`).
* `route.rs:35` The documented second layer of checks every second does not run:
  the frequency is set on a balancer that is not run as a service
  (`DetectedAtCheckFrequency`).
* `simple_proxy.rs:82` The key of the limiter is address *and port*, so each
  connection of a client has an allowance of its own (`LimitPerClientIP`).

More oddities are modelled as they are coded, without a run of their own:
`utils.rs:5` has 433 as the default port of https, which reaches nothing but
`ctx.port`; an IPv6 literal in a `Host` header is cut at its first colon
(`utils.rs:20`), so that a server of that name is only found by its URI; a request
that pingora retries by its own decision goes out without the beginning of its
body when that was truncated (`simple_proxy.rs:450`); and `update_user` of the example server (`server.rs:189`) answers with
the changed user but never stores it, and answers an unknown id with 500 where
the other handlers say 404.

## What is proved

| Theorem | Module | Says |
|---|---|---|
| `TypeCorrect` | `RateLimiterProofs` | `Spec => []TypeOK` |
| `IInvHolds` | `RateLimiterProofs` | `Spec => []IInv` |
| `WindowLimitHolds` | `RateLimiterProofs` | `Spec => []WindowLimit` |
| `NoEmptyDequeHolds` | `RateLimiterProofs` | `Spec => []NoEmptyDeque` |
| `RetryAfterHolds` | `RateLimiterProofs` | `Spec => RetryAfterSuffices` |
| `EvictionHolds` | `RateLimiterProofs` | `MaxDelay <= Window => (Spec => EvictLeavesNoStaleKey)` |
| `ImplementsWindow` | `RateLimiterProofs` | `Spec => ImplementsSlidingWindow` |
| `AbstractWindowLimit` | `RateLimiterProofs` | `Abstract!Spec => []Abstract!WindowLimit` |
| `TypeCorrect` | `ResponseBodyProofs` | `Spec => []TypeOK` |
| `BodyInvHolds` | `ResponseBodyProofs` | `Spec => []BodyInv` |
| `JsonDelivery` | `ResponseBodyProofs` | `Spec => []JsonAllOrNothing` |
| `RewritesOnlyJson` | `ResponseBodyProofs` | `Spec => []OnlyJsonRewritten` |
| `EveryObjectMarked` | `ResponseBodyProofs` | `Spec => []Annotated` |
| `SelectionInvariant` | `SelectionProofs` | `Spec => []IInv` |
| `NoHealthyPassedOver` | `SelectionProofs` | `Spec => []SeenReadyIsChosen` |
| `UndisturbedFindsReady` | `SelectionProofs` | `Spec => []AloneFindsReady` |
| `IInvHolds` | `HealthProofs` | `Spec => []IInv` |
| `LoopImplementsRounds` | `HealthProofs` | `Spec => ImplementsRounds` |
| `FlipsHold` | `HealthProofs` | `Spec => FlipsJustified` |
| `FlagsStayFresh` | `HealthProofs` | `Spec => []FlagsFresh` |
| `UpstreamImplementsSelection` | `UpstreamProofs` | `Spec => ImplementsSelection` |
| `ProxyInvariant` | `SimpleProxyProofs` | `Spec => []IInv` |
| `OnlyAdmittedForwarded` | `SimpleProxyProofs` | `Spec => []ForwardedWasAdmitted` |
| `HealthStaysOpen` | `SimpleProxyProofs` | `Spec => []HealthNeverLimited` |
| `RetriesAreSafe` | `SimpleProxyProofs` | `Spec => []NoBlindRetry` |
| `AttemptsStayOnRoute` | `SimpleProxyProofs` | `Spec => []StaysOnRoute` |
| `StatusIsDocumented` | `SimpleProxyProofs` | `Spec => []DocumentedStatus` |
| `OneStatusSent` | `SimpleProxyProofs` | `Spec => OneStatus` |
| `ProxyUsesLimiter` | `SimpleProxyProofs` | `Spec => LimiterAlone!Spec` |
| `WindowLimitInProxy` | `SimpleProxyProofs` | `Spec => []LimiterAlone!WindowLimit` |
| `ProxyKeepsPromise` | `SimpleProxyProofs` | `Spec => ImplementsExchange` |
| `BackendsAreSpared` | `SimpleProxyProofs` | `Spec => []ForwardsLimited` |
| `StoreInvariant` | `UserStoreProofs` | `Spec => []IInv` |
| `StoreIsWhatWasAnswered` | `UserStoreProofs` | `Spec => []StoreMatchesAnswers` |
| `NoIdTwice` | `UserStoreProofs` | `Spec => []IdsUnique` |
| `ListsAreSound` | `UserStoreProofs` | `Spec => []ListSound` |
| `StartupInvariant` | `StartupProofs` | `Spec => []IInv` |
| `ErrorsAreReal` | `StartupProofs` | `Spec => []ErrorIsReal` |
| `ServesOnlyWellFormed` | `StartupProofs` | `Spec => []ServesWellFormed` |
| `RoutesAreConfigured` | `StartupProofs` | `Spec => []RoutesAsConfigured` |

**The limiter**, from `LimiterAssumption` alone: any number of requests, keys,
sweepers and shards, any window and delay. `WindowLimit` counts admissions in
the log, the code counts entries of the deque, so it is not inductive. `IInv`
adds what connects them: `RecentKept`, an admission from the last
`Window - MaxDelay` is still in its key's deque; `DequeBounded`, a deque holds
only logged admissions and never more than `MaxRequests`; and `StampsFresh`,
readings are never from the future nor older than the delay allows, and an
eviction's cutoff is never ahead of the clock less the window. A drain by a
call or a sweep removes only timestamps at or below its cutoff; by
`StampsFresh` such an admission was decided at most `MaxDelay` after that,
hence is outside the window that counts: `RecentKept` is preserved.
`WindowLimit` then follows, since a subset of the deque has at most its
cardinality. For the refinement, `Allow` with room in the deque has, by
`RecentKept`, room in the abstract window; `Deny` finds a full deque whose
entries were all decided in the last `Window + MaxDelay`; sweeps and clock
readings are stuttering steps, resets and clears forget. That the abstract
specification itself keeps its limit (`AbstractWindowLimit`, no run needed)
makes it a promise worth implementing. `RetryAfterHolds` looks at one step: a
denial means a full deque after the drain, and everything left there was admitted
after the earlier denial. `EvictionHolds` follows a sweep: the lemmas about `Swept`
say that in every shard already visited each key has an admission that is recent
or came after the sweep began, and that later steps leave it so. It needs
`MaxDelay <= Window`: with a longer delay a call could admit itself, under a
reading older than the sweep's cutoff, into a shard already visited.

**The body filter**, from `BodyAssumption`: any set of documents, any length,
any chunking. `BodyInv` has `BufferIsPrefix`, the buffer is exactly what
upstream sent so far, and `HeldBack`, nothing was passed on before the last
call and the content type kept is that of the final header. From the two, the
last call parses the whole text. `OnlyJsonRewritten` follows from the content type
kept, `Annotated` from it and the shape of documents (`DocumentsAssumption`).

**Selection and the route entry**, from `SelectionAssumption`: any number of
requests, backends and steps, any size of the counter. `IInv` adds to
`SeenReadyIsChosen` that `steady` is a part of what is ready now: a backend that
was skipped was unready or skipped before, hence is not steady. `AloneFindsReady`
needs to know which backends were offered: `AloneInOrder` says that an
undisturbed selection was offered what `k` steps in a row offer from where the
counter was when it began, wrapped around at the size of the counter. The rest
is arithmetic on remainders (`OffersInARow`, `BeforeTheWrap`, `AfterTheWrap`):
before the wrap, or after it, there are as many steps in a row as backends, so
every backend is among those offered (`EnoughOffersAll`), and none of them is
steady. `EnoughSteps` is the bound this takes: a step for each backend when the
counter's size is a multiple of their number, twice as many less one otherwise.
With the 32 steps and the 2^64 of the code it holds up to 16 backends, and for
32. Other numbers above 16 it excludes: from 17 to 31 a selection that begins just
before the wrap may be short of steps, once in 2^64 selections; above 32 every
selection is, since 32 steps do not reach all backends. For `Upstream`
the inductive `FlagsFit` says that the flags of the entry are a function on its
backends; a `Report` then is a `Flip`, or stutters when the probe confirms the
flag, and everything else that the checks do stutters.

**The health service**, from `HealthAssumption`: any table of routes and any
intervals. `LoopFits` ties the probes to the place of the loop: at most one entry
is probed, it is not due any more, and only its backends have probes. With it,
`Visit` and `EndVisit` stutter under `CheckOf`, `Wake` starts a round, and what a
probe found is written to the entry it belongs to. `FlipsHold` adds, for a probe
that has a result, that the backend was up (or down) since `started`. For
`FlagsStayFresh`, `Paced` says that there is a time `s` at which the last round began:
the next tick is due by `s + Interval`, after `n` visits at most `n` timeouts have
passed, a flag that was looked at since is at least as recent as `s`, and one that
is still to be looked at is from the round before, which began at most the longer
of a round and the interval earlier.

**The request pipeline**, from `ProxyAssumption`: any requests, connections,
heads, servers and retries, with or without a limiter. An action moves one
request, so the invariant is a type invariant and a predicate `Fits` of each
request, which other requests leave alone (`FitsKept`) and its own actions
restore. Beside the properties it has `StageFits`, where a request is tells what
the limiter said and what the client has got; `RouteFits`, a request that was let
pass has the route of the server it names, for which `TargetIsNamed` goes through
the kinds of headers; and `AttemptsFit`, the attempt that is out is an open one,
and a request that has turned back was refused, or broke on a reused connection
while its buffer was not truncated: without it the next attempt could be one that
`NoBlindRetry` forbids. That a literal in a header is found nowhere takes the
assumption (`HeaderFits`) that no server is named by what the split leaves of it,
an opening bracket.
`ProxyUsesLimiter` shows that the calls the proxy makes of its limiter are a
behaviour of `RateLimiter`, and `WindowLimitInProxy` takes the limit from there
(`RateLimiterProofs` instantiated with the keys of the proxy). With it, and because
the proxy never resets its limiter (`AdmissionsKept`), `BackendsAreSpared` bounds what
backends get to see of an address: every limited request that reached one is an
admission in the limiter's log, and retries add none. `ProxyKeepsPromise` is the
refinement of `Exchange`, action by action: the limiter's answers are those of the
window in `Exchange` by the lemmas of its own refinement (`AllowImplements`,
`DenyImplements`); an attempt is one that `Send` allows by `AttemptsFit`; and an error either ends a
response that has begun or is answered with a status that tells the reason
(`FailureTold`).

**The user store**, from `UserStoreAssumption`. `IInv` has, besides the three
properties: `StagesFit`, a request is only at a stage of what it asks for;
`IdsTaken`, ids of creates are below the counter and only those who had been there
were deleted; and `ListAgrees`, a list has all of `steady` from the shards behind
it and nothing that is not in `met`. An `InsertUser` adds an id that no confirmed
answer names yet, since ids are unique.

**Startup**, from `StartupAssumption`: any set of raw configurations, with any
number of upstreams, servers and names. The properties are about the end, and
each loop relies on what the earlier ones left in their maps, so `IInv` says of
every step what the part of the configuration read so far gives. `MapFits`: a
name in the upstream map has the backends of the last upstream of that name so
far, and a name that is not there has not been met (`HashMap::insert` in a loop
is "the last one counts"). `ServersFit`: a name in the server map was met once,
at one place, and got what its server says there. `UpstreamsKnown`: no server
read so far lacks an upstream. `RoutesFit`: routes are copied from resolved
servers whose addresses are good, in whatever order the map yields them.
`StagesFit`: what a stage has let through stays good, which at the last stage
adds up to `Sound`. An error is raised next to the fault it names, and the map
entries turn what the code finds in a map (`Taken`, `UnknownUpstream`) into what
is wrong with the configuration as a whole (a name listed twice, an upstream
that is nowhere defined).

## What is only model-checked

Liveness under fairness: `SelectEnds`, `FlagsSettle`, `DeadIsSpared` and
`RecoversAlone` are out of the prover's reach and stay with TLC. Every
invariant, action property and refinement that a run checks is also proved. The
four refuted statements need no proof: their counterexamples are states and
steps of the instances in the table of runs.

## What is not modelled, and why

* `ProxyConfig::update` has no caller, and nothing reads the swapped
  configuration: the route table and the limiter are built once, and no hook looks
  at the configuration in its context. `to_yaml_file` and `from_yaml_str` are
  called by tests only.
* Of `examples/server.rs`: JSON, hashing as such, TLS and the header added to every
  response.
* Hooks that only log or set constant headers, and the cache hooks (no cache is
  enabled), change nothing that the properties are about.
* The health service ignores the shutdown signal it is given; its end is the
  end of the process.
* Timeouts of requests: the peer has none set, so none can be modelled.
* pingora, tokio and dashmap are external: their behaviour is modelled from how
  the code uses them, and marked so in the map. The assumptions that matter are:
  one shared counter advanced once per step; one lock per shard, held for a
  whole `entry` operation; a retry only before the response header and within
  pingora's own limit, of a request that was refused or for which `decide_reuse`
  was told so; a truncated retry buffer gives nothing back; trailers end a body without a call for the end of stream.

## Plan

1. `ResponseBody` composed with `SimpleProxy`, so that an error in the middle of
   a body and a body kept back meet.
2. The theorems that follow: what a client gets of a body whatever becomes of the
   request it belongs to.
