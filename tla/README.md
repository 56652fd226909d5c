# A TLA+ model of edge-proxy-go

edge-proxy-go is an HTTP reverse proxy with weighted least-connections routing,
a circuit breaker per backend, active health checks, hot reload, and a rate
limiter that keeps its state in Redis or in the process; it can also relay TCP.
This directory models the parts of it that are concurrent or that fail part way,
and the configuration they all depend on, checks them with TLC on small
instances and proves the safety results with TLAPS for all instances.

Every definition that stands for code names its lines in `PROJECT.json` under
`map`.  Paths below are those of the repository (`src/` here).

## 1. The system

### Components

| Component | State | Operations | Where |
|---|---|---|---|
| Backend pool | `backendPool.backends`, `current`, one `backendStats` per entry | `nextFor`, `startRequest`, `finishRequest`, `reconfigure`, `setBackendState`, `status` | `health.go` |
| Circuit breaker | `breakerState`, `breakerOpenedUntil`, `consecutiveErr`, `halfOpenInFlight` of an entry | inside `nextFor` and `finishRequest` | `health.go` |
| Health checker | the copied address list of the current sweep | `startHealthChecker`, `probeHTTPBackend` | `health.go` |
| Proxy handler | the local variables of each request's goroutine | `proxyHandler`, `roundTripToBackend`, `trackedResponseBody`, `copyResponse` | `main.go` |
| Local rate limiter | `rateLimiter.local`, a bucket per requester | `evaluateLocal` | `rate_limiter.go` |
| Redis rate limiter | five keys per policy and requester | `Evaluate`, `incrementAbuse` | `rate_limiter.go` |
| Runtime configuration | `cfg`, `rl`, `runtimeMu`, and the pool | `reloadRuntimeConfig`, `currentConfig`, `currentRateLimiter` | `main.go` |
| Policy resolution | none | `resolveRateLimitConfig`, `applyPolicyOverrides` | `main.go`, `config.go` |
| Configuration loading | none | `loadConfig`, `Validate`, overrides, defaults | `config.go` |
| Listener, TCP mode, shutdown | `activeConns`, the phase of `runProxy`, its two time limits | `runProxy`, `startListener`, `trackConnectionState`, `serveTCPProxy`, `handleTCPProxyConnection` | `main.go` |
| Stats server, metrics, access log | counters and a ring under `statsMu` | `buildStats`, `metricsHandler`, `recordRequest` | `main.go` |
| Tracing | none of its own | set-up, header injection | `tracing.go` |
| Demo backends, dashboard, deployment files | - | - | `backend.go`, `cmd/`, `dashboard.html` |

### How they interact

* A request's goroutine reads `cfg`, then `rl`, then asks the limiter, then the
  pool, each under a lock of its own.  Nothing holds these reads together.
* For each attempt it calls `nextFor` (which may take the half-open slot), then
  `startRequest` (which captures the stats object of the entry), performs the
  round trip without any lock, and calls the `finish` closure exactly once: at a
  transport error, at an error or the end of the body, or at `Close`.  `finish`
  updates the captured stats object with atomics and then takes the pool's lock
  for `finishRequest`.
* `POST /-/reload` replaces the slice of entries by clones and afterwards `cfg`
  and `rl`, and closes the client of the limiter it replaced.  Calls under way
  keep the old stats object and find their entry by address when they finish.
* The health checker copies the addresses, probes them one by one without the
  lock, and writes each result back by address.
* The operator's `POST /-/backends` sets `disabled` and `draining`.
* Replicas share the Redis keys of a requester; an evaluation is five round
  trips at most, each may fail, and its time is the replica's own.
* `loadConfig` puts defaults, file and environment over each other and validates
  once, at start and at each reload.  `resolveRateLimitConfig` picks the policy of
  a request and hands its numbers to whichever limiter is in force, under a bucket
  named by policy and requester.
* `runProxy` starts all of this and stops it: the listener first, then the stats
  server, both within one limit of 30 seconds, then it polls `activeConns` for at
  most 30 more.  The hook of `net/http` counts there, and each relay goroutine.

### What is hard here

Results of calls that overtake each other and meet a breaker in another state;
a reload between any two steps of a call; two copies of the rule for when a
backend is available; a retry loop that leaves in five ways, each with something
to give back; the clock read before the lock, or before the Redis transaction;
Redis state read in one transaction and written back in another, by replicas whose
clocks differ; overlapping reloads; defaults applied before, between and after overrides; connections
counted by goroutines that the drain does not know of yet; a relay whose two
directions end apart.  `PROJECT.json` lists these as hazards, at their lines.

### What makes each component correct

* Pool and breaker: a taken half-open slot always has a call that will give it
  back; state, count, cooldown and slot of a breaker agree; the gauge covers the
  calls under way; the cursor serves weights exactly; the operator's decision
  survives everything but another decision; breakers recover.
* Handler: whatever happens, each call is settled exactly once, retries stay
  within the route's number, the response copied is still open, and the request
  is answered.
* Limiters: what passes in any window is bounded; Retry-After is honest; a
  requester who stays within the rate is not punished; punishment ends.
* Reload: the limiter in force is open, no client is forgotten, pool and
  configuration agree, a failed reload changes nothing, and nothing but a reload
  gets a request refused for what a reload replaces.
* Configuration and policies: what loading accepts is sound for the limiters, in
  the base and in each policy; a policy has its own numbers and inherits the
  others, however often defaults are applied; one bucket has one set of limits.
* Lifecycle: the connection count is exact, the drain misses no counted
  connection, a half-closed relay keeps its other half, and both the relay and
  the process end.

## 2. Modules

| Module | Models | Proofs |
|---|---|---|
| `BackendPool` | pool, breaker, health checker, admin actions, reload of the entries | `BackendPool_proofs` |
| `ProxyHandler` | extends `BackendPool` with the goroutine of each request | `ProxyHandler_proofs` |
| `LocalLimiter` | the in-process limiter | `LocalLimiter_proofs` |
| `RedisLimiter` | the Redis limiter, over replicas | `RedisLimiter_proofs` |
| `RuntimeReload` | overlapping reloads against requests | `RuntimeReload_proofs` |
| `Configuration` | loading, validation and policy resolution, as operators | `Configuration_proofs` |
| `Lifecycle` | extends `Configuration` with `runProxy` and its connections | `Lifecycle_proofs` |
| `Counting` | no code: the sum of a function over a set, in a form that can be proved about | `Counting_proofs` |

`MC*` modules hold the small sets the configurations name.  Definitions marked
"mutant" are changed forms of the definition below them; `PROJECT.json` pairs
each with the property that must fail under it.  They take no part in the
specifications.

### BackendPool

Each action is one critical section of `backendPool.mu`, or one batch of atomics
outside it.  `pool` is the slice; `calls[c]` is what the goroutine of call `c`
holds between its steps (`picked` after `nextFor`, `sent` after `startRequest`,
`settling` between the atomics of `finish` and `finishRequest`).

* `stats` of a call is the pair of generation and index that names the stats
  object it captured; a reload raises `generation`, so a late `FinishStats`
  finds the object only if no reload replaced it.
* `breakerOpenedUntil` is kept as ticks left; `Tick` is time.
* Scores are exact integers: `Scale` is a multiple of all weights.
* The average latency is chosen at each selection.  No property depends on it.
* Requests, errors and last status of an entry are left out: nothing decides on
  them.  Transports are left out.
* `MaxErr` bounds the error count and `MaxReloads` the generations.  At the bound
  no new failure is chosen, which also keeps a half-open probe from failing, so
  `MaxErr` is above the threshold wherever breakers are checked: a probe may then
  fail as many times in a row as the difference.

### ProxyHandler

One request per call slot; `requests[r]` holds its locals.  Each step is a step
of `BackendPool` for the same slot or leaves the pool alone, and the module
states this as a refinement (`PoolImplemented`): the handlers implement the
pool's specification *with its fairness*, that is, they always send what they
picked and settle what they sent.  The handler may fail by the body limit, the
limiter, the throttle delay, no backend, transport errors, gateway errors, the
deadline, the client's leaving, and a response that is too large; reloads, admin
actions and the passing of time go on meanwhile.

The refinement gives the pool a wider bound on errors, `MaxErr` and `MostTries`
more for each request.  A handler asks `MayFail` when the upstream decides on a
failure, and counts it steps later; and a request whose context is over fails in
every attempt left to it, without asking.  `HandlersUseThePool` proves the wider
bound sufficient, so the simulation loses no failure to it.

### LocalLimiter

`ReadClock` and `Decide` are separate since `time.Now()` is read before
`rateLimiter.mu` is taken (`rate_limiter.go:216`, `227`), so a later reading may
decide first.  `answer.until` is the instant Retry-After leads to, computed with
`time.Until`, the clock by then.

### RedisLimiter

One action per command or MULTI/EXEC transaction of `Evaluate`: the TTL of the
block, the transaction that records and reads, INCR, EXPIRE, SET, and the
transaction that writes back.  A failing transaction may or may not have been
executed by Redis.  `window` counts the members per score, so members are taken
as distinct.  Rates are compared as counts per window.  The average rate decides
only whether a high rate is a spike: the model lets it be one whenever the other
conditions for a spike hold.  A throttled request is delayed and then forwarded
(`main.go:423`); the properties about what passes count those neither throttled
nor blocked.

Each proxy scores, removes and refills by its own `time.Now()`
(`rate_limiter.go:93`, `118-123`, `151`, `200`).  `clock` is the fastest of these
clocks, and `Begin` reads any time from `MaxSkew` seconds behind it.  `MaxSkew` is
a constant, and 1 stands for clocks that differ by no more than a boundary between
two seconds.  Window and bucket expire `EventRetentionSeconds` after they were last
written (`rate_limiter.go:126`, `201`), counter and block by their own spans; all
these run with the ticks of `clock`, that is Redis's clock is no slower or faster
than the proxies'.  What the properties assume of the two constants is part of
their statements: `WindowBounded` a retention of at least the sliding window,
`TokensHold` one in which the bucket fills up again (`RefilledInTime`),
`ModestSpared` a skew shorter than the window.  `Validate` asks for none of these,
and without each of them the property fails (section 5).

A slower clock costs the limiter something even so.  A sliding window by the clock
of one proxy is one of another's only where they overlap, so `WindowBounded` is
about a window less the skew.  And a proxy that sets `last_refill` back gives the
seconds in between to the bucket twice: `regained` counts these tokens, and
`TokensHold` allows them.

### RuntimeReload

`loads` is what each `loadConfig` and `newRateLimiter` produced; `pool`, `cfg`
and `rl` are indices into it, so that a mixture of two files shows.  A reload
runs through `pinging`, `reconfiguring`, `installing`, `closing`, in the order
of `reloadRuntimeConfig`; a request reads `cfg`, then `rl`, evaluates, and picks
from the pool.  A valid file may list no backend: `Validate` asks for one only in
mode "http" without `INPROC_BACKENDS` (`config.go:224`), and the pool takes its
addresses from the file alone.  A load that fails, which changes nothing, is no
action.  Which
requests a limiter blocks and which backends are available is left to the other
modules: here a request is refused only because something is gone.

### Configuration

Only operators, in the order of `loadConfig`: `Decoded` (file over defaults),
`Overridden` (environment over that), `WithDefaults` (once inside the
environment step, again if there is a file), `Prepared` and `Valid`.  A file or an
environment is the record of the settings it sets, so "not set" and "set to
zero" differ as they do in the code; a variable that does not parse is not set.

* The ten numbers of a rate limit are one function, `Rate`.  Rates and bursts
  are in units of 1/`Scale` request, rounded up where the code divides; the
  windows of the instance divide `Scale`, so nothing is rounded there.
* A port is kept as its form: empty, with its colon, or bare.  Health check and
  size settings are "sound" or not.  Paths are sequences of segments.
* A bucket's key is a pair.  The code joins with colons, so names of policies
  are taken not to contain one.
* `Resolved` takes the first policy that applies, as the loop does; `FirstPolicy`
  says which one that is without a loop.

### Lifecycle

`phase` is where `runProxy` is, from `loading` to `exited`, with each of its
failing exits; `outcome` tells them apart.  `cfg` is what it loaded.
`ctx` and `deadline` are the two limits of 30 seconds, each unset, running or
over; `statsBusy` says that the stats server is serving a client, which may take
as long as it likes since that server has no timeouts (`main.go:607-632`).

`conns[c]` is a connection with the goroutine that serves it.  In HTTP mode the
stages are the states of `net/http`, whose hook counts before the connection has
a goroutine; `ReadRequest`, `Answer` and `CloseHTTP` are `net/http`'s and
modelled from how the code uses it.  In TCP mode a connection is `accepted` until
its goroutine has counted it, then dials and relays: `client` and `server` are
what the two ends still send, `up` and `down` the two copying goroutines, and
`ClientTold` and `ServerTold` say that `CloseWrite` reached an end.  A reload does
not change what is modelled here: mode, ports and TLS are read at start.

## 3. What the runs check

| Run | Instance | Properties |
|---|---|---|
| `PoolBreaker` | 2 backends (weights 2, 1), the first listed twice, 2 calls, threshold 2, health checks, drain and enable | `TypeOK`, `BreakerConsistent`, `ProbeOwned`, `GaugeExact`, `RoundRobinExact` |
| `PoolReload` | 2 backends, 2 calls, 2 reloads, disable and enable, threshold 1 | `ProbeOwned`, `ActiveCovers`, `StatusAgrees`, `OperatorDecides` |
| `PoolRecovery` | 1 backend, 2 calls, threshold 3, cooldown 2, fairness | `SlotReleased`, `BreakersRecover` |
| `HandlerPaths` | 1 request, 2 backends, every input, 1 reload, disable and enable, fairness | `HandlerTypeOK`, `NothingLeft`, `TriesBounded`, `AnswerHasSource`, `EveryRequestAnswered`, `PoolImplemented` |
| `LimiterBurst` | 2 evaluations, window 2, limit 2, block 3, 6 seconds | `TypeOK`, `BurstBounded`, `BlockNeedsFull`, `RetryAfterHolds` |
| `RedisReplicas` | 2 evaluations at a time, 5 in all, capacity 2, window 2, retention 3, skew 1, 4 seconds, every command may fail | `TypeOK`, `WindowBounded`, `TokensHold`, `ModestSpared`, `CounterHasEnd` |
| `ReloadOverlap` | 2 reloads at a time, 4 loads, 3 configurations, one of them without backends, 1 request | `TypeOK`, `CurrentLimiterOpen`, `ClientsOwned`, `LoadsAgree`, `RefusalsNeedReload` |
| `ProcessLife` | 886 starts; 2 connections in those that serve, fairness | `LifecycleTypeOK`, `AcceptedSound`, `PoliciesInherit`, `BucketsApart`, `CountExact`, `DrainComplete`, `RelayComplete`, `ShutdownEnds`, `RelayEnds` |

Four more runs check one documented statement each, and TLC refutes it:

| Run | Statement | What happens |
|---|---|---|
| `PoolTwoProbes` | "the cooldown permits one half-open probe" (`docs/architecture.md:40`) | A failed health check, or a late result, clears the slot of a probe that is still out, and a second one goes (`health.go:538-540`, `349-351`). |
| `PoolGaugeLeak` | "Active in-flight requests per backend" (`main.go:740`) | A reload copies the gauge; the decrement of a running call goes to the old object (`health.go:324-327`, `436-441`). The gauge stays too high and `nextFor` scores with it. |
| `PoolStarved` | "half-open recovery" (`README.md:44`) | A half-open backend scores at least 350 and never wins against an idle healthy one, so it never gets its probe (`health.go:157-159`, `207`). |
| `HandlerClosedBody` | "no eligible backend: 503" (`docs/architecture.md:44`) | After a gateway error was closed for a retry that finds no backend, that closed response is what the client gets (`main.go:475-487`). `ResponseNeedsRetry`, a part of `AnswerHasSource`, says that this is the only way. |

### Why the bounds are enough

* Two calls are what it takes for a result to overtake another, for a probe to
  meet a late result, and for the gauge of one to cover another; one threshold
  above 1 is what separates counting from opening.
* `MaxErr` is one more than the threshold, so each probe may succeed, fail, or come
  late, and the next one follows; in `PoolBreaker` the probes are those of the
  second backend, since the first has an idle second entry (`PoolStarved` shows why
  that keeps it from being probed), in `PoolReload` those of both.
* Two reloads let an address go and come back, and let a call of the first
  generation settle in the third.
* `PoolRecovery` has one backend so that recovery depends on the breaker alone;
  with a second one it is false, which is what `PoolStarved` shows.
* In `HandlerPaths` one request meets every path; the other requests' effect on
  the pool is what `PoolBreaker` and `PoolReload` explore with two calls, and
  `PoolImplemented` says those runs speak for the handler's calls.
* `LimiterBurst` covers three windows, so a burst across an edge and a stale
  reading across an edge both occur; the block outlasts the window.
* `RedisReplicas` covers two windows and five evaluations, enough to fill the
  window, to be abusive twice and reach the threshold of 2, to see each of the four
  keys expire, to spend a bucket, and to let a slower clock record behind a faster
  one that has removed members, or set `last_refill` back.
* `ReloadOverlap` lets each of two reloads run more than once, so one can retire
  what the other installed.
* `ProcessLife` starts the program in every combination of the settings, rates
  and policies that loading treats differently: set or not, zero, negative, in
  file or environment, in an order that matters.  These starts meet a port that
  is in use, so each adds a few states only.  Three starts serve: HTTP, TCP, and
  TCP over TLS.  Two connections are what it takes for one to be counted while
  another is accepted, or closing while another is relayed.

`CHECK_DEADLOCK FALSE` stands where the model may stop: the pool runs stop at
`MaxErr` and with time or reloads used up, the limiter runs at `MaxClock`.  The
handler and reload runs check for deadlock.  `ProcessLife` stops where the process
has exited.

### Fairness

* `LiveSpec` of the pool: a goroutine that was given a backend goes on to send
  and to settle.  The code has no waiting between these steps but locks and the
  round trip, which the context's deadline ends.
* `BusySpec` adds that time passes and that requests for every route keep
  coming; without requests a half-open backend cannot be probed.  Strong
  fairness is for the arrivals, which the environment owes, not the code.
* `FairHandlerSpec`: each request's goroutine goes on by itself.  Reading ends
  by the server's `ReadTimeout`, the delay by its timer, the round trip by the
  deadline and the copy by `WriteTimeout`.  Nothing is assumed of clients.

* `Runs` of the lifecycle: after the signal `runProxy` goes on, its timers run
  out, a closed listener ends the accept loop, and relay goroutines take the
  steps that wait for no one.  Nothing is assumed of signals, clients, backends or
  handlers, so `ShutdownEnds` rests on the time limits alone.
* `Polite` is an assumption about the environment that only `RelayEnds` needs:
  an end of a relay that is told that the other has finished finishes too.  The
  code sets no limit on a relay, so without it one direction may stay open.

`BreakersRecover` assumes that calls stop failing from some point on, which is
the condition under which the documentation promises recovery.

## 4. What is proved

Each theorem holds for every value of the constants that the named assumptions
of the module admit.

| Theorem | Says |
|---|---|
| `BackendPool_proofs!TypeCorrect` | `Spec => []TypeOK` |
| `BackendPool_proofs!BreakerAlwaysConsistent` | `Spec => []BreakerConsistent` |
| `BackendPool_proofs!ProbeAlwaysOwned` | `Spec => []ProbeOwned`: no number of calls, reloads, admin actions and health checks leaves a half-open slot taken with nobody to release it |
| `BackendPool_proofs!StatusAlwaysAgrees` | `status()` and `nextFor` apply one rule |
| `BackendPool_proofs!ActiveAlwaysCovers` | if `Call` is finite, the gauge never misses a running call, for any number of reloads |
| `BackendPool_proofs!OperatorAlwaysDecides` | if the configuration repeats no address, only admin actions change what is in service |
| `BackendPool_proofs!RoundRobinAlwaysExact` | one turn of the cursor gives each tied candidate exactly its weight |
| `BackendPool_proofs!GaugeExactUntilReload` | if `Call` is finite, the gauge is exactly the number of running calls, until the first reload |
| `ProxyHandler_proofs!HandlerTypeCorrect` | requests and pool keep their types |
| `ProxyHandler_proofs!NothingIsLeft` | on every path through loop and copy, each call is settled by the time the request no longer forwards |
| `ProxyHandler_proofs!TriesAlwaysBounded` | at most the route's retries and one call more, and one call for other methods |
| `ProxyHandler_proofs!AnswerIsAlwaysOpen` | what is copied is open and from the backend that is logged, but for a closed gateway error |
| `ProxyHandler_proofs!ResponseAlwaysNeedsRetry` | without an eligible backend, a response is the gateway error of a request that had a retry left |
| `ProxyHandler_proofs!AnswerAlwaysHasSource` | both of these together, which the run `HandlerPaths` checks |
| `ProxyHandler_proofs!WithoutRetriesAlways503` | `NoBackendIs503` for finitely many requests whose routes have no retries |
| `ProxyHandler_proofs!HandlersKeepBreakers` | the composition of all handlers with the pool keeps `BreakerConsistent` and `ProbeOwned` |
| `ProxyHandler_proofs!HandlersAreCounted` | if `Call` is finite, the gauge misses no call of any handler, and is exact until the first reload |
| `ProxyHandler_proofs!HandlersObeyOperator` | if the configuration repeats no address, no attempt of a handler goes to a backend out of service, and only admin actions change which are |
| `ProxyHandler_proofs!HandlersUseThePool` | `HandlerSpec => PoolUse!Spec` for finitely many requests and retry counts: what the handlers do to the pool is what the pool's specification allows |
| `LocalLimiter_proofs!TypeCorrect` | no bucket counts beyond the limit |
| `LocalLimiter_proofs!BlockAlwaysNeedsFull` | a block stands only on a full bucket |
| `LocalLimiter_proofs!RetryAfterAlwaysHolds` | Retry-After of `window_exceeded` leads to an admission |
| `LocalLimiter_proofs!BurstAlwaysBounded` | no period as long as the window admits more than twice the limit and one for each other evaluation |
| `RedisLimiter_proofs!TypeCorrect` | the tokens stay between none and the capacity |
| `RedisLimiter_proofs!CounterAlwaysHasEnd` | the abuse counter lacks an expiry only within `incrementAbuse`, or after a failure |
| `RedisLimiter_proofs!WindowAlwaysBounded` | if its key outlives it, a sliding window less the skew of the clocks lets no more through undelayed than a whole one's rate and one for each evaluation, whatever fails |
| `RedisLimiter_proofs!TokensAlwaysHold` | unless evaluations overlapped, with a bucket that is full again before its key expires, no period lets more through undelayed than capacity, refill and what slower clocks set back |
| `RedisLimiter_proofs!ModestAlwaysSpared` | unless evaluations overlapped, with clocks less than a window apart, who keeps to the rate is not counted as abusive and not blocked |
| `RuntimeReload_proofs!TypeCorrect` | files, loads, clients, reloads and requests keep their types |
| `RuntimeReload_proofs!CurrentLimiterAlwaysOpen` | no reload closes the limiter in force, however many overlap |
| `RuntimeReload_proofs!ClientsAlwaysOwned` | no client is forgotten but by a failed ping |
| `RuntimeReload_proofs!LoadsAlwaysAgree` | without overlap, pool, configuration and limiter come from one file |
| `RuntimeReload_proofs!RefusalsAlwaysNeedReload` | for every set of valid configurations, only a reload gets a request refused, or a configuration without any backend |
| `Lifecycle_proofs!TypeCorrect` | process, timers and connections keep their types |
| `Lifecycle_proofs!AcceptedAlwaysSound` | whatever file and environment, an accepted configuration gives limits a limiter can work with |
| `Lifecycle_proofs!PoliciesAlwaysInherit` | for every request, a policy has its own numbers and the base's for the rest |
| `Lifecycle_proofs!BucketsAlwaysApart` | one bucket, one set of limits, unless a policy is named "default" |
| `Lifecycle_proofs!CountAlwaysExact` | for any finite set of connections `activeConns` is the number of the counted ones |
| `Lifecycle_proofs!DrainAlwaysComplete` | the drain ends early only when no counted connection is left |
| `Lifecycle_proofs!RelayAlwaysComplete` | no relay is taken down while an unbroken half still sends |

The arguments:

* Pool.  `ProbeOwned` is not inductive alone.  That a `finishRequest` frees the
  slot of the *first* entry with its address is enough only because an entry
  that repeats an address never leaves its initial breaker state, and a slot is
  taken only in the half-open state.  Both are in `BreakerConsistent`, which in
  turn needs the types.  The invariant is the conjunction of the three.
  `SlotsKeepOwners` carries over owners for steps that only keep or free slots;
  `PoolStep` reduces a step over the pool to one entry.
  `ActiveCovers` is inductive with two facts (`OldStats`): a call has a stats
  object only once it was sent, and no object is of a generation to come, so that
  no call is counted on fresh clones.  `OperatorDecides` needs that addresses stay
  distinct (`Distinct`), as a reload keeps them; section 5 says what a repeated
  address does.  `StatusAgrees` follows from the types alone.
* Exact counts.  `GaugeExact` speaks of addresses, and is inductive once it is said
  of each stats object (`Exact`): each gauge is the number of calls counted on it,
  and a running call is counted on the first entry of its address.  A reload, which
  copies the gauges, is where the induction ends.  For `RoundRobinExact` the
  positions of the cursor are cut into stretches (`Upto`): each tied entry has the
  stretch that begins where those before it end, as long as its weight.
* Handler.  The invariant says for each stage of a request what its goroutine
  holds of the pool (`Holds`) and how calls sent, attempt and retries relate
  (`Counts`).  The lemmas about the pool's actions do not depend on who takes
  them, so each handler action is reduced to one of them and to the move of one
  goroutine (`OneGoroutine`).  The pool's invariants are shown for `Moves`, which are
  the pool's steps without the bound `MaxErr` on errors; `HandlerMoves` shows the
  handlers' steps to be such, so what holds of the pool holds under the handlers.
* Response without backend.  `Traced` says where the response of a request may come
  from at each stage: from a call, and with no backend from a gateway error that
  was closed for a retry, so that fewer calls were sent than the retries allow.
* Simulation.  A handler's action contains the pool's action, so a step maps to a
  step at once (`SameSelection`, `SameCallSteps`, `SameBackground`) but for one
  guard: that a failure may be counted.  `Owed` is the number of failures that a
  request may still count without asking, and `ErrBounded` says that the errors of
  an entry and what all requests owe its address stay within `MaxErr` and the
  margin.  A step that counts a failure pays for it out of what is owed; a step
  that lets a request owe more is one that found the count below `MaxErr`, and what
  all can owe is never more than the margin.  Then a failure that is still owed
  finds the count below the bound of the pool (`WideEnough`).
* Local limiter.  `BlockNeedsFull` needs that a renewed bucket has no block
  (`RenewedBucket`) and that a block is set only where the bucket is full.
  `RetryAfterHolds` is about the bucket the last decision left and the instant
  its Retry-After leads to, which `AdmitsAfterWindow` shows to lie in the next
  window although the clock has moved on since the evaluation read it.
  `BurstBounded` needs to know how the admissions of a period lie to the window of
  the bucket (`Spread`): if that window ended before the period, they came from
  readings older than the period, and each evaluation has one reading at a time;
  if it covers the period's beginning, all but those are in its count; if it began
  within the period, an earlier one may have contributed as many as the limit.
  An evaluation whose reading is still to be decided on is set aside (`Stale`).
* Redis limiter.  `CounterHasEnd` needs that only the stage `expiring` follows a
  successful INCR, and that EXPIRE is given a positive span; steps that move an
  evaluation from another stage are covered by one lemma, `StillExpiring`.
  `WindowBounded`: as long as some replica may still read the last instant of the
  period, which is `MaxSkew` seconds longer than the fastest, no member of the period
  is removed and the key cannot have expired (`Orderly` ties its time left to its
  members), so the sorted set holds all that was given and this is at most the rate.
  From then on members may be gone, and only the evaluations that read a clock
  before can add to the period, one each (`GivenBounded`).  `TokensHold` and
  `ModestSpared` hold only while evaluations do not overlap, which is where the code
  reads in one transaction and writes back in another.  Then the tokens of the bucket
  and what was let through since any instant sum to at most capacity, refill and what
  was set back (`Covers`), the tokens an evaluation will write back are covered too
  (`Affordable`), and a bucket whose key is gone would have been full by any reading
  to come (`CoversAt`), which is where `RefilledInTime` is used.  And the window never
  holds more than was asked, nor members further apart than a window: what a slower
  clock finds ahead of it, the faster one has made room for (`Fits`).  So nobody who
  keeps to the rate is on the way to a block (`Accounted`).
* Sums.  What these counts add up is the size of a set of units (`Counting`), so
  that the library's theorems on finite sets give how a sum changes with one term
  (`SumCountUp`), with all (`SumMonotone`, `SumLess`) and with its domain.
* Reload.  That the limiter in force stays open needs that what a reload closes
  is no longer in force (`ClosingRetired`) and never will be again, for which
  the load of a reload that has not installed it must belong to it alone
  (`PendingFresh`).  `ClientsOwned` is strengthened to `Owned`, which leaves out
  the loads that closing reloads have installed.  `Agreement` says that, unless
  reloads overlapped, there is one at a time and a pool that differs from `cfg`
  is its own.  `Undisturbed` says that what a request read is what is there,
  until a reload overtakes it; `RoutesServed` is the fact about `Validate` and
  `backendAddresses` that then gives it a backend, unless the file lists none.
* Configuration.  A rate is *full* when everything but `requests` and `window` is
  positive and the burst is at least one request.  `Filled` makes a rate full
  (`FilledIsFull`) and leaves a full one alone (`FullIsFixed`), so it does not
  matter how often defaults are applied; and overriding a full rate means, number
  by number, what a reader of the file expects (`OverrideMeans`), also when it
  is done again for each request (`MeantAgain`).  A full rate is sound for both
  limiters (`FullIsSound`).  `CandidateMeans` carries this through loading: what is
  loaded is full, and each policy is what the file gives it over that base.
* Lifecycle.  The invariant is the types, that a loaded `cfg` comes from `input`
  (`LoadedFrom`), that only TCP connections wait to be counted (`WaitsInTCP`), that
  a copy ended for a reason (`CopiedForAReason`), and `CountExact`.  Steps of a
  connection move it in or out of the counted ones, or neither; one lemma each
  (`CountedUp`, `CountedDown`, `CountedAsBefore`) gives the new cardinality.

Only model-checked: what is to happen eventually (`SlotReleased`, `BreakersRecover`,
`EveryRequestAnswered`, `ShutdownEnds`, `RelayEnds`, and the part of
`PoolImplemented` that is the pool's fairness), since liveness under fairness and
ENABLED are out of the prover's reach.  Every invariant and every action property
of a passing run has its theorem.

## 5. Divergences seen while modelling that no run checks

* `finishRequest` closes the breaker on any success, so a call sent before it
  opened closes it in the middle of the cooldown (`health.go:352-356`), although
  a backend should return "only ... through a half-open probe"
  (`README.md:238`).
* An address listed twice under `backends` has two entries; disabling it takes
  the first out of service (`health.go:448-466`), the second goes on.
* `reconfigure` gives a backend that is new in a reload weight 0, which counts
  as 1, and no health path, whatever its route says (`health.go:398-404`).
* All selections share one cursor modulo different totals, so that alternating
  routes may starve one of two equal backends (`health.go:181`, `192`).
* An attempt whose client has gone fails at once and counts against the backend;
  the retries of one such request can open a sound breaker (`main.go:466-486`,
  `553-557`).
* The 502 for a response that is too large is logged with the upstream's status
  (`main.go:498-499`), and the error of `io.Copy` is dropped, so a streamed body
  that is cut ends as if it were whole (`main.go:600-604`).
* A block of the local limiter is dropped with its window
  (`rate_limiter.go:229-231`), so `block_seconds` beyond the window has no
  effect.  `BlockNeedsFull` is the positive side of this.
* If only the TTL command fails, a blocked requester passes
  (`rate_limiter.go:106`), although Redis failures should fail closed
  (`docs/architecture.md:28`).
* A reload starts with an empty local limiter, so it forgets every window.
* Replicas whose clocks differ share more than a window: a faster one removes
  members that a slower one would still count, and a slower one sets `last_refill`
  back, so that seconds refill the bucket twice (`rate_limiter.go:118-123`, `200`),
  while "a Redis-backed decision is consistent across proxy replicas"
  (`docs/architecture.md:28`).  `WindowBounded` and `TokensHold` say how much that is.
* `event_retention_seconds` below `sliding_window_seconds`, or below the time that
  fills the bucket, lets a window or a spent bucket expire early; `Validate` compares
  them with nothing (`config.go:490-492` only fills in a default).
* An error of INCR or EXPIRE is ignored, so an abuse counter may stay without expiry, and
  the next abuse, however much later, adds to it (`rate_limiter.go:258-262`).
* A reloaded file that lists no backend is valid in mode "tcp" and with
  `INPROC_BACKENDS=1` (`config.go:224`), and empties the pool although the mode of the
  listener is not reloaded and the in-process backends run on (`main.go:203-207`,
  `1335`): every request is answered 503.
* Overlapping reloads may leave the pool of one file with the configuration of
  another; `LoadsAgree` holds only while reloads do not overlap.  A reload whose
  ping fails leaves its client open.
* A request that fetched the limiter before a reload closed it is answered 503.
* A backend that was unhealthy when a reload turned its checks off stays out of
  service (`health.go:509-511`).
* `rate_limit.key` defaults to "ip" (`config.go:142`), and the identifier header
  counts only if the key is empty (`main.go:382-386`).  So setting
  `RATE_LIMIT_IDENTIFIER_HEADER` alone (`README.md:286`) identifies nobody by
  header, and the policies with `api_keys` of `README.md:299-305` and
  `config.example.yaml`, which has `key: ip`, match nothing.
* A policy with `base_requests_per_second` and no `requests`, as in
  `README.md:306-311`, has no effect on the local limiter's limit while the base
  has `requests`, which the policy inherits (`rate_limiter.go:223`).
  `PoliciesInherit` is the rule that leads there.
* `config.example.yaml:20-23` sets `enabled: false` with certificate and key; the
  two turn TLS on (`config.go:437-439`).  Its `port: "8080"` passes `Validate`,
  but only the environment's ports are given their colon, so listening fails.
* A policy named "default" shares buckets with the base limits.
* `Validate` cannot find a rate, burst, sliding window or block below one:
  defaults have replaced them (`config.go:251-259`).
* In TCP mode any error of `Accept`, one that is temporary too, ends the loop for
  good while the process stays up (`main.go:329-332`).  A client over TLS is no
  `*net.TCPConn` and is not told that the backend has finished
  (`main.go:367-369`), so its relay may stay until it closes by itself.
* A TCP connection accepted just before the signal may count itself after the
  drain saw zero (`main.go:340`); `DrainComplete` excepts it.
* A failure to listen shuts the stats server down without a time limit
  (`main.go:215`), so a client that keeps a request open there keeps the failed
  process up.
* A signal before `signal.Notify` (`main.go:243-244`) ends the process at once,
  without the deferred shutdown of tracing.
* `X-Forwarded-Proto` and the scheme depend on the TLS setting of the current
  file, which a reload may change although the listener does not.

## 6. Not modelled

* Stats server, metrics and access log: handlers that format counters, gauges
  and a ring of entries, each read under one lock.  Nothing depends on what they
  say.  What matters of them elsewhere is modelled there: the admin actions and
  `status` in `BackendPool`, the stats server's shutdown in `Lifecycle`.
  `ProxyHandler` has the backend that is logged and the status the client gets; the
  logged status, which differs for a response that is too large, is not modelled.
* Tracing: when it is set up, when that fails and when it is flushed is in
  `Lifecycle`; spans and injected headers have no effect on the protocol.
* The growth of `rateLimiter.local`, which gets a bucket for every requester and
  never loses one (`rate_limiter.go:245`): a small instance cannot tell.
* Demo backends, the command line, the dashboard and the deployment files: no
  state of their own.
* The text of files and variables (YAML, numbers, durations, addresses): the
  model begins with the settings they give.  Text in `main.go` that is commented
  out is no code.

## 7. Plan

Done, in this order: `BackendPool` (the core: the breaker meets every other
part), `ProxyHandler` on it, the two limiters, `RuntimeReload`, `Configuration`
and `Lifecycle`, each with its proofs.  Left:

1. An abstract breaker (closed, open, probing, per address) and `BackendPool`
   shown to implement it where addresses are distinct and no health check
   interferes; an abstract limiter ("at most k per window") for both limiters.
2. Health checks switched off by a reload, on `RuntimeReload`, with the entries'
   health carried over by the clones.
