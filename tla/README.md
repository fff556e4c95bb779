# Verification of the distributed inference router

TLA+ modules, TLC configurations and TLAPS proofs for the router in
`router-core/`: an HTTP proxy in front of several LLM replicas that admits
requests against an in-flight budget, picks a replica, forwards the request and
accounts for the outcome.

    tlc -workers 2 -config breaker.cfg CircuitBreaker     # one run
    tlapm CircuitBreakerProofs.tla                        # the proofs of a module

`PROJECT.json` lists every run with its properties, the source lines behind each
definition, the mutants that show each property can fail, the hazards the
properties are aimed at, and the theorems.

## 1. The system

| Part | State | Operations | Talks to |
|---|---|---|---|
| Circuit breaker (`circuit_breaker.rs`), one per backend | `Inner` under a mutex: state, `opened_at`, ring of 1 s buckets, `probe_in_flight` | `state`, `is_routable`, `try_begin`, `record_success`, `record_failure`, `abandon` | called by selection, accounting and the metrics handler |
| Health checker (`health.rs`) | per backend: flag, two streak counters, scraped queue depth and cache usage | rounds of probes, scrapes | writes atomics that selection reads |
| Request path (`server.rs`, `proxy.rs`) | one handler per request | admission, body upload, selection, forwarding, reply | everything |
| Accounting (`accounting.rs`) | a guard per forwarded request: backend, admission, outcome, permit | start, headers, finish/drop; `AccountedStream` | breaker, connection counter, metrics, permit |
| Backpressure (`backpressure.rs`) | `in_flight` | acquire, drop of a permit | request path |
| Backend and pool (`backend.rs`) | the atomics of a backend | `routable()`, counters, latency estimate | all of the above |
| Strategies (`routing/`) | round-robin counters, the hash ring | `select` | selection |
| Configuration (`config.rs`) | the validated `RouterConfig` | parsing with defaults, `validate`, `normalized_url`, `listen_addr` | read once at start |
| Application wiring (`main.rs`, `app.rs`, `build_router`) | the pool, the routes, the health task | load, build, bind, serve, with an error exit from each | makes all of the above |
| Metrics registry (`metrics.rs`, `metrics_handler`) | counters, gauges, a locked registry | counting, copying of live values into gauges, encoding | scraped by several clients at a time |
| Mock backend, benchmarks, deployment | outside the router | | |

What is hard here: handlers run on several threads and share atomics and
breakers; every breaker call samples the clock *before* it takes the lock;
selection reads flags, breakers and depths one at a time and claims a backend
later; a request may end in the handler, in a polled stream or by being dropped
when its client goes away, and each of these must undo exactly what was done; a
half-open probe that is lost blocks a backend for good; scrapes of `/metrics`
overwrite each other's gauges; a configuration that is accepted by mistake fails
only under traffic, or in a background task nobody waits for.

What makes each part correct:

* breaker: one probe at a time, only its verdict decides, late verdicts neither
  close the circuit nor extend the open period, the window is really the last
  seconds, the probe always comes back;
* health checker: the flag is what the history of probes says, stale scraped
  values disappear, the flag follows a backend that settles;
* request path: permits, connection counts and probes are conserved on every
  path, each request is counted once, selection neither refuses nor chooses
  without reason, an uploaded request whose client goes on reading ends and its
  permit comes back;
* strategies: rotation by exact weights, a bounded herd, estimates that stay
  within what was measured, keys that stay where their cache is;
* configuration and wiring: an accepted file neither panics at start nor kills
  the health task nor gives a path two handlers;
* metrics: what is exported was true recently, however scrapes overlap.

## 2. The modules

| Module | Models | Proofs/runs |
|---|---|---|
| `Breaker` | the critical sections of the breaker as operators on `inner` | used by the two below and by `Router` |
| `CircuitBreaker` | one breaker under concurrent callers | `breaker`, `CircuitBreakerProofs` |
| `BreakerContract` | abstract: phases and holders, no time, no window | refined by `CircuitBreaker` |
| `WindowLog` | `CircuitBreaker` plus a log of all verdicts | `breaker_window`, `CircuitBreakerProofs` |
| `HealthFeed` | abstract: what the checker may publish | refined by `Health`, used by `Router`; `HealthProofs` |
| `Health` | the health checker | `health`, `HealthProofs` |
| `HealthAudit` | `Health` plus the last probes and the last body of each backend | `health`, `HealthProofs` |
| `Router` | requests from arrival to reply over `Breaker` and `HealthFeed` | `router_one_backend`, `router_liveness`, two divergences, `RouterProofs` |
| `RouterAudit` | `Router` plus what held during each selection | `router_selection`, `SelectionProofs` |
| `HashRing`, `PrefixCache` | the ring, prefix extraction, prefix-cache selection with refusals | `strategies`, `StrategiesProofs` |
| `Weights`, `RoundRobin` | the weighted rotation and its wrapping counter | `strategies`, `StrategiesProofs` |
| `LatencyAware` | latency-aware selection and the latency estimates | `strategies`, `StrategiesProofs` |
| `LeastLoaded` | least connections and least load | `strategies`, `least_load_doc`, `StrategiesProofs` |
| `Strategies` | the five strategies as the configured one | `strategies`, `StrategiesProofs` |
| `Config` | the configuration file: parsing, defaults, `validate`, conversions | `app`, `AppProofs` |
| `Exporter` | the `/metrics` endpoint: gauges, overlapping scrapes, encoding | `app`, `AppProofs` |
| `App` | `main`, `build_app` and `build_router` over `Config` and `Exporter` | `app`, `AppProofs` |
| `MC...` | constants and symmetry for TLC only | |

**Breaker, CircuitBreaker.** `inner` is the record under the mutex with the
source's fields. An instant is a number of ticks; `TicksPerSec` keeps the
truncation to whole seconds in `rotate` visible. Each call is two steps,
`Call...` (sample the clock) and the critical section; `abandon` does not
sample. Callers are request handlers (is_routable, perhaps another backend is
chosen, try_begin, possibly `Resolve` at the headers, one verdict) or the
metrics handler (`state`). The threshold is a fraction, compared without
rounding: the code's `f64` division agrees for the counts a window can hold.

**Health, HealthAudit.** A check is `idle -> probing -> scraping -> idle`; a round
starts when all checks are idle (the `join_all`) and the ticker fires.
`record_probe` with all its stores is one step: the only reader, selection, reads
the flag first and the depth later, and every pair of values it can see between
the two stores it can also see around the single step. `up` is the environment:
whether a probe that ends now passes. A body is a sequence of named values in
tenths; the values are summed, maximised, clamped, truncated and saturated as in
the code. Streak counters saturate at `MaxStreak`, at or above both thresholds;
the code only compares them with the thresholds. A threshold of 0, which the
configuration accepts, acts as 1. `HealthAudit` remembers the last `MaxStreak`
probes of a backend and judges the flag by them instead of by the counters.

**Router.** `req[r].at` is where the handler of a request is:
`new -> body -> scan (-> ask) -> filter -> select -> start -> sent -> (buffering ->)
headers -> (streaming ->) end -> verdict -> count -> release -> (replying ->)
done`. Every access to something shared is its own step: one health flag per `Scan`,
one breaker per `Ask`, one queue depth per `Filter` step, `try_begin` in `Choose`,
and the four parts of the drop of `RequestAccounting` (connection counter and
estimate, breaker verdict, metrics, permit). Clients can leave only where the handler
or the body is awaited. A stream is polled only while its client reads (`reading`):
hyper stops polling a body when the connection takes no more bytes, and a client may
stop reading without leaving and read on later, or never. `done` is the code's
`done_seen`, whether the latest chunk carried the end marker. The strategy may pick
any candidate. Breaker calls use the clock of their step; late samples are covered by
`CircuitBreaker`. Replies are kept apart only as far as the order of release and
sending needs it.

**PrefixCache.** Texts are short sequences over a three-letter alphabet, so that
joining, skipping of parts without text and cutting at the limit are what the
code does. SHA-256 is any function into a small set of hashes: the initial states
are all rings, collisions included, and all places of the keys. `HashRing` says which
point is the i-th (fewer than i precede it, at least i precede or equal it) instead of
how `sort_unstable` finds it; points that compare equal are equal. `Selected` is
`select`; `Claim` is a turn of the loop in `select_backend`, in which the breaker
of the selected backend either admits the request or drops that backend from the
candidates. A body without text goes to the fewest connections.

**RoundRobin, LatencyAware, LeastLoaded.** A round-robin ticket is one atomic
step. The other strategies read the estimates or loads of their candidates one
step at a time, and what they read changes meanwhile: estimates are loaded and
stored in two steps (`update_ewma_latency` has no compare-and-swap), connections
are counted after the selection. Nothing is awaited in between, which is why at
most `Threads` handlers of `LeastLoaded` select at a time. The estimate is an
exact fraction truncated, or one less where the exact value is whole, as `f64`
arithmetic may give. Each strategy returns one of its candidates, which is what
`Router` assumes of it. `Strategies` composes the modules: the configured name
decides which one steps.

**Config.** The sections of the file are flattened to their keys; a key that is
not given has its default. `Parses` is what serde refuses by itself (unknown keys,
missing sections, numbers outside their type), `Valid` is `validate`, one
conjunct per section. A text is a record of what the code looks at: a path has a
leading slash or not, a name, and special characters or not; a url has a scheme,
printable characters and a number of trailing slashes; a float is finite or not.
`U32Max` and `U64Max` stand for the limits of the types, which TLC's integers
cannot hold; no condition of `validate` depends on their size.

**Exporter.** `metrics_handler` copies what the backends and the permit counter
hold into gauges, load and store being separate steps, and encodes the registry
under its lock. Scrapes overlap. The five gauges of a backend are handled alike and
one after the other, so one stands for them; a value is the number of times it
has changed, so that "older" has a meaning. Backends of the same url share their
gauges. `began` and `since` are history: the values when a scrape began, and when
the oldest scrape began that was then running.

**App.** `load -> address -> build -> bind -> serving`, each with its way to
`failed`; `panicked` is where `Router::route` refuses a path. The health task is
spawned by `build_app` and dies alone if its interval is 0. What axum does with a
route and tokio with a period of 0 is external: a path with one of `: * { }` may be a
pattern, and some patterns are refused, so that the model leaves open whether such a
path panics. `main` has no
shutdown path: a router serves until it is killed, and keeps nothing.

## 3. The runs

| Run | Question | Bounds |
|---|---|---|
| `breaker` | probe exclusivity, who decides, the open period, the contract, the probe comes back | 3 callers, 4 calls, clock 0..2, 2 buckets, one failure trips, open for 1 s: one request trips, a second reports late, a third probes, a fourth is refused |
| `breaker_window` | ring against log, exactness of the trip | 2 callers, 6 calls, 7 half-second ticks: seconds are skipped, more than the ring holds, and samples reordered |
| `health` | freshness, streaks against flag, hysteresis and parsing against references, refinement of `HealthFeed`, the flag follows the backend | 2 backends, thresholds 3 and 2, streaks up to 4, bodies with several series, fractions, NaN, negative, unreadable and foreign values, one beyond the atomic's range, and bodies that lack one of the two metrics |
| `router_one_backend` | permits, probes, counters, estimate | 3 requests, 2 permits, 1 backend, all status classes: a stale request, the one that trips, and the probe |
| `router_selection` | selection against changing backends, connection counts | 2 requests, 2 backends, depth under/over the limit, flags and depths change at any time, answers 5xx so that circuits open during a selection |
| `router_liveness` | requests end, probes come back, the budget recovers, as far as clients let them | 2 requests, 2 permits, 1 backend, answers 2xx and 5xx, buffered and streamed; uploads hang, streams are left unread for a while or for good |
| `strategies` | shares of the rotation, estimates, medians, herd, keys that stay, a candidate is always found | 3 backends of weights 1, 2, 1; a counter of size 5; 2 requests, 2 samples each and alpha 0.3 (latency-aware); 3 handlers on 2 threads, depths 2 and 5 over the soft limit (least loaded); every ring of 3 backends with 2 virtual nodes over 3 hashes, a prompt and a chat that begin alike, a body without text (prefix cache) |
| `app` | accepted configurations start soundly; exported values are recent | files that differ from the shortest one in up to two keys, each with values inside, at and beyond its limits; 2 overlapping scrapes, pools of one and two backends, with equal and different urls, each value changes once |
| `router_permit_doc`, `router_probe_doc` | statements of the README and of `accounting.rs`, violated | 2 requests, 1 backend |
| `least_load_doc` | what `least_load.rs` says of itself, violated | 2 backends, 2 requests, words of size 16 |

The counter and word sizes stand for 2^64: the rotation depends on the size only
through its remainder by the total weight, and the sizes are chosen so that it
is not 0. Two places are enough for a file because `validate` never compares two
of its values; two changes at once show that no check hides another.

The bounds on clock, calls, streaks, samples and changes are constants named in
the modules (`MaxClock`, `MaxCalls`, `MaxStreak`, `MaxSamples`, `MaxVersion`).

**Fairness.** `CircuitBreaker`: a thread waiting for the mutex gets it, since
critical sections never block, and an admitted request ends in one of the three
verdicts because `RequestAccounting` reports in `Drop`. `Health`: the interval
ticker fires again and `PROBE_TIMEOUT` bounds both requests of a check. `Router`:
runnable handlers run; the upstream client's connect and read timeouts bound a
handler's waits for headers and for more bytes of a buffered body (weak fairness). A
stream that is polled again and again ends (strong fairness: it is polled only while
its client reads): the read timeout stands between two chunks, and that there are
finitely many chunks is an assumption on the backends (finitely many tokens). Clients
get no fairness: an upload and the reading of a reply may hang forever. The
properties say how far that reaches. `EveryRequestEnds` speaks of uploaded requests
and excepts one whose stream is left unread for good. `ProbeComesBack` excepts a probe
that was answered by such a stream, and only if it is no 2xx, since the 2xx of a stream
resolves its probe at the headers: nothing in the code bounds how long a backend stays
half-open behind an unread error stream. `BudgetRecovers` says that a budget that is
never free again is held entirely by uploads that hang and streams nobody reads. The
strategy modules, `Exporter` and `App` state no liveness.

**Divergences found.** (1) README.md:90 says the permit is released when the
response body ends; for buffered responses it is released before the body is
sent (`server.rs:120`). (2) README.md:95 says a probe succeeds as soon as 2xx
headers arrive; for buffered responses the headers are judged after the whole
body was read (`proxy.rs:115`), and a body that breaks re-opens the circuit.
(3) `least_load.rs:7` and README.md:13 say the
load is the router's count plus the replica's reported queue; the sum is a plain
`u64` addition of a depth that saturates at `u64::MAX`, so in a release build it
wraps and such a replica looks idle (`least_load.rs:13`). It takes a pool in which
every live backend is over the soft limit.

## 4. The proofs

A theorem holds for every value of the constants that satisfies the named
assumptions of the modules: any set of callers, requests, backends, handlers or
scrapes, any configuration, any input. Only the pool (`Backends`), its
virtual nodes and the handlers of `LeastLoaded` have to be finite; requests, callers and scrapes may be unbounded, and
that those counted at any time are finitely many is part of the invariant. `PROJECT.json` names the run that
checks the same property on a small instance. `CounterAssumption` says that the total
weight is at most the size of the ticket counter: weights are `u32` and the counter is
a 64-bit word, so it would take four billion backends to break it.

| Module | Theorems |
|---|---|
| `SetFacts` | lemmas only: least and greatest elements, sums over finite sets, counting |
| `BreakerFacts` | lemmas only: what each critical section of `Breaker` returns |
| `CircuitBreakerProofs` | `TypeCorrect`, `OneProbe`, `SoundInstants`, `ProbeVerdictDecides`, `OpenPeriodKept`, `Implements` (the refinement of `BreakerContract`), and about `WindowLog`: `WindowIsLog`, `TripIsExact` |
| `RouterProofs` | `TypeCorrect`, `PermitsAreExact`, `ConnectionsAreExact`, `ProbesAreAccounted`, `CountedExactlyOnce`, `EstimatesFromSuccess` |
| `SelectionProofs` | `NoNeedless503`, `NoNeedlessBadChoice` (about `RouterAudit`) |
| `HealthProofs` | `TypeCorrect`, `NoStaleScrape`, `FlagAgreesWithStreak`, `ImplementsFeed` (the refinement of `HealthFeed`), and about `HealthAudit`: `ScrapeIsExact`, `FlagIsHistory` |
| `StrategiesProofs` | `TypeCorrect`, `EstimatesStayNear`, `UnsampledIsMedian`, `SharesAreExact`, `SharesSurviveWrap`, `KeysStay`, `RingIsSorted`, `SelectFinds`, `HerdIsBounded` |
| `AppProofs` | `TypeCorrect`, `AlwaysStartsSound`, `ExportsAreRecent` |

**Sums.** Totals of weights, of scraped series and of connections are
`MapThenSumSet`, a recursive function over the subsets of a set. `SetFacts` proves
its equation, and what is wanted of sums, by `SubsetInduction`: induction over
finite sets with the *set* of good subsets in place of a predicate, which is the form
the provers can use.

**The breaker.** The inductive invariant is

    IInv == TypeOK /\ CallsInOrder /\ ProbeExclusive /\ InstantsSound

`ProbeExclusive` alone is not inductive: a caller at a verdict could hold an
admission the flag does not know, or a sample from the future could end the open
period early. `CallsInOrder` says that an admission is held exactly between
try_begin and the verdict, that a pending sample is not in the future, and that
only a probe resolves at the headers. `CriticalKeepsIInv` says what a critical
section has to leave behind; `StepIInv` checks that for each action.
`StepStepGoal` reuses the same lemmas for the two action properties and for the
contract.

**The window.** `WindowInv` adds to `IInv` that the ring matches the log (`Matches`),
that the log is empty in the seconds to come (`LogGood`: a second that the ring enters
anew must be empty in both) and that the clock is within its bound. `RotateMoves` is
the ring's arithmetic: rotating by e seconds moves every bucket e places back and
empties the first e, also if that is more than the ring holds. `SecondsAdd` shows that
counting whole seconds from the head, second by second, loses nothing against counting
them from the start. `StepReports` sorts the steps into those with a verdict, which
reaches ring and log alike (`ReportMatches`), and those that leave the window alone.
For `TripIsExact` the ring's totals are the log's (`WindowSum`): the places of the ring
are the covered seconds in another order, plus buckets that are empty.

**The request path.** The properties of `Router` count: permits, connections,
counters. `HandlersAgree` is what makes the counting inductive. It says what the
fields of a handler's record say of each other, above all that an admission is
held exactly from `start` to `verdict`; without it a drop could give back what was
never taken. `Permits` and `Connections` say of *which* handlers a counter is the
number (`Holders`, `ConnectedTo(b)`), `Counters` that the series of `requests_total`
(one per pair of backend and status) and the rejections add up to the number of
handlers that are over, `Probes` that the handler a half-open breaker waits for is
one that still has its verdict to give, and `Estimates` that a backend without an
estimate has no counted 2xx. Each part has lemmas for keeping it, for entering and
for leaving, so that an action only shows where one handler goes. That the connections
fit in the budget follows from `Connected \subseteq Holders` and a sum over disjoint
sets.

**Selection.** `RouterAudit` keeps, per request, which backends were steady, low,
high or down since its selection began. `SelectionsSound` ties the handler's own
sets to them at every place of the scan: no steady backend has been lost, no dead
one kept, the one whose breaker is about to be asked was up when its flag was read, and the limit was ignored only for want of a steady one below it. Both
theorems are about steps and need `IInv` for the state before it.

**The health checker.** `ScrapedIsFresh` needs `ScrapedAfterPass`: a backend that is
being scraped has just passed, so a scrape never lands after the failures that clear
it. For `ScrapeIsExact` the parser is shown to return the saturated sum and the
maximum of the usable series of *any* body, by induction over its lines. For
`FlagIsHistory` the invariant `Counted` relates the saturating counters to the
sequence of the last probes: each is the length of the run of equal results at its
end. Thresholds of 0 are covered.

**The strategies.**

* Estimates: the invariant adds `SampleSeen`, that a sample about to be stored was
  measured on that backend. `Mean` bounds a weighted mean by its two values,
  `Quotient` carries the bound through the truncating division, and `EstimateNear`
  concludes. The rounding does not add up because the exact mean is strictly above
  the smallest sample less one, even when the old estimate is on that bound: only a
  whole mean can lose one, and a whole number above the bound can afford to.
* Medians: `UnsampledIsMedian` counts the estimates below and above the one that is
  chosen, for any number of measured candidates.
* Keys: a request sent by its prefix is at the first point of the walk from its key
  that belongs to one of its remaining candidates (`Placed`). `SamePoint` is the
  heart: the first point in a smaller set is the same one if its backend is still in
  the set. `SameKey` shows that prompts that agree up to the limit have one prefix.
  Nothing about sorting or hashing is used.
* The herd: `Leveled` bounds loads while a handler is still between reading and
  counting, so the invariant is a potential. `Spread` says that the load of a backend,
  plus all handlers that would choose it if the other loads rose to x, is at most
  x + `Threads`; `Scanned` that a handler's least load is no more than any it has
  passed. `Spread` speaks of every x because each step changes the loads that are
  compared. The hypothesis `NoWrap` says that a queue depth and the number of handlers
  fit in a word together. The code does not ensure it (divergence 3), so it is a
  hypothesis of the theorem and no assumption of the module.
* The ring: `SelectInv` says that every backend has a point, which `PointIsPlaced` shows
  of the sorted arrangement (a point is the i-th for i the number of points up to it, and
  `OneNth` excludes another), and that the connections are finitely many. `WalkReaches`
  shows that the walk comes to any place of the ring within one round, from any start, so
  there is a first candidate on it (`SelectFinds`). `RingIsSorted` shows that the
  arrangement is what `sort_unstable` gives, in order and each point as often as hashes
  coincide, and that `StartOf` is where the points before the key end, as
  `partition_point` needs it.
* Rotation: whatever the counter, the weights and the candidates, the ticket falls
  into the share of one of the candidates (`TypeCorrect`), and each candidate owns
  exactly its slots (`OwnerFacts`, `OwnerUnique`). The invariant `RotationInv` says that
  the tickets remembered are consecutive: `Link` relates any two of them, and each to the
  counter, by their distance, up to where the counter wraps to 0. Related pairwise
  instead of to the neighbour, the invariant takes no induction along the run. A turn
  without a wrap then takes consecutive tickets, along which every slot comes up once
  (`SlotsPermuted`), so a backend gets as many as it owns (`TurnShares`). If the counter
  wraps in the first turn of two, the turn that begins with ticket 0 is whole and ends
  within the second (`WrapPoint`), since a turn fits into the counter (`TurnFits`).

**Configuration and metrics.** `Accepted(config)` is what the start relies on in
the values of *any* file that `validate` lets through; it holds from loading to
building, and everything about the start follows from it. `FilesAssumption` only says that
given booleans, urls and lists of backends are values of those kinds; numbers
out of range, missing and unknown keys are left to `Parses` and `Valid`. `ExportsAreRecent` needs two facts
about the history that no single scrape can see: each gauge a scrape has passed
holds a value as recent as that scrape promises (`HandlerOK`), whoever wrote it
last, because what any running scrape is about to write is no older than when it
began, and that is no older than what any other promises (`Older`).

**Model-checked only.** Liveness, which with `ENABLED` is out of the prover's reach:
`ProbeReturns`, `FlagFollowsBackend`, `EveryRequestEnds`, `ProbeComesBack`,
`BudgetRecovers`. Every invariant and every action property of the passing runs is
proved.

## 5. Not modelled

Header filtering, logging and text formats (no state any decision depends on); the
histogram, which is written once beside the counter of `Count`; durations in
`Router` (there only whether an estimate exists matters); the probabilities of
latency-aware's random pick, which is any candidate; SHA-256. The sizes of exported
numbers: a queue depth of `u64::MAX` is exported as -1 (`server.rs:73`). The
multiplication of `prefix_token_count` by 4, which wraps for absurd values and then
turns prefix routing into fewest connections (`prefix_cache.rs:19`). Both are noted
among the hazards. The mock backend is a test double whose gate and streaming rest
on asyncio and Starlette; the benchmarks are sequential scripts; the deployment
files configure containers and dashboards. None of these is part of the router.

## 6. Plan

Done: all parts of the router modelled and checked; every safety property the runs
check proved, together with the two refinements. Left, should the tools allow it: the
liveness properties, whose fairness is stated in the modules, and the composition of
the strategies with `Router`, which takes any candidate for theirs.
