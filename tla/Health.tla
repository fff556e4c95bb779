-------------------------------- MODULE Health --------------------------------
(***************************************************************************)
(* The health checker of router-core/src/health.rs: one task that probes   *)
(* every backend of the pool in rounds, keeps the hysteresis counters of   *)
(* Backend, and scrapes the backends whose probe passed.                   *)
(*                                                                         *)
(* A round is a join_all: it begins when the ticker fires and the previous *)
(* round is over, and ends when the last backend's check ends.  Within it  *)
(* the checks run concurrently.  `up` is the backend itself, not part of   *)
(* the router: it decides how the next probe is answered, and changes at   *)
(* any time.                                                               *)
(***************************************************************************)
EXTENDS Integers, Sequences, FiniteSetsExt

CONSTANTS
  Backends,
  UnhealthyThreshold,   \* health_check.unhealthy_threshold
  HealthyThreshold,     \* health_check.healthy_threshold
  MaxStreak,            \* bound: a streak is counted up to here
  U64Max,               \* the largest queue depth the atomic holds
  Bodies                \* the /metrics bodies a backend may answer with

\* The configuration does not exclude a threshold of 0; it acts as 1.
Effective(threshold) == IF threshold < 1 THEN 1 ELSE threshold

\* A line of a /metrics body that is not a comment: the metric's name, and the
\* form of its last token: a number, in tenths, NaN, or no number at all.
QueueName == "vllm:num_requests_waiting"
KvNames   == {"vllm:kv_cache_usage_perc", "vllm:gpu_cache_usage_perc"}
Line      == [name : STRING, form : {"number", "NaN", "text"}, tenths : Int]

\* A KV-cache usage ratio, in hundredths of a percent.
BasisPoints == 0 .. 10000

ASSUME HealthAssumption ==
  /\ UnhealthyThreshold \in Nat /\ HealthyThreshold \in Nat
  /\ MaxStreak \in Nat
  /\ MaxStreak >= Effective(UnhealthyThreshold)
  /\ MaxStreak >= Effective(HealthyThreshold)
  /\ U64Max \in Nat
  /\ Bodies \subseteq Seq(Line)

VARIABLES
  up,           \* whether each backend would pass a probe now (environment)
  check,        \* where check_one is for each backend
  healthy,      \* Backend.healthy
  failures,     \* Backend.consecutive_health_failures
  successes,    \* Backend.consecutive_health_successes
  queueDepth,   \* Backend.queue_depth
  kvCacheBp     \* Backend.kv_cache_usage_bp

vars == <<up, check, healthy, failures, successes, queueDepth, kvCacheBp>>

TypeOK ==
  /\ up \in [Backends -> BOOLEAN]
  /\ check \in [Backends -> {"idle", "probing", "scraping"}]
  /\ healthy \in [Backends -> BOOLEAN]
  /\ failures \in [Backends -> 0 .. MaxStreak]
  /\ successes \in [Backends -> 0 .. MaxStreak]
  /\ queueDepth \in [Backends -> 0 .. U64Max]
  /\ kvCacheBp \in [Backends -> BasisPoints]

Init ==
  /\ up \in [Backends -> BOOLEAN]
  /\ check = [b \in Backends |-> "idle"]
  /\ healthy = [b \in Backends |-> TRUE]
  /\ failures = [b \in Backends |-> 0]
  /\ successes = [b \in Backends |-> 0]
  /\ queueDepth = [b \in Backends |-> 0]
  /\ kvCacheBp = [b \in Backends |-> 0]

-----------------------------------------------------------------------------
(* parse_backend_metrics *)

\* f64::max(0.0) of a NaN is 0.0.
NonNegative(line) ==
  IF line.form = "NaN" \/ line.tenths < 0 THEN 0 ELSE line.tenths

\* f64::clamp(0.0, 1.0) keeps a NaN, f64::max prefers the other operand and
\* the final cast turns a remaining NaN into 0: a NaN never wins.
Ratio(line) == Min({NonNegative(line), 10})

\* The positions of a body's series of the given names that have a value.
Series(body, names) ==
  {i \in DOMAIN body : body[i].name \in names /\ body[i].form # "text"}

\* What each line of a body adds to a sum.
Values(body) == [i \in DOMAIN body |-> NonNegative(body[i])]

\* Mutant of QueueDepthOf: the sum is not bounded by the atomic's width.
QueueDepthOfUnbounded(body) ==
  MapThenSumSet(LAMBDA i : Values(body)[i], Series(body, {QueueName})) \div 10

\* The sum over all series, truncated to an integer; `as u64` saturates.  No
\* series at all stores 0 as well (apply_scrape).
QueueDepthOf(body) ==
  LET tenths == MapThenSumSet(LAMBDA i : Values(body)[i], Series(body, {QueueName}))
  IN  Min({tenths \div 10, U64Max})

\* The maximum over all series, in basis points; none stores 0.
KvCacheBpOf(body) ==
  1000 * Max({0} \union {Ratio(body[i]) : i \in Series(body, KvNames)})

-----------------------------------------------------------------------------
(* One check *)

\* The code compares streaks with the thresholds only, so that it cannot tell
\* streaks beyond MaxStreak apart.
Bump(streak) == Min({streak + 1, MaxStreak})

\* Mutant of ProbePassed: the failures of before are kept.
ProbePassedKeeps(b) ==
  LET streak == Bump(successes[b])
  IN  /\ successes' = [successes EXCEPT ![b] = streak]
      /\ healthy' = [healthy EXCEPT ![b] = @ \/ streak >= HealthyThreshold]
      /\ check' = [check EXCEPT ![b] = "scraping"]
      /\ UNCHANGED <<failures, queueDepth, kvCacheBp>>

\* record_probe(.., true): the backend is scraped next.
ProbePassed(b) ==
  LET streak == Bump(successes[b])
  IN  /\ successes' = [successes EXCEPT ![b] = streak]
      /\ failures' = [failures EXCEPT ![b] = 0]
      /\ healthy' = [healthy EXCEPT ![b] = @ \/ streak >= HealthyThreshold]
      /\ check' = [check EXCEPT ![b] = "scraping"]
      /\ UNCHANGED <<queueDepth, kvCacheBp>>

\* Mutants of ProbeFailed: the scraped values survive; the mark-down is off by
\* one.
ProbeFailedKeeps(b) ==
  LET streak == Bump(failures[b])
  IN  /\ failures' = [failures EXCEPT ![b] = streak]
      /\ successes' = [successes EXCEPT ![b] = 0]
      /\ healthy' = [healthy EXCEPT ![b] = @ /\ streak < UnhealthyThreshold]
      /\ check' = [check EXCEPT ![b] = "idle"]
      /\ UNCHANGED <<queueDepth, kvCacheBp>>

ProbeFailedLate(b) ==
  LET streak == Bump(failures[b])
      down   == healthy[b] => streak > UnhealthyThreshold
  IN  /\ failures' = [failures EXCEPT ![b] = streak]
      /\ successes' = [successes EXCEPT ![b] = 0]
      /\ healthy' = [healthy EXCEPT ![b] = ~down]
      /\ queueDepth' = [queueDepth EXCEPT ![b] = IF down THEN 0 ELSE @]
      /\ kvCacheBp' = [kvCacheBp EXCEPT ![b] = IF down THEN 0 ELSE @]
      /\ check' = [check EXCEPT ![b] = "idle"]

\* record_probe(.., false): the check ends; a backend that is down now, or was
\* before, loses its scraped values.
ProbeFailed(b) ==
  LET streak == Bump(failures[b])
      down   == healthy[b] => streak >= UnhealthyThreshold
  IN  /\ failures' = [failures EXCEPT ![b] = streak]
      /\ successes' = [successes EXCEPT ![b] = 0]
      /\ healthy' = [healthy EXCEPT ![b] = ~down]
      /\ queueDepth' = [queueDepth EXCEPT ![b] = IF down THEN 0 ELSE @]
      /\ kvCacheBp' = [kvCacheBp EXCEPT ![b] = IF down THEN 0 ELSE @]
      /\ check' = [check EXCEPT ![b] = "idle"]

\* The answer to GET /health arrives, or PROBE_TIMEOUT passes.
ProbeEnds(b) ==
  /\ check[b] = "probing"
  /\ IF up[b] THEN ProbePassed(b) ELSE ProbeFailed(b)
  /\ UNCHANGED up

\* reset_scraped and apply_scrape end the check.
Store(b, depth, kv) ==
  /\ check[b] = "scraping"
  /\ check' = [check EXCEPT ![b] = "idle"]
  /\ queueDepth' = [queueDepth EXCEPT ![b] = depth]
  /\ kvCacheBp' = [kvCacheBp EXCEPT ![b] = kv]
  /\ UNCHANGED <<up, healthy, failures, successes>>

\* Mutant of ApplyScrape: a metric the body lacks keeps its old value.
ApplyScrapeKeeps(b, body) ==
  Store(b, IF Series(body, {QueueName}) = {} THEN queueDepth[b] ELSE QueueDepthOf(body),
           IF Series(body, KvNames) = {} THEN kvCacheBp[b] ELSE KvCacheBpOf(body))

ApplyScrape(b, body) == Store(b, QueueDepthOf(body), KvCacheBpOf(body))

\* The scrape is refused, times out, or its body cannot be read.
ScrapeFails(b) == Store(b, 0, 0)

\* The ticker fires and the previous round is over.
StartRound ==
  /\ \A b \in Backends : check[b] = "idle"
  /\ check' = [b \in Backends |-> "probing"]
  /\ UNCHANGED <<up, healthy, failures, successes, queueDepth, kvCacheBp>>

\* The backend fails or recovers.
Flip(b) ==
  /\ up' = [up EXCEPT ![b] = ~@]
  /\ UNCHANGED <<check, healthy, failures, successes, queueDepth, kvCacheBp>>

CheckStep(b) ==
  \/ ProbeEnds(b)
  \/ \E body \in Bodies : ApplyScrape(b, body)
  \/ ScrapeFails(b)

Next ==
  \/ StartRound
  \/ \E b \in Backends : CheckStep(b) \/ Flip(b)

Spec == Init /\ [][Next]_vars

\* The ticker fires again and again, and PROBE_TIMEOUT bounds both requests of
\* a check.  Nothing is assumed about the backends.
Fairness == WF_vars(StartRound) /\ \A b \in Backends : WF_vars(CheckStep(b))

-----------------------------------------------------------------------------
\* "Stale scraped values must not keep steering traffic": values are kept only
\* while fewer probes in a row failed than mark a backend down, and a backend
\* that is down keeps none after a failed probe.
ScrapedIsFresh ==
  \A b \in Backends :
    (queueDepth[b] # 0 \/ kvCacheBp[b] # 0) =>
      /\ failures[b] < Effective(UnhealthyThreshold)
      /\ ~healthy[b] => failures[b] = 0

\* The counters never claim two streaks at once, and a backend whose running
\* streak has reached its threshold carries the matching flag.
StreaksAgree ==
  \A b \in Backends :
    /\ failures[b] = 0 \/ successes[b] = 0
    /\ failures[b] >= Effective(UnhealthyThreshold) => ~healthy[b]
    /\ successes[b] >= Effective(HealthyThreshold) => healthy[b]

\* The health checker publishes no more than HealthFeed allows: the request
\* path reads its two atomics against this specification.
Feed == INSTANCE HealthFeed WITH Depths <- 0 .. U64Max
MeetsFeed == Feed!FeedSpec

\* A backend that stays up is marked healthy for good, and one that stays down
\* is marked unhealthy for good with its scraped values cleared, whatever the
\* other backends' checks do.
FlagFollowsBackend ==
  \A b \in Backends :
    /\ <>[]up[b] => <>[]healthy[b]
    /\ <>[]~up[b] => <>[](~healthy[b] /\ queueDepth[b] = 0)
=============================================================================
