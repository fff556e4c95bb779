------------------------------- MODULE Breaker -------------------------------
(***************************************************************************)
(* The critical sections of router-core/src/circuit_breaker.rs, as         *)
(* operators on the value `inner` that the breaker's mutex protects.  Each *)
(* operator takes the instant `now` that the Rust method sampled before it *)
(* took the lock, so `now` may be older than what the lock already holds.  *)
(* CircuitBreaker runs these operators under concurrent callers, Router    *)
(* runs one breaker per backend.                                           *)
(*                                                                         *)
(* An instant is a number of ticks since start-up, TicksPerSec of them to  *)
(* a second, so that the whole-second truncation of Inner::rotate shows.   *)
(***************************************************************************)
EXTENDS Integers, FiniteSetsExt

CONSTANTS
  WindowSecs,     \* circuit_breaker.window_secs
  MinRequests,    \* circuit_breaker.min_requests
  RateNum,        \* circuit_breaker.failure_rate_threshold is RateNum/RateDen
  RateDen,
  OpenSecs,       \* circuit_breaker.open_duration_secs
  TicksPerSec     \* the resolution of the modelled clock

ASSUME BreakerAssumption ==
  /\ WindowSecs \in Nat
  /\ MinRequests \in Nat
  /\ RateNum \in Nat \ {0} /\ RateDen \in Nat \ {0} /\ RateNum <= RateDen
  /\ OpenSecs \in Nat
  /\ TicksPerSec \in Nat \ {0}

CircuitState == {"Closed", "Open", "HalfOpen"}
Admission    == {"Normal", "Probe"}
NoAdmission  == "None"
NoInstant    == -1

AtLeastOne(n) == IF n < 1 THEN 1 ELSE n

NumBuckets == AtLeastOne(WindowSecs)
BucketIds  == 0 .. NumBuckets - 1
OpenTicks  == OpenSecs * TicksPerSec

Bucket      == [successes : Nat, failures : Nat]
EmptyBucket == [successes |-> 0, failures |-> 0]

Inner == [state         : CircuitState,
          openedAt      : Nat \union {NoInstant},
          buckets       : [BucketIds -> Bucket],
          head          : BucketIds,
          headStart     : Nat,
          probeInFlight : BOOLEAN]

New(now) == [state         |-> "Closed",
             openedAt      |-> NoInstant,
             buckets       |-> [i \in BucketIds |-> EmptyBucket],
             head          |-> 0,
             headStart     |-> now,
             probeInFlight |-> FALSE]

\* Instant::saturating_duration_since, in ticks.
Since(now, then) == IF now >= then THEN now - then ELSE 0

-----------------------------------------------------------------------------
\* Mutants of Rotate: the cleared range starts one bucket early, and the new
\* head is not reduced modulo the ring's length.
RotateFromHead(in, now) ==
  LET elapsed == Since(now, in.headStart) \div TicksPerSec
      steps   == IF elapsed < NumBuckets THEN elapsed ELSE NumBuckets
  IN  [in EXCEPT
         !.buckets = [i \in BucketIds |->
            IF \E k \in 0 .. steps - 1 : i = (in.head + k) % NumBuckets
            THEN EmptyBucket ELSE in.buckets[i]],
         !.head = (in.head + steps) % NumBuckets,
         !.headStart = in.headStart + elapsed * TicksPerSec]

RotateNoWrap(in, now) ==
  LET elapsed == Since(now, in.headStart) \div TicksPerSec
  IN  [in EXCEPT !.head = in.head + elapsed,
                 !.headStart = in.headStart + elapsed * TicksPerSec]

\* Inner::rotate.  With elapsed = 0 (the early return) nothing changes.
Rotate(in, now) ==
  LET elapsed == Since(now, in.headStart) \div TicksPerSec
      steps   == IF elapsed < NumBuckets THEN elapsed ELSE NumBuckets
  IN  [in EXCEPT
         !.buckets = [i \in BucketIds |->
            IF \E k \in 1 .. steps : i = (in.head + k) % NumBuckets
            THEN EmptyBucket ELSE in.buckets[i]],
         !.head = (in.head + steps) % NumBuckets,
         !.headStart = in.headStart + elapsed * TicksPerSec]

\* Inner::totals: the failures, and all verdicts, of the whole ring.
Failures(in) == MapThenSumSet(LAMBDA i : in.buckets[i].failures, BucketIds)
Total(in)    == Failures(in)
                  + MapThenSumSet(LAMBDA i : in.buckets[i].successes, BucketIds)

\* Inner::clear
Clear(in, now) ==
  [in EXCEPT !.buckets = [i \in BucketIds |-> EmptyBucket],
             !.head = 0,
             !.headStart = now]

\* Inner::refresh
Refresh(in, now) ==
  IF /\ in.state = "Open"
     /\ in.openedAt # NoInstant
     /\ Since(now, in.openedAt) >= OpenTicks
  THEN [in EXCEPT !.state = "HalfOpen"]
  ELSE in

-----------------------------------------------------------------------------
\* CircuitBreaker::is_routable, on the refreshed inner.
Routable(in) ==
  \/ in.state = "Closed"
  \/ in.state = "HalfOpen" /\ ~in.probeInFlight

\* CircuitBreaker::try_begin: what the refreshed inner admits a request as.
Admit(in) ==
  CASE in.state = "Closed" -> "Normal"
    [] in.state = "HalfOpen" /\ ~in.probeInFlight -> "Probe"
    [] OTHER -> NoAdmission

\* Mutant of TryBegin: the claim of the probe is not written back.
TryBeginUnclaimed(in, now) == Refresh(in, now)

\* CircuitBreaker::try_begin: the inner it leaves behind.
TryBegin(in, now) ==
  LET r == Refresh(in, now)
  IN  IF Admit(r) = "Probe" THEN [r EXCEPT !.probeInFlight = TRUE] ELSE r

\* Mutant of RecordSuccess: any success closes a half-open circuit.
RecordSuccessOfAnyone(in, adm, now) ==
  LET r == Rotate(Refresh(in, now), now)
      c == IF r.state = "HalfOpen"
           THEN [Clear(r, now) EXCEPT !.state = "Closed",
                                      !.openedAt = NoInstant,
                                      !.probeInFlight = FALSE]
           ELSE r
  IN  [c EXCEPT !.buckets[c.head].successes = @ + 1]

\* Mutant of RecordSuccess: closing forgets to reset `opened_at`.
RecordSuccessNoReset(in, adm, now) ==
  LET r == Rotate(Refresh(in, now), now)
      c == IF r.state = "HalfOpen" /\ adm = "Probe"
           THEN [Clear(r, now) EXCEPT !.state = "Closed",
                                      !.probeInFlight = FALSE]
           ELSE r
  IN  [c EXCEPT !.buckets[c.head].successes = @ + 1]

\* CircuitBreaker::record_success.  Only a probe closes the half-open circuit;
\* a stale Normal verdict is only counted.
RecordSuccess(in, adm, now) ==
  LET r == Rotate(Refresh(in, now), now)
      c == IF r.state = "HalfOpen" /\ adm = "Probe"
           THEN [Clear(r, now) EXCEPT !.state = "Closed",
                                      !.openedAt = NoInstant,
                                      !.probeInFlight = FALSE]
           ELSE r
  IN  [c EXCEPT !.buckets[c.head].successes = @ + 1]

\* The trip condition of record_failure: failures/total >= RateNum/RateDen.
OverThreshold(failures, total) ==
  /\ total >= AtLeastOne(MinRequests)
  /\ failures * RateDen >= RateNum * total

\* Mutant of RecordFailure: a late failure extends the open period.
RecordFailureExtends(in, adm, now) ==
  LET r == Rotate(Refresh(in, now), now)
      f == [r EXCEPT !.buckets[r.head].failures = @ + 1]
  IN  IF r.state = "HalfOpen" /\ adm = "Probe"
      THEN [r EXCEPT !.state = "Open", !.openedAt = now,
                     !.probeInFlight = FALSE]
      ELSE IF r.state = "Open" \/ OverThreshold(Failures(f), Total(f))
      THEN [f EXCEPT !.state = "Open", !.openedAt = now]
      ELSE f

\* Mutant of RecordFailure: the window is judged before this failure counts.
RecordFailureLate(in, adm, now) ==
  LET r == Rotate(Refresh(in, now), now)
      f == [r EXCEPT !.buckets[r.head].failures = @ + 1]
  IN  IF r.state = "HalfOpen" /\ adm = "Probe"
      THEN [r EXCEPT !.state = "Open", !.openedAt = now,
                     !.probeInFlight = FALSE]
      ELSE IF r.state = "Closed" /\ OverThreshold(Failures(r), Total(r))
      THEN [f EXCEPT !.state = "Open", !.openedAt = now]
      ELSE f

\* CircuitBreaker::record_failure.  A failed probe re-opens the circuit and is
\* not counted; any other failure is counted, and may trip a closed circuit.
RecordFailure(in, adm, now) ==
  LET r == Rotate(Refresh(in, now), now)
      f == [r EXCEPT !.buckets[r.head].failures = @ + 1]
  IN  IF r.state = "HalfOpen" /\ adm = "Probe"
      THEN [r EXCEPT !.state = "Open", !.openedAt = now,
                     !.probeInFlight = FALSE]
      ELSE IF r.state = "Closed" /\ OverThreshold(Failures(f), Total(f))
      THEN [f EXCEPT !.state = "Open", !.openedAt = now]
      ELSE f

\* Mutants of Abandon: a Normal request releases the probe; nobody does.
AbandonByAnyone(in, adm) ==
  IF in.state = "HalfOpen" THEN [in EXCEPT !.probeInFlight = FALSE] ELSE in

AbandonForgotten(in, adm) == in

\* CircuitBreaker::abandon: no verdict; the probe is handed back.
Abandon(in, adm) ==
  IF adm = "Probe" /\ in.state = "HalfOpen"
  THEN [in EXCEPT !.probeInFlight = FALSE]
  ELSE in
=============================================================================
