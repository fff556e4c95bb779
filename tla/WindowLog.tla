------------------------------ MODULE WindowLog ------------------------------
(***************************************************************************)
(* CircuitBreaker with a history variable: every verdict is also written to *)
(* an unbounded log, one entry per second since the window was last        *)
(* cleared.  The log is what the ring buffer of Inner::rotate stands for,  *)
(* so the ring is checked against it.                                      *)
(***************************************************************************)
EXTENDS CircuitBreaker

VARIABLE log    \* [base: instant of the last clear, cur: newest second seen,
                \*  counts: the verdicts of each second since base]

logVars == <<clock, inner, pc, adm, sampled, calls, log>>

Seconds == 0 .. MaxClock \div TicksPerSec

EmptyLog(now) == [base |-> now, cur |-> 0,
                  counts |-> [s \in Seconds |-> EmptyBucket]]

\* A verdict that sampled `now` belongs to the second of `now`, or to the
\* newest second seen when its sample reached the lock late.
Advance(l, now) ==
  [l EXCEPT !.cur = Max({@, Since(now, l.base) \div TicksPerSec})]

Count(l, ok) ==
  IF ok THEN [l EXCEPT !.counts[l.cur].successes = @ + 1]
        ELSE [l EXCEPT !.counts[l.cur].failures = @ + 1]

\* The callers whose verdict reaches the breaker in this step.
Reporters ==
  {c \in Callers : /\ pc[c] \in {"resolve", "record_success", "record_failure"}
                   /\ pc'[c] # pc[c]}

\* A probe's success starts a new log with itself as its first entry, a
\* probe's failure is not counted, any other verdict is.
Logged(c) ==
  LET ok == pc[c] # "record_failure"
  IN  CASE adm[c] = "Probe" /\ ok -> Count(EmptyLog(sampled[c]), TRUE)
        [] adm[c] = "Probe" /\ ~ok -> Advance(log, sampled[c])
        [] OTHER -> Count(Advance(log, sampled[c]), ok)

LogInit == Init /\ log = EmptyLog(0)

LogNext ==
  /\ Next
  /\ IF Reporters = {} THEN UNCHANGED log
     ELSE \E c \in Reporters : log' = Logged(c)

LogSpec == LogInit /\ [][LogNext]_logVars

-----------------------------------------------------------------------------
\* "Failure rate is computed over a sliding window of 1-second buckets": read
\* backwards from `head`, the ring holds the verdicts of the newest
\* NumBuckets seconds of the log and nothing older, however the seconds were
\* skipped and the samples reordered.
WindowMatchesLog ==
  /\ inner.headStart = log.base + log.cur * TicksPerSec
  /\ \A j \in BucketIds :
       inner.buckets[(inner.head - j) % NumBuckets] =
         IF j <= log.cur THEN log.counts[log.cur - j] ELSE EmptyBucket

\* The seconds of the log the window covers.
Covered(l) == {s \in Seconds : s <= l.cur /\ s > l.cur - NumBuckets}

Over(l) ==
  LET f == MapThenSumSet(LAMBDA s : l.counts[s].failures, Covered(l))
      t == f + MapThenSumSet(LAMBDA s : l.counts[s].successes, Covered(l))
  IN  t > 0 /\ t >= MinRequests /\ RateDen * f >= RateNum * t

\* A closed circuit trips exactly when a failure is reported that brings the
\* failure rate of the last NumBuckets seconds, this failure included, to the
\* threshold with at least min_requests verdicts.
TripsExactly ==
  [][ inner.state = "Closed" =>
        (inner'.state # "Closed" <=>
           \E c \in Reporters : pc[c] = "record_failure" /\ Over(log')) ]_logVars
=============================================================================
