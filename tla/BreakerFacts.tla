----------------------------- MODULE BreakerFacts -----------------------------
(***************************************************************************)
(* What the operators of Breaker return, for any window, threshold, open   *)
(* period and clock.  The proofs about one breaker under concurrent        *)
(* callers and about the router's breakers both rest on these facts.       *)
(***************************************************************************)
EXTENDS Breaker, TLAPS

-----------------------------------------------------------------------------
(* Arithmetic of the ring *)

LEMMA RingSize == NumBuckets \in Nat \ {0} /\ 0 \in BucketIds /\ OpenTicks \in Nat
  BY BreakerAssumption DEF NumBuckets, BucketIds, OpenTicks, AtLeastOne

LEMMA DivFacts ==
  ASSUME NEW n \in Nat, NEW d \in Nat \ {0}
  PROVE  n \div d \in Nat /\ (n \div d) * d <= n
  OBVIOUS

LEMMA ModFacts ==
  ASSUME NEW n \in Nat
  PROVE  n % NumBuckets \in BucketIds
  BY RingSize DEF BucketIds

LEMMA SinceFacts ==
  ASSUME NEW now \in Nat, NEW then \in Nat
  PROVE  Since(now, then) \in Nat /\ (then + Since(now, then) = now \/ Since(now, then) = 0)
  BY DEF Since

-----------------------------------------------------------------------------
(* What the operators on `inner` return *)

\* New is a well-formed inner.
LEMMA NewType == New(0) \in Inner
  BY RingSize DEF New, Inner, CircuitState, Bucket, EmptyBucket

\* Refresh changes nothing but the state, and that only from Open to HalfOpen
\* when the open period is over.
LEMMA RefreshFacts ==
  ASSUME NEW in \in Inner, NEW now \in Nat
  PROVE  /\ Refresh(in, now) \in Inner
         /\ Refresh(in, now).openedAt = in.openedAt
         /\ Refresh(in, now).headStart = in.headStart
         /\ Refresh(in, now).probeInFlight = in.probeInFlight
         /\ \/ Refresh(in, now).state = in.state
            \/ /\ in.state = "Open"
               /\ Refresh(in, now).state = "HalfOpen"
               /\ in.openedAt # NoInstant
               /\ now >= in.openedAt + OpenTicks \/ OpenTicks = 0
  BY RingSize DEF Refresh, Inner, CircuitState, Since, NoInstant

\* Rotate moves the ring only, and not beyond `now`.
LEMMA RotateFacts ==
  ASSUME NEW in \in Inner, NEW now \in Nat
  PROVE  /\ Rotate(in, now) \in Inner
         /\ Rotate(in, now).state = in.state
         /\ Rotate(in, now).openedAt = in.openedAt
         /\ Rotate(in, now).probeInFlight = in.probeInFlight
         /\ \/ Rotate(in, now).headStart <= now
            \/ Rotate(in, now).headStart = in.headStart
<1> DEFINE e == Since(now, in.headStart) \div TicksPerSec
           s == IF e < NumBuckets THEN e ELSE NumBuckets
           b == [i \in BucketIds |->
                   IF \E k \in 1 .. s : i = (in.head + k) % NumBuckets
                   THEN EmptyBucket ELSE in.buckets[i]]
           h == (in.head + s) % NumBuckets
           hs == in.headStart + e * TicksPerSec
<1>1. in.headStart \in Nat /\ in.head \in Nat /\ in.buckets \in [BucketIds -> Bucket]
  BY RingSize DEF Inner, BucketIds
<1>2. e \in Nat /\ e * TicksPerSec \in Nat /\ e * TicksPerSec <= Since(now, in.headStart)
  <2>1. Since(now, in.headStart) \in Nat
    BY <1>1, SinceFacts
  <2>2. TicksPerSec \in Nat \ {0}
    BY BreakerAssumption
  <2>3. e \in Nat /\ e * TicksPerSec <= Since(now, in.headStart)
    BY <2>1, <2>2, DivFacts
  <2> HIDE DEF e
  <2> QED BY <2>2, <2>3
<1>3. s \in Nat
  BY <1>2, RingSize
<1>4. h \in BucketIds
  BY <1>1, <1>3, ModFacts
<1>5. b \in [BucketIds -> Bucket]
  BY <1>1 DEF Bucket, EmptyBucket
<1>6. hs \in Nat /\ (hs <= now \/ hs = in.headStart)
  <2>1. \/ in.headStart + Since(now, in.headStart) = now
        \/ Since(now, in.headStart) = 0
    BY <1>1, SinceFacts
  <2>2. Since(now, in.headStart) \in Nat
    BY <1>1, SinceFacts
  <2> DEFINE d == Since(now, in.headStart)
             m == e * TicksPerSec
  <2> HIDE DEF e, d, m
  <2>3. m \in Nat /\ m <= d
    BY <1>2 DEF m, d
  <2>4. hs = in.headStart + m
    BY DEF m
  <2> HIDE DEF hs
  <2> QED BY <1>1, <2>1, <2>2, <2>3, <2>4 DEF d
<1>7. Rotate(in, now) = [in EXCEPT !.buckets = b, !.head = h, !.headStart = hs]
  BY DEF Rotate
<1> HIDE DEF e, s, b, h, hs
<1> QED BY <1>4, <1>5, <1>6, <1>7 DEF Inner

\* Counting a verdict in one bucket keeps the ring well-formed.
LEMMA CountFacts ==
  ASSUME NEW in \in Inner
  PROVE  /\ [in EXCEPT !.buckets[in.head].successes = @ + 1] \in Inner
         /\ [in EXCEPT !.buckets[in.head].failures = @ + 1] \in Inner
<1>1. in.head \in BucketIds /\ in.buckets \in [BucketIds -> Bucket]
  BY DEF Inner
<1>2. /\ [in.buckets EXCEPT ![in.head].successes = @ + 1] \in [BucketIds -> Bucket]
      /\ [in.buckets EXCEPT ![in.head].failures = @ + 1] \in [BucketIds -> Bucket]
  BY <1>1 DEF Bucket
<1> QED BY <1>1, <1>2 DEF Inner

\* A probe's success on a half-open circuit closes it and starts a new window.
LEMMA ProbeSuccess ==
  ASSUME NEW in \in Inner, NEW now \in Nat, Refresh(in, now).state = "HalfOpen"
  PROVE  /\ RecordSuccess(in, "Probe", now) \in Inner
         /\ RecordSuccess(in, "Probe", now).state = "Closed"
         /\ RecordSuccess(in, "Probe", now).openedAt = NoInstant
         /\ RecordSuccess(in, "Probe", now).probeInFlight = FALSE
         /\ RecordSuccess(in, "Probe", now).headStart = now
<1> DEFINE r == Rotate(Refresh(in, now), now)
           c == [Clear(r, now) EXCEPT !.state = "Closed",
                                      !.openedAt = NoInstant,
                                      !.probeInFlight = FALSE]
<1>1. r \in Inner /\ r.state = "HalfOpen"
  BY RefreshFacts, RotateFacts
<1>2. c \in Inner /\ c.state = "Closed" /\ c.openedAt = NoInstant
        /\ c.probeInFlight = FALSE /\ c.headStart = now
  <2> HIDE DEF r
  <2> QED BY <1>1, RingSize DEF Clear, Inner, CircuitState, Bucket, EmptyBucket
<1>3. RecordSuccess(in, "Probe", now) = [c EXCEPT !.buckets[c.head].successes = @ + 1]
  BY <1>1 DEF RecordSuccess
<1> HIDE DEF r, c
<1>4. [c EXCEPT !.buckets[c.head].successes = @ + 1] \in Inner
  BY <1>2, CountFacts
<1> QED BY <1>2, <1>3, <1>4 DEF Inner

\* Any other success moves the window only.
LEMMA PlainSuccess ==
  ASSUME NEW in \in Inner, NEW now \in Nat, NEW a \in Admission,
         ~(a = "Probe" /\ Refresh(in, now).state = "HalfOpen")
  PROVE  /\ RecordSuccess(in, a, now) \in Inner
         /\ RecordSuccess(in, a, now).state = Refresh(in, now).state
         /\ RecordSuccess(in, a, now).openedAt = in.openedAt
         /\ RecordSuccess(in, a, now).probeInFlight = in.probeInFlight
         /\ \/ RecordSuccess(in, a, now).headStart <= now
            \/ RecordSuccess(in, a, now).headStart = in.headStart
<1> DEFINE r == Rotate(Refresh(in, now), now)
<1>1. /\ r \in Inner
      /\ r.state = Refresh(in, now).state
      /\ r.openedAt = in.openedAt
      /\ r.probeInFlight = in.probeInFlight
      /\ r.headStart <= now \/ r.headStart = in.headStart
  BY RefreshFacts, RotateFacts
<1>2. RecordSuccess(in, a, now) = [r EXCEPT !.buckets[r.head].successes = @ + 1]
  BY <1>1 DEF RecordSuccess
<1> HIDE DEF r
<1>3. [r EXCEPT !.buckets[r.head].successes = @ + 1] \in Inner
  BY <1>1, CountFacts
<1> QED BY <1>1, <1>2, <1>3 DEF Inner

\* A probe's failure on a half-open circuit re-opens it.
LEMMA ProbeFailure ==
  ASSUME NEW in \in Inner, NEW now \in Nat, Refresh(in, now).state = "HalfOpen"
  PROVE  /\ RecordFailure(in, "Probe", now) \in Inner
         /\ RecordFailure(in, "Probe", now).state = "Open"
         /\ RecordFailure(in, "Probe", now).openedAt = now
         /\ RecordFailure(in, "Probe", now).probeInFlight = FALSE
         /\ \/ RecordFailure(in, "Probe", now).headStart <= now
            \/ RecordFailure(in, "Probe", now).headStart = in.headStart
<1> DEFINE r == Rotate(Refresh(in, now), now)
<1>1. r \in Inner /\ r.state = "HalfOpen"
        /\ (r.headStart <= now \/ r.headStart = in.headStart)
  BY RefreshFacts, RotateFacts
<1>2. RecordFailure(in, "Probe", now) =
        [r EXCEPT !.state = "Open", !.openedAt = now, !.probeInFlight = FALSE]
  BY <1>1 DEF RecordFailure
<1> HIDE DEF r
<1> QED BY <1>1, <1>2 DEF Inner, CircuitState

\* Any other failure moves the window, and may open a closed circuit.
LEMMA PlainFailure ==
  ASSUME NEW in \in Inner, NEW now \in Nat, NEW a \in Admission,
         ~(a = "Probe" /\ Refresh(in, now).state = "HalfOpen")
  PROVE  /\ RecordFailure(in, a, now) \in Inner
         /\ RecordFailure(in, a, now).probeInFlight = in.probeInFlight
         /\ \/ RecordFailure(in, a, now).headStart <= now
            \/ RecordFailure(in, a, now).headStart = in.headStart
         /\ \/ /\ RecordFailure(in, a, now).state = Refresh(in, now).state
               /\ RecordFailure(in, a, now).openedAt = in.openedAt
            \/ /\ Refresh(in, now).state = "Closed"
               /\ RecordFailure(in, a, now).state = "Open"
               /\ RecordFailure(in, a, now).openedAt = now
<1> DEFINE r == Rotate(Refresh(in, now), now)
           f == [r EXCEPT !.buckets[r.head].failures = @ + 1]
           t == [f EXCEPT !.state = "Open", !.openedAt = now]
<1>1. /\ r \in Inner
      /\ r.state = Refresh(in, now).state
      /\ r.openedAt = in.openedAt
      /\ r.probeInFlight = in.probeInFlight
      /\ r.headStart <= now \/ r.headStart = in.headStart
  BY RefreshFacts, RotateFacts
<1>2. \/ RecordFailure(in, a, now) = f
      \/ r.state = "Closed" /\ RecordFailure(in, a, now) = t
  BY <1>1 DEF RecordFailure
<1> HIDE DEF r
<1>3. /\ f \in Inner
      /\ f.state = r.state /\ f.openedAt = r.openedAt
      /\ f.probeInFlight = r.probeInFlight /\ f.headStart = r.headStart
  BY <1>1, CountFacts DEF Inner
<1>4. /\ t \in Inner
      /\ t.state = "Open" /\ t.openedAt = now
      /\ t.probeInFlight = r.probeInFlight /\ t.headStart = r.headStart
  BY <1>3 DEF Inner, CircuitState
<1> HIDE DEF f, t
<1> QED BY <1>1, <1>2, <1>3, <1>4

\* Claiming: what a caller gets from try_begin and what it leaves behind.
LEMMA TryBeginFacts ==
  ASSUME NEW in \in Inner, NEW now \in Nat
  PROVE  /\ TryBegin(in, now) \in Inner
         /\ TryBegin(in, now).state = Refresh(in, now).state
         /\ TryBegin(in, now).openedAt = in.openedAt
         /\ TryBegin(in, now).headStart = in.headStart
         /\ Admit(Refresh(in, now)) \in Admission \union {NoAdmission}
         /\ Admit(Refresh(in, now)) = "Normal" <=> Refresh(in, now).state = "Closed"
         /\ Admit(Refresh(in, now)) = "Probe" =>
              /\ ~in.probeInFlight
              /\ Refresh(in, now).state = "HalfOpen"
              /\ TryBegin(in, now).probeInFlight = TRUE
         /\ Admit(Refresh(in, now)) # "Probe" =>
              TryBegin(in, now).probeInFlight = in.probeInFlight
<1> DEFINE r == Refresh(in, now)
<1>1. /\ r \in Inner /\ r.openedAt = in.openedAt
      /\ r.headStart = in.headStart /\ r.probeInFlight = in.probeInFlight
  BY RefreshFacts
<1>2. TryBegin(in, now) =
        IF Admit(r) = "Probe" THEN [r EXCEPT !.probeInFlight = TRUE] ELSE r
  BY DEF TryBegin
<1> HIDE DEF r
<1>3. /\ Admit(r) \in Admission \union {NoAdmission}
      /\ Admit(r) = "Normal" <=> r.state = "Closed"
      /\ Admit(r) = "Probe" => r.state = "HalfOpen" /\ ~r.probeInFlight
  BY <1>1 DEF Admit, Admission, NoAdmission, Inner, CircuitState
<1>4. [r EXCEPT !.probeInFlight = TRUE] \in Inner
  BY <1>1 DEF Inner
<1> QED BY <1>1, <1>2, <1>3, <1>4 DEF r, Inner

\* Handing the probe back.
LEMMA AbandonFacts ==
  ASSUME NEW in \in Inner, NEW a \in Admission
  PROVE  /\ Abandon(in, a) \in Inner
         /\ Abandon(in, a).state = in.state
         /\ Abandon(in, a).openedAt = in.openedAt
         /\ Abandon(in, a).headStart = in.headStart
         /\ a = "Probe" /\ in.state = "HalfOpen" => Abandon(in, a).probeInFlight = FALSE
         /\ a # "Probe" => Abandon(in, a).probeInFlight = in.probeInFlight
  BY DEF Abandon, Inner
=============================================================================
