----------------------------- MODULE LatencyAware -----------------------------
(***************************************************************************)
(* Latency-aware routing (routing/latency_aware.rs) and the estimates it   *)
(* lives on (Backend::update_ewma_latency).  Handlers read the estimates   *)
(* of their candidates one after the other, choose, and when the request   *)
(* has completed load the estimate, compute, and store it: nothing keeps   *)
(* another handler from storing in between.  Latencies are whole           *)
(* microseconds; 0 stands for no sample.  Every request here completes     *)
(* with a 2xx; the others leave the estimates alone (Router).              *)
(***************************************************************************)
EXTENDS Weights

CONSTANTS
  Requests,            \* the handlers
  AlphaNum, AlphaDen,  \* routing.latency_aware.alpha, as a fraction
  Samples,             \* the times to first byte that occur
  MaxSamples           \* bound: how many requests complete

ASSUME LatencyAssumption ==
  /\ AlphaNum \in Nat \ {0} /\ AlphaDen \in Nat \ {0} /\ AlphaNum <= AlphaDen
  /\ Samples \subseteq Nat \ {0}
  /\ MaxSamples \in Nat

VARIABLES
  ewma,      \* Backend.ewma_latency_us
  fallback,  \* LatencyAware.fallback_counter
  req,       \* the handlers
  seen,      \* history: the samples each backend has given
  completed  \* how many requests have completed

vars == <<ewma, fallback, req, seen, completed>>

NoBackend == -1

Handler == [at : {"idle", "read", "sent", "loaded"},
            todo    : SUBSET Backends,             \* estimates still to be read
            cands   : SUBSET Backends,
            raw     : [Backends -> Nat],
            backend : Backends \union {NoBackend},
            sample  : Samples \union {0},
            old     : Nat]

Idle == [at |-> "idle", todo |-> {}, cands |-> {}, raw |-> [b \in Backends |-> 0],
         backend |-> NoBackend, sample |-> 0, old |-> 0]

Init ==
  /\ ewma = [b \in Backends |-> 0]
  /\ fallback = 0
  /\ req = [r \in Requests |-> Idle]
  /\ seen = [b \in Backends |-> {}]
  /\ completed = 0

-----------------------------------------------------------------------------
(* select *)

Begin(r, routable) ==
  /\ req[r].at = "idle"
  /\ req' = [req EXCEPT ![r] = [Idle EXCEPT !.at = "read", !.todo = routable,
                                            !.cands = routable]]
  /\ UNCHANGED <<ewma, fallback, seen, completed>>

Read(r) ==
  LET b == Min(req[r].todo)
  IN  /\ req[r].at = "read" /\ req[r].todo # {}
      /\ req' = [req EXCEPT ![r] = [req[r] EXCEPT !.todo = req[r].todo \ {b},
                                                  !.raw[b] = ewma[b]]]
      /\ UNCHANGED <<ewma, fallback, seen, completed>>

Sampled(h) == {b \in h.cands : h.raw[b] > 0}

\* Mutant of MedianOf: no sample counts as the shortest latency.
MedianTiny(h) == 1

\* sampled[len / 2] of the sorted samples: the latency that as many samples as
\* len / 2 come before, counted with repetitions.
MedianOf(h) ==
  IF Sampled(h) = {} THEN 1
  ELSE LET half == Cardinality(Sampled(h)) \div 2
       IN  CHOOSE m \in {h.raw[b] : b \in Sampled(h)} :
             /\ Cardinality({b \in Sampled(h) : h.raw[b] < m}) <= half
             /\ Cardinality({b \in Sampled(h) : h.raw[b] <= m}) > half

Latency(h, b) == IF h.raw[b] > 0 THEN h.raw[b] ELSE MedianOf(h)

\* max <= min * FLAT_RATIO
Flat(h) ==
  LET latencies == {Latency(h, b) : b \in h.cands}
  IN  10 * Max(latencies) <= 11 * Min(latencies)

Send(r, b) == req' = [req EXCEPT ![r] = [req[r] EXCEPT !.at = "sent", !.backend = b]]

\* Flat latencies: the next of the rotation.
ChooseFlat(r) ==
  LET h == req[r]
  IN  /\ h.at = "read" /\ h.todo = {} /\ h.cands # {}
      /\ Flat(h)
      /\ fallback' = FetchAdd(fallback)
      /\ Send(r, WeightedPick(fallback % TotalWeight(h.cands), h.cands))
      /\ UNCHANGED <<ewma, seen, completed>>

\* Otherwise a random pick: every candidate's weight is positive.
ChooseWeighted(r, b) ==
  LET h == req[r]
  IN  /\ h.at = "read" /\ h.todo = {} /\ h.cands # {}
      /\ ~Flat(h)
      /\ b \in h.cands
      /\ Send(r, b)
      /\ UNCHANGED <<ewma, fallback, seen, completed>>

-----------------------------------------------------------------------------
(* update_ewma_latency, in two steps *)

\* Mutant of NewEstimate: the weights of old and new do not add up.
NewEstimateHeavy(old, sample) ==
  IF old = 0 THEN {sample}
  ELSE {(AlphaNum * sample + AlphaDen * old) \div AlphaDen}

\* alpha * sample + (1 - alpha) * old, truncated.  When the exact value is a whole
\* number the f64 one may be just below it, and loses one: with alpha = 0.3 and
\* old = sample = 124224 the result is 124223.
NewEstimate(old, sample) ==
  LET exact == AlphaNum * sample + (AlphaDen - AlphaNum) * old
  IN  IF old = 0 THEN {sample}
      ELSE {exact \div AlphaDen}
             \union {e \in {(exact \div AlphaDen) - 1} : exact % AlphaDen = 0}

\* Backend b has answered after this time.
Load(r, b, sample) ==
  /\ req[r].at = "sent" /\ req[r].backend = b
  /\ completed < MaxSamples
  /\ completed' = completed + 1
  /\ seen' = [seen EXCEPT ![b] = seen[b] \union {sample}]
  /\ req' = [req EXCEPT ![r] = [Idle EXCEPT !.at = "loaded", !.backend = b,
                                            !.sample = sample, !.old = ewma[b]]]
  /\ UNCHANGED <<ewma, fallback>>

Store(r, e) ==
  /\ req[r].at = "loaded"
  /\ e \in NewEstimate(req[r].old, req[r].sample)
  /\ ewma' = [ewma EXCEPT ![req[r].backend] = e]
  /\ req' = [req EXCEPT ![r] = Idle]
  /\ UNCHANGED <<fallback, seen, completed>>

\* The request did not complete with a 2xx.
NoSample(r) ==
  /\ req[r].at = "sent"
  /\ req' = [req EXCEPT ![r] = Idle]
  /\ UNCHANGED <<ewma, fallback, seen, completed>>

Next ==
  \E r \in Requests :
    \/ \E routable \in SUBSET Backends \ {{}} : Begin(r, routable)
    \/ Read(r)
    \/ ChooseFlat(r)
    \/ \E b \in Backends : ChooseWeighted(r, b)
    \/ \E b \in Backends, sample \in Samples : Load(r, b, sample)
    \/ \E e \in NewEstimate(req[r].old, req[r].sample) : Store(r, e)
    \/ NoSample(r)

Spec == Init /\ [][Next]_vars

-----------------------------------------------------------------------------
(* Properties *)

TypeOK ==
  /\ ewma \in [Backends -> Nat]
  /\ fallback \in 0 .. CounterSize - 1
  /\ req \in [Requests -> Handler]
  /\ seen \in [Backends -> SUBSET Samples]
  /\ completed \in 0 .. MaxSamples

\* An estimate is none, or in the range of the samples given, less one for the
\* rounding.
Near(e, samples) ==
  \/ e = 0
  \/ (\E s \in samples : s - 1 <= e) /\ (\E s \in samples : e <= s)

\* Whatever updates overwrite each other, a backend's estimate, the one a
\* handler is about to replace and the one a selection goes by stay within what
\* was measured on that backend: lost updates cost accuracy, never sense, and
\* the rounding does not add up.
EstimatesNear ==
  /\ \A b \in Backends : Near(ewma[b], seen[b])
  /\ \A r \in Requests :
       \A b \in Backends :
         /\ Near(req[r].raw[b], seen[b])
         /\ req[r].at = "loaded" /\ req[r].backend = b => Near(req[r].old, seen[b])

\* "Backends without a sample get the median sampled latency, not a tiny one":
\* such a candidate is no better than at least half of the measured ones, and
\* no worse than one of them.
UnsampledInTheMiddle ==
  \A r \in Requests :
    LET h == req[r]
    IN  h.at = "read" /\ h.todo = {} /\ Sampled(h) # {} =>
          \A b \in h.cands \ Sampled(h) :
            /\ 2 * Cardinality({c \in Sampled(h) : h.raw[c] <= Latency(h, b)})
                 >= Cardinality(Sampled(h))
            /\ \E c \in Sampled(h) : h.raw[c] >= Latency(h, b)
=============================================================================
