---------------------------- MODULE StrategiesProofs ----------------------------
(***************************************************************************)
(* Proofs about the routing strategies, for any pool, weights, handlers,   *)
(* rings and latencies.                                                    *)
(***************************************************************************)
EXTENDS Strategies, SequenceTheorems, SetFacts

-----------------------------------------------------------------------------
(* The weighted rotation *)

LEMMA ShareFacts ==
  /\ IsFiniteSet(Backends) /\ Backends \in SUBSET Nat
  /\ \A b \in Backends : Share(b) \in Nat \ {0} /\ Shares[b] = Share(b)
  /\ \A T : TotalWeight(T) = SumOf(Shares, T)
<1>1. ASSUME NEW b \in Backends PROVE Share(b) \in Nat \ {0} /\ Shares[b] = Share(b)
  <2>1. Weight[b] \in Nat
    BY WeightsAssumption
  <2> DEFINE S == {Weight[b], 1}
             n == Weight[b] + 1
  <2>2. S \in SUBSET Nat /\ S # {} /\ n \in Nat /\ \A y \in S : y <= n
    BY <2>1
  <2>3. Max(S) \in S /\ \A y \in S : y <= Max(S)
    BY <2>2, MaxFacts
  <2> QED
    BY <2>1, <2>3 DEF Share, Shares
<1>2. \A T : TotalWeight(T) = SumOf(Shares, T)
  BY SumIsMapThenSum DEF TotalWeight
<1> QED
  BY <1>1, <1>2, WeightsAssumption

\* The slots up to and including those of b.
LEMMA UpTo ==
  ASSUME NEW cs \in SUBSET Backends, NEW b \in cs
  PROVE  /\ Before(b, cs) + Share(b) = TotalWeight({c \in cs : c <= b})
         /\ Before(b, cs) \in Nat
<1> DEFINE T == {c \in cs : c <= b}
<1>1. cs \in SUBSET Nat /\ b \in Nat /\ T \in SUBSET Backends
  BY ShareFacts
<1>2. b \in T /\ T \ {b} = {c \in cs : c < b}
  <2>1. \A c \in cs : c \in Nat /\ (c <= b /\ c # b <=> c < b)
    BY <1>1
  <2>2. b \in T
    BY <1>1
  <2>3. T \ {b} = {c \in cs : c < b}
    BY <2>1, Zenon
  <2> QED
    BY <2>2, <2>3
<1>3. IsFiniteSet(T) /\ IsFiniteSet(T \ {b}) /\ \A x \in T : Shares[x] \in Nat
  BY <1>1, ShareFacts, FS_Subset
<1> HIDE DEF T
<1>4. SumOf(Shares, T) = Shares[b] + SumOf(Shares, T \ {b}) /\ SumOf(Shares, T \ {b}) \in Nat
  BY <1>2, <1>3, SumWithout, SumNat
<1>5. Before(b, cs) = SumOf(Shares, T \ {b})
  BY <1>2, ShareFacts DEF Before
<1>6. Before(b, cs) + Share(b) = SumOf(Shares, T)
  BY <1>4, <1>5, ShareFacts
<1> QED
  BY <1>4, <1>5, <1>6, ShareFacts DEF T

\* The slots of all candidates, the empty set having none.
LEMMA TotalFacts ==
  ASSUME NEW cs \in SUBSET Backends
  PROVE  TotalWeight(cs) \in Nat /\ (cs # {} => TotalWeight(cs) # 0)
<1>1. TotalWeight(cs) \in Nat
  BY ShareFacts, FS_Subset, SumNat
<1>2. ASSUME NEW b \in cs PROVE TotalWeight(cs) # 0
  <2>1. IsFiniteSet(cs) /\ IsFiniteSet(cs \ {b}) /\ \A x \in cs : Shares[x] \in Nat \ {0}
    BY ShareFacts, FS_Subset
  <2>2. SumOf(Shares, cs) = Shares[b] + SumOf(Shares, cs \ {b})
        /\ SumOf(Shares, cs \ {b}) \in Nat /\ Shares[b] \in Nat \ {0}
    BY <2>1, SumWithout, SumNat
  <2> QED
    BY <2>2, ShareFacts
<1> QED
  BY <1>1, <1>2

\* Every slot of a turn has an owner among the candidates, whose slots it is one of.
LEMMA OwnerFacts ==
  ASSUME NEW cs \in SUBSET Backends, cs # {}, NEW slot \in Nat, slot < TotalWeight(cs)
  PROVE  /\ WeightedPick(slot, cs) \in cs
         /\ Before(WeightedPick(slot, cs), cs) <= slot
         /\ slot < Before(WeightedPick(slot, cs), cs) + Share(WeightedPick(slot, cs))
<1> DEFINE P == {b \in cs : slot < Before(b, cs) + Share(b)}
           o == WeightedPick(slot, cs)
           m == Max(cs)
<1>1. IsFiniteSet(cs) /\ cs \in SUBSET Nat
  BY ShareFacts, FS_Subset
<1>2. m \in cs /\ \A y \in cs : y <= m
  BY <1>1, FiniteMax
<1>3. m \in P
  <2>1. {c \in cs : c <= m} = cs
    BY <1>2
  <2> HIDE DEF m
  <2> QED
    BY <1>2, <2>1, UpTo
<1>4. P \in SUBSET Nat /\ P # {}
  BY <1>1, <1>3
<1>5. o \in P /\ \A y \in P : o <= y
  BY <1>4, MinFacts DEF WeightedPick
<1> HIDE DEF m, o
<1>6. o \in cs /\ o \in Nat /\ slot < Before(o, cs) + Share(o)
  BY <1>1, <1>5
<1> DEFINE T == {c \in cs : c < o}
<1>7. Before(o, cs) <= slot
  <2>1. CASE T = {}
    <3>1. Before(o, cs) = SumOf(Shares, {})
      BY <2>1, ShareFacts DEF Before
    <3> QED
      BY <3>1, SumEmpty
  <2>2. CASE T # {}
    <3> DEFINE p == Max(T)
    <3>1. p \in T /\ \A y \in T : y <= p
      <4>1. IsFiniteSet(T) /\ T \in SUBSET Nat
        BY <1>1, FS_Subset
      <4> QED
        BY <2>2, <4>1, FiniteMax
    <3> HIDE DEF p
    <3>2. p \in cs /\ p < o /\ p \in Nat
      BY <1>1, <3>1
    <3>3. p \notin P
      BY <1>5, <1>6, <3>2
    <3>4. {c \in cs : c <= p} = T
      <4>1. \A c \in cs : c <= p => c < o
        BY <1>1, <1>6, <3>2
      <4>2. \A c \in cs : c < o => c <= p
        BY <3>1
      <4> QED
        BY <4>1, <4>2
    <3>5. Before(p, cs) + Share(p) = TotalWeight(T) /\ Before(p, cs) \in Nat /\ Share(p) \in Nat
      BY <3>2, <3>4, UpTo, ShareFacts
    <3>6. ~(slot < Before(p, cs) + Share(p))
      BY <3>2, <3>3
    <3>7. Before(o, cs) = TotalWeight(T)
      BY DEF Before
    <3> QED
      BY <3>5, <3>6, <3>7
  <2> QED
    BY <2>1, <2>2
<1> QED
  BY <1>6, <1>7 DEF o

-----------------------------------------------------------------------------
(* Latency-aware routing *)

\* A handler about to store an estimate holds a sample that was recorded.
SampleSeen(h, s) == h.at = "loaded" => h.backend \in Backends /\ h.sample \in s[h.backend]

\* What EstimatesNear says of a handler.
HandlerNear(h, s) ==
  \A b \in Backends :
    /\ Near(h.raw[b], s[b])
    /\ h.at = "loaded" /\ h.backend = b => Near(h.old, s[b])

\* The inductive invariant.
Inv ==
  /\ TypeOK
  /\ EstimatesNear
  /\ \A r \in Requests : SampleSeen(req[r], seen)

-----------------------------------------------------------------------------
(* Arithmetic *)

\* The weighted mean lies between its arguments' bounds.
LEMMA Mean ==
  ASSUME NEW a \in Nat, NEW d \in Nat, a > 0, a <= d,
         NEW o \in Nat, NEW s \in Nat, NEW lo \in Nat, NEW hi \in Nat,
         lo - 1 <= o, o <= hi, lo <= s, s <= hi
  PROVE  /\ d * (lo - 1) < a * s + (d - a) * o
         /\ a * s + (d - a) * o <= d * hi
<1>1. a * lo <= a * s /\ a * s <= a * hi
  OBVIOUS
<1>2. (d - a) * (lo - 1) <= (d - a) * o /\ (d - a) * o <= (d - a) * hi
  <2>1. d - a \in Nat
    OBVIOUS
  <2>2. \A k \in Nat, x, y \in Int : x <= y => k * x <= k * y
    OBVIOUS
  <2> QED
    BY <2>1, <2>2
<1>3. a * lo + (d - a) * (lo - 1) = d * (lo - 1) + a
  OBVIOUS
<1>4. a * hi + (d - a) * hi = d * hi
  OBVIOUS
<1>5. a * s \in Int /\ (d - a) * o \in Int /\ a * lo \in Int /\ a * hi \in Int
      /\ (d - a) * (lo - 1) \in Int /\ (d - a) * hi \in Int
      /\ d * (lo - 1) \in Int /\ d * hi \in Int
  OBVIOUS
<1> QED
  BY <1>1, <1>2, <1>3, <1>4, <1>5

\* Truncated, and perhaps one less when it is whole, it stays within the bounds.
LEMMA Quotient ==
  ASSUME NEW d \in Nat \ {0}, NEW x \in Nat, NEW lo \in Nat, NEW hi \in Nat,
         d * (lo - 1) < x, x <= d * hi
  PROVE  /\ x \div d \in Nat /\ lo - 1 <= x \div d /\ x \div d <= hi
         /\ x % d = 0 => lo - 1 <= (x \div d) - 1
<1> DEFINE q == x \div d
           m == x % d
<1>1. q \in Int /\ m \in Int /\ 0 <= m /\ m < d /\ x = d * q + m
  OBVIOUS
<1> HIDE DEF q, m
<1>2. \A y, z \in Int : d * y < d * z => y < z
  OBVIOUS
<1>3. d * (lo - 1) < d * (q + 1)
  <2>1. d * (q + 1) = d * q + d
    BY <1>1
  <2> QED
    BY <1>1, <2>1
<1>4. lo - 1 < q + 1
  BY <1>1, <1>2, <1>3
<1>5. d * q < d * (hi + 1)
  <2>1. d * (hi + 1) = d * hi + d
    OBVIOUS
  <2> QED
    BY <1>1, <2>1
<1>6. q < hi + 1
  BY <1>1, <1>2, <1>5
<1>7. m = 0 => lo - 1 < q
  BY <1>1, <1>2
<1>8. q \in Nat
  <2>1. d * (0 - 1) < d * q
    BY <1>1
  <2> QED
    BY <1>1, <1>2, <2>1
<1> QED
  BY <1>1, <1>4, <1>6, <1>7, <1>8 DEF q, m

\* An estimate computed from one that is near the samples, and from a sample, is
\* near them too.
LEMMA EstimateNear ==
  ASSUME NEW S \in SUBSET Samples, NEW old \in Nat, Near(old, S),
         NEW sample \in S, NEW e \in NewEstimate(old, sample)
  PROVE  e \in Nat /\ Near(e, S)
<1> USE LatencyAssumption
<1>1. \A x \in S : x \in Nat /\ x > 0
  OBVIOUS
<1>2. CASE old = 0
  <2>1. e = sample
    BY <1>2 DEF NewEstimate
  <2> QED
    BY <1>1, <2>1 DEF Near
<1>3. CASE old # 0
  <2>1. PICK lo \in S : lo - 1 <= old /\ lo <= sample
    <3>1. PICK x \in S : x - 1 <= old
      BY <1>3 DEF Near
    <3>2. CASE x <= sample
      BY <3>1, <3>2
    <3>3. CASE ~(x <= sample)
      BY <1>1, <3>1, <3>3
    <3> QED
      BY <3>2, <3>3
  <2>2. PICK hi \in S : old <= hi /\ sample <= hi
    <3>1. PICK x \in S : old <= x
      BY <1>3 DEF Near
    <3>2. CASE sample <= x
      BY <3>1, <3>2
    <3>3. CASE ~(sample <= x)
      BY <1>1, <3>1, <3>3
    <3> QED
      BY <3>2, <3>3
  <2> DEFINE exact == AlphaNum * sample + (AlphaDen - AlphaNum) * old
  <2>3. AlphaDen * (lo - 1) < exact /\ exact <= AlphaDen * hi
    BY <1>1, <2>1, <2>2, Mean
  <2>4. exact \in Nat
    <3>1. AlphaDen - AlphaNum \in Nat /\ sample \in Nat
      BY <1>1
    <3>2. \A x, y \in Nat : x * y \in Nat
      OBVIOUS
    <3>3. AlphaNum * sample \in Nat /\ (AlphaDen - AlphaNum) * old \in Nat
      BY <3>1, <3>2
    <3> QED
      BY <3>3
  <2>5. e \in {exact \div AlphaDen}
             \union {f \in {(exact \div AlphaDen) - 1} : exact % AlphaDen = 0}
    BY <1>3 DEF NewEstimate
  <2> HIDE DEF exact
  <2>6. /\ exact \div AlphaDen \in Nat /\ lo - 1 <= exact \div AlphaDen
        /\ exact \div AlphaDen <= hi
        /\ exact % AlphaDen = 0 => lo - 1 <= (exact \div AlphaDen) - 1
    BY <1>1, <2>3, <2>4, Quotient
  <2>7. e \in Nat /\ lo - 1 <= e /\ e <= hi
    BY <1>1, <2>5, <2>6
  <2> QED
    BY <2>7 DEF Near
<1> QED
  BY <1>2, <1>3

\* More samples leave an estimate near them.
LEMMA NearMore ==
  ASSUME NEW S, NEW T, S \subseteq T, NEW e, Near(e, S)
  PROVE  Near(e, T)
BY DEF Near

-----------------------------------------------------------------------------
(* The steps *)

\* A step that gives one handler the state h and leaves the estimates alone.
LEMMA HandlerStep ==
  ASSUME Inv, NEW r \in Requests, NEW h \in Handler,
         req' = [req EXCEPT ![r] = h], fallback' \in 0 .. CounterSize - 1, UNCHANGED <<ewma, seen, completed>>,
         HandlerNear(h, seen), SampleSeen(h, seen)
  PROVE  Inv'
<1>1. TypeOK'
  BY DEF Inv, TypeOK
<1>2. \A q \in Requests : req'[q] = IF q = r THEN h ELSE req[q]
  BY DEF Inv, TypeOK
<1>3. \A q \in Requests : HandlerNear(req'[q], seen) /\ SampleSeen(req'[q], seen)
  BY <1>2 DEF Inv, EstimatesNear, HandlerNear
<1>4. EstimatesNear'
  BY <1>3 DEF Inv, EstimatesNear, HandlerNear
<1> QED
  BY <1>1, <1>3, <1>4 DEF Inv

\* The handler of an idle request has nothing to say.
LEMMA IdleFacts ==
  ASSUME NEW s
  PROVE  Idle \in Handler /\ HandlerNear(Idle, s) /\ SampleSeen(Idle, s)
<1>1. Idle \in Handler
  BY DEF Idle, Handler, NoBackend
<1>2. HandlerNear(Idle, s)
  BY DEF Idle, HandlerNear, Near
<1>3. SampleSeen(Idle, s)
  BY DEF Idle, SampleSeen
<1> QED
  BY <1>1, <1>2, <1>3

LEMMA InitInv == Init => Inv
<1> SUFFICES ASSUME Init PROVE Inv
  OBVIOUS
<1>1. TypeOK
  BY IdleFacts, WeightsAssumption, LatencyAssumption DEF Init, TypeOK
<1>2. \A r \in Requests : HandlerNear(req[r], seen) /\ SampleSeen(req[r], seen)
  BY IdleFacts DEF Init
<1>3. EstimatesNear
  BY <1>2 DEF Init, EstimatesNear, HandlerNear, Near
<1> QED
  BY <1>1, <1>2, <1>3 DEF Inv

LEMMA StepInv == Inv /\ [Next]_vars => Inv'
<1> SUFFICES ASSUME Inv, [Next]_vars PROVE Inv'
  OBVIOUS
<1>0. \A r \in Requests : /\ req[r] \in Handler
                          /\ HandlerNear(req[r], seen) /\ SampleSeen(req[r], seen)
  BY DEF Inv, TypeOK, EstimatesNear, HandlerNear
<1>1. ASSUME NEW r \in Requests, NEW routable \in SUBSET Backends, Begin(r, routable)
      PROVE  Inv'
  <2> DEFINE h == [Idle EXCEPT !.at = "read", !.todo = routable, !.cands = routable]
  <2>1. h \in Handler
    BY IdleFacts DEF Handler
  <2>2. HandlerNear(h, seen) /\ SampleSeen(h, seen)
    BY DEF Idle, HandlerNear, SampleSeen, Near
  <2>3. req' = [req EXCEPT ![r] = h] /\ UNCHANGED <<ewma, fallback, seen, completed>>
    BY <1>1 DEF Begin
  <2> QED
    BY <2>1, <2>2, <2>3, HandlerStep DEF Inv, TypeOK
<1>2. ASSUME NEW r \in Requests, Read(r)
      PROVE  Inv'
  <2> DEFINE b == Min(req[r].todo)
             h == [req[r] EXCEPT !.todo = req[r].todo \ {b}, !.raw[b] = ewma[b]]
  <2>1. h \in Handler /\ h.at = "read"
        /\ h.raw = [req[r].raw EXCEPT ![b] = ewma[b]]
    <3>1. req[r] \in Handler /\ req[r].at = "read" /\ ewma \in [Backends -> Nat]
      BY <1>0, <1>2 DEF Read, Inv, TypeOK
    <3> QED
      BY <3>1 DEF Handler
  <2>2. HandlerNear(h, seen)
    <3>1. \A c \in Backends : h.raw[c] = ewma[c] \/ h.raw[c] = req[r].raw[c]
      BY <1>0, <2>1 DEF Handler
    <3>2. \A c \in Backends : Near(h.raw[c], seen[c])
      BY <1>0, <3>1 DEF HandlerNear, Inv, EstimatesNear
    <3> QED
      BY <2>1, <3>2 DEF HandlerNear
  <2>3. SampleSeen(h, seen)
    BY <2>1 DEF SampleSeen
  <2>4. req' = [req EXCEPT ![r] = h] /\ UNCHANGED <<ewma, fallback, seen, completed>>
    BY <1>2 DEF Read
  <2> HIDE DEF h
  <2> QED
    BY <2>1, <2>2, <2>3, <2>4, HandlerStep DEF Inv, TypeOK
<1>3. ASSUME NEW r \in Requests, NEW b \in Backends, Send(r, b),
             fallback' \in 0 .. CounterSize - 1, UNCHANGED <<ewma, seen, completed>>
      PROVE  Inv'
  <2> DEFINE h == [req[r] EXCEPT !.at = "sent", !.backend = b]
  <2>1. h \in Handler /\ h.at = "sent" /\ h.raw = req[r].raw
    BY <1>0 DEF Handler
  <2>2. HandlerNear(h, seen) /\ SampleSeen(h, seen)
    BY <1>0, <2>1 DEF HandlerNear, SampleSeen
  <2>3. req' = [req EXCEPT ![r] = h]
    BY <1>3 DEF Send
  <2> HIDE DEF h
  <2> QED
    BY <1>3, <2>1, <2>2, <2>3, HandlerStep
<1>4. ASSUME NEW r \in Requests, ChooseFlat(r)
      PROVE  Inv'
  <2> DEFINE cs == req[r].cands
             slot == fallback % TotalWeight(cs)
  <2>1. FetchAdd(fallback) \in 0 .. CounterSize - 1 /\ fallback \in Nat
    BY WeightsAssumption DEF FetchAdd, Inv, TypeOK
  <2>2. cs \in SUBSET Backends /\ cs # {}
    BY <1>0, <1>4 DEF Handler, ChooseFlat
  <2>3. slot \in Nat /\ slot < TotalWeight(cs)
    BY <2>1, <2>2, TotalFacts
  <2>4. WeightedPick(slot, cs) \in Backends
    BY <2>2, <2>3, OwnerFacts
  <2>5. Send(r, WeightedPick(slot, cs)) /\ fallback' = FetchAdd(fallback)
        /\ UNCHANGED <<ewma, seen, completed>>
    BY <1>4 DEF ChooseFlat
  <2> HIDE DEF cs, slot
  <2> QED
    BY <1>3, <2>1, <2>4, <2>5
<1>5. ASSUME NEW r \in Requests, NEW b \in Backends, ChooseWeighted(r, b)
      PROVE  Inv'
  <2>1. fallback' \in 0 .. CounterSize - 1
    BY <1>5 DEF ChooseWeighted, Inv, TypeOK
  <2> QED
    BY <1>3, <1>5, <2>1 DEF ChooseWeighted
<1>6. ASSUME NEW r \in Requests, NEW b \in Backends, NEW sample \in Samples,
             Load(r, b, sample)
      PROVE  Inv'
  <2> DEFINE h == [Idle EXCEPT !.at = "loaded", !.backend = b, !.sample = sample,
                               !.old = ewma[b]]
  <2>1. /\ h \in Handler /\ h.at = "loaded" /\ h.backend = b
        /\ h.sample = sample /\ h.old = ewma[b] /\ \A c \in Backends : h.raw[c] = 0
    <3>1. ewma[b] \in Nat
      BY DEF Inv, TypeOK
    <3>2. h \in Handler
      BY <3>1, IdleFacts DEF Handler
    <3>3. h.at = "loaded" /\ h.backend = b /\ h.sample = sample /\ h.old = ewma[b]
          /\ h.raw = Idle.raw
      BY IdleFacts DEF Handler
    <3>4. \A c \in Backends : Idle.raw[c] = 0
      BY DEF Idle
    <3> HIDE DEF h
    <3> QED
      BY <3>2, <3>3, <3>4
  <2>2. req' = [req EXCEPT ![r] = h] /\ UNCHANGED <<ewma, fallback>>
        /\ completed < MaxSamples /\ completed' = completed + 1
        /\ seen' = [seen EXCEPT ![b] = seen[b] \union {sample}]
    BY <1>6 DEF Load
  <2> HIDE DEF h
  <2>3. TypeOK'
    <3>1. completed' \in 0 .. MaxSamples
      BY <2>2, LatencyAssumption DEF Inv, TypeOK
    <3>2. req' \in [Requests -> Handler] /\ seen' \in [Backends -> SUBSET Samples]
      BY <2>1, <2>2 DEF Inv, TypeOK
    <3> QED
      BY <2>2, <3>1, <3>2 DEF Inv, TypeOK
  <2>4. /\ \A c \in Backends : seen[c] \subseteq seen'[c]
        /\ sample \in seen'[b]
    BY <2>2 DEF Inv, TypeOK
  <2>5. \A q \in Requests : req'[q] = IF q = r THEN h ELSE req[q]
    BY <2>2 DEF Inv, TypeOK
  <2>6. \A c \in Backends : Near(ewma[c], seen'[c])
    BY <2>4, NearMore DEF Inv, EstimatesNear
  <2>7. ASSUME NEW q \in Requests
        PROVE  HandlerNear(req'[q], seen') /\ SampleSeen(req'[q], seen')
    <3>1. CASE q = r
      <4>1. req'[q] = h
        BY <2>5, <3>1
      <4>2. HandlerNear(h, seen')
        BY <2>1, <2>6 DEF HandlerNear, Near
      <4>3. SampleSeen(h, seen')
        BY <2>1, <2>4 DEF SampleSeen
      <4> QED
        BY <4>1, <4>2, <4>3
    <3>2. CASE q # r
      <4>1. req'[q] = req[q]
        BY <2>5, <3>2
      <4>2. HandlerNear(req[q], seen')
        BY <1>0, <2>4, NearMore DEF HandlerNear
      <4>3. SampleSeen(req[q], seen')
        BY <1>0, <2>4 DEF SampleSeen
      <4> QED
        BY <4>1, <4>2, <4>3
    <3> QED
      BY <3>1, <3>2
  <2>8. EstimatesNear'
    BY <2>2, <2>6, <2>7 DEF EstimatesNear, HandlerNear
  <2> QED
    BY <2>3, <2>7, <2>8 DEF Inv
<1>7. ASSUME NEW r \in Requests, NEW e \in NewEstimate(req[r].old, req[r].sample),
             Store(r, e)
      PROVE  Inv'
  <2> DEFINE b == req[r].backend
  <2>1. /\ req[r].at = "loaded" /\ ewma' = [ewma EXCEPT ![b] = e]
        /\ req' = [req EXCEPT ![r] = Idle] /\ UNCHANGED <<fallback, seen, completed>>
    BY <1>7 DEF Store
  <2>2. b \in Backends /\ req[r].sample \in seen[b] /\ req[r].old \in Nat
        /\ Near(req[r].old, seen[b]) /\ seen[b] \in SUBSET Samples
    BY <1>0, <2>1 DEF SampleSeen, HandlerNear, Handler, Inv, TypeOK
  <2>3. e \in Nat /\ Near(e, seen[b])
    BY <2>2, EstimateNear
  <2>4. TypeOK'
    BY <2>1, <2>2, <2>3, IdleFacts DEF Inv, TypeOK
  <2>5. \A c \in Backends : Near(ewma'[c], seen[c])
    BY <2>1, <2>2, <2>3 DEF Inv, TypeOK, EstimatesNear
  <2>6. \A q \in Requests : req'[q] = IF q = r THEN Idle ELSE req[q]
    BY <2>1 DEF Inv, TypeOK
  <2>7. \A q \in Requests : HandlerNear(req'[q], seen) /\ SampleSeen(req'[q], seen)
    BY <1>0, <2>6, IdleFacts
  <2>8. EstimatesNear'
    BY <2>1, <2>5, <2>7 DEF EstimatesNear, HandlerNear
  <2> QED
    BY <2>1, <2>4, <2>7, <2>8 DEF Inv
<1>8. ASSUME NEW r \in Requests, NoSample(r)
      PROVE  Inv'
  BY <1>8, IdleFacts, HandlerStep DEF NoSample, Inv, TypeOK
<1>9. CASE UNCHANGED vars
  BY <1>9 DEF vars, Inv, TypeOK, EstimatesNear
<1> QED
  BY <1>1, <1>2, <1>4, <1>5, <1>6, <1>7, <1>8, <1>9 DEF Next

\* The other strategies leave all this alone.
LEMMA LatencySteps ==
  /\ StrategyInit => Init
  /\ [StrategyNext]_strategyVars => [Next]_vars
  BY DEF StrategyInit, StrategyNext, strategyVars

LEMMA AlwaysInv == StrategySpec => []Inv
  BY InitInv, StepInv, LatencySteps, PTL DEF StrategySpec

\* Updates of a backend's latency estimate race without a lock.  However they
\* overwrite each other, and however long, every estimate in use stays within
\* the samples of that backend, up to the one microsecond of rounding.
THEOREM EstimatesStayNear == StrategySpec => []EstimatesNear
<1>1. Inv => EstimatesNear
  BY DEF Inv
<1> QED
  BY <1>1, AlwaysInv, PTL

\* The estimates, the fallback counter and the handlers are well-typed; in particular
\* the rotation picks a candidate whatever the counter, the weights and the candidates.
THEOREM TypeCorrect == StrategySpec => []TypeOK
<1>1. Inv => TypeOK
  BY DEF Inv
<1> QED
  BY <1>1, AlwaysInv, PTL

-----------------------------------------------------------------------------
(* The median *)

\* No more than half of the values are before m, and more than half are not after it.
IsMiddle(f, S, half, m) == /\ Cardinality({x \in S : f[x] < m}) <= half
                           /\ Cardinality({x \in S : f[x] <= m}) > half

LEMMA MedianExists ==
  ASSUME NEW S, IsFiniteSet(S), NEW f, \A x \in S : f[x] \in Nat,
         NEW half \in Nat, half < Cardinality(S)
  PROVE  \E m \in {f[x] : x \in S} : IsMiddle(f, S, half, m)
<1> DEFINE upTo(n) == {x \in S : f[x] <= n}
           below(n) == {x \in S : f[x] < n}
           Above == {n \in Nat : Cardinality(upTo(n)) > half}
<1>1. \A n : IsFiniteSet(upTo(n)) /\ Cardinality(upTo(n)) \in Nat
             /\ IsFiniteSet(below(n)) /\ Cardinality(below(n)) \in Nat
  BY FS_Subset, FS_CardinalityType
<1>2. PICK top \in Nat : \A x \in S : f[x] <= top
  BY FiniteBound
<1>3. top \in Above
  <2>1. upTo(top) = S
    BY <1>2
  <2> QED
    BY <2>1, FS_CardinalityType
<1> DEFINE m == Min(Above)
<1>4. m \in Above /\ \A n \in Above : m <= n
  <2>1. Above \in SUBSET Nat /\ Above # {}
    BY <1>3
  <2> HIDE DEF Above
  <2> QED
    BY <2>1, MinFacts
<1> HIDE DEF m
<1>5. m \in Nat /\ Cardinality(upTo(m)) > half
  BY <1>4
<1>6. Cardinality(below(m)) <= half
  <2>1. CASE m = 0
    <3>1. below(m) = {}
      BY <2>1
    <3> QED
      BY <3>1, FS_EmptySet
  <2>2. CASE m # 0
    <3>1. m - 1 \in Nat /\ ~(m <= m - 1)
      BY <1>5, <2>2
    <3>2. m - 1 \notin Above
      BY <1>4, <3>1
    <3>3. \A x \in S : f[x] < m <=> f[x] <= m - 1
      BY <1>5
    <3>4. below(m) = upTo(m - 1)
      BY <3>3, Zenon
    <3>5. ~(Cardinality(upTo(m - 1)) > half)
      BY <3>1, <3>2
    <3>6. Cardinality(below(m)) = Cardinality(upTo(m - 1))
      BY <3>4, Zenon
    <3>7. Cardinality(below(m)) \in Nat
      BY <1>1, Zenon
    <3> HIDE DEF below, upTo
    <3> QED
      BY <3>5, <3>6, <3>7
  <2> QED
    BY <2>1, <2>2
<1>7. m \in {f[x] : x \in S}
  <2> SUFFICES ASSUME m \notin {f[x] : x \in S} PROVE FALSE
    OBVIOUS
  <2>1. \A x \in S : f[x] < m <=> f[x] <= m
    BY <1>5
  <2>2. below(m) = upTo(m)
    BY <2>1, Zenon
  <2> QED
    BY <1>1, <1>5, <1>6, <2>2
<1> QED
  BY <1>5, <1>6, <1>7 DEF IsMiddle

LEMMA MedianFacts ==
  ASSUME NEW h \in Handler, Sampled(h) # {}
  PROVE  /\ MedianOf(h) \in {h.raw[b] : b \in Sampled(h)}
         /\ Cardinality(Sampled(h)) \in Nat
         /\ Cardinality({b \in Sampled(h) : h.raw[b] <= MedianOf(h)}) \in Nat
         /\ Cardinality({b \in Sampled(h) : h.raw[b] <= MedianOf(h)})
              > Cardinality(Sampled(h)) \div 2
<1> DEFINE S == Sampled(h)
           f == h.raw
           half == Cardinality(S) \div 2
<1>1. S \in SUBSET Backends /\ IsFiniteSet(S) /\ \A x \in S : f[x] \in Nat
  BY ShareFacts, FS_Subset DEF Sampled, Handler
<1>2. Cardinality(S) \in Nat /\ Cardinality(S) # 0
  BY <1>1, FS_CardinalityType, FS_EmptySet
<1>3. half \in Nat /\ half < Cardinality(S)
  BY <1>2
<1> HIDE DEF half
<1>4. \E m \in {f[x] : x \in S} : IsMiddle(f, S, half, m)
  <2> HIDE DEF S, f
  <2> QED
    BY <1>1, <1>3, MedianExists
<1>5. MedianOf(h) = CHOOSE m \in {f[x] : x \in S} : IsMiddle(f, S, half, m)
  BY DEF MedianOf, half, IsMiddle
<1>6. MedianOf(h) \in {f[x] : x \in S} /\ IsMiddle(f, S, half, MedianOf(h))
  <2> HIDE DEF S, f
  <2> QED
    BY <1>4, <1>5, Zenon
<1>7. Cardinality({x \in S : f[x] <= MedianOf(h)}) \in Nat
  BY <1>1, FS_Subset, FS_CardinalityType
<1> QED
  BY <1>2, <1>6, <1>7 DEF half, IsMiddle

\* A candidate without a sample is taken to be no faster than at least half of the
\* measured ones and no slower than the slowest: new backends are tried, not flooded.
THEOREM UnsampledIsMedian == StrategySpec => []UnsampledInTheMiddle
<1>1. TypeOK => UnsampledInTheMiddle
  <2> SUFFICES ASSUME TypeOK, NEW r \in Requests, Sampled(req[r]) # {},
                      NEW b \in req[r].cands \ Sampled(req[r])
               PROVE  /\ 2 * Cardinality({c \in Sampled(req[r]) : req[r].raw[c] <= Latency(req[r], b)})
                           >= Cardinality(Sampled(req[r]))
                      /\ \E c \in Sampled(req[r]) : req[r].raw[c] >= Latency(req[r], b)
    BY DEF UnsampledInTheMiddle
  <2> DEFINE h == req[r]
             m == MedianOf(h)
             n == Cardinality(Sampled(h))
             k == Cardinality({c \in Sampled(h) : h.raw[c] <= m})
  <2>1. h \in Handler
    BY DEF TypeOK
  <2>2. Latency(h, b) = m
    BY DEF Latency, Sampled
  <2>3. m \in {h.raw[c] : c \in Sampled(h)} /\ n \in Nat /\ k \in Nat /\ k > n \div 2
    BY <2>1, MedianFacts
  <2>4. \A c \in Sampled(h) : h.raw[c] \in Nat
    BY <2>1 DEF Handler, Sampled
  <2> HIDE DEF m, n, k
  <2>5. 2 * k >= n
    BY <2>3
  <2>6. \E c \in Sampled(h) : h.raw[c] >= m
    BY <2>3, <2>4
  <2> QED
    BY <2>2, <2>5, <2>6 DEF n, k
<1> QED
  BY <1>1, TypeCorrect, PTL

-----------------------------------------------------------------------------
(* Prefix-cache routing *)

\* The prefix is that of the request's body.
BodyRead(h) == h.body \in Bodies /\ h.prefix = PC!PrefixOf[h.body]

\* The handlers, as far as the proof needs them typed.
LookupsOK ==
  /\ looking \in [Requests -> PC!Handler]
  /\ \A r \in Requests : looking[r].at # "idle" => BodyRead(looking[r])

\* A request that was sent by its prefix is where the walk from its key first
\* meets one of the candidates it had left.
PlacedAt(p, start, h) ==
  \E i \in Nat : PC!Found(p, start, h.cands, i) /\ h.backend = PC!OnWalk(p, start, i)

StartFor(h) == PC!StartOf(points, keyOf[h.prefix])

Placed ==
  \A r \in Requests :
    looking[r].at = "sent" /\ looking[r].prefix # <<>> =>
      PlacedAt(points, StartFor(looking[r]), looking[r])

\* The inductive invariant.
PrefixInv == LookupsOK /\ Placed

-----------------------------------------------------------------------------
\* lookup on a smaller set of routable backends stops at the same point as long
\* as that point's backend is still in the set.
LEMMA SamePoint ==
  ASSUME NEW p, NEW start, NEW large, NEW small \in SUBSET large,
         NEW i \in Nat, PC!Found(p, start, large, i),
         NEW j \in Nat, PC!Found(p, start, small, j),
         PC!OnWalk(p, start, i) \in small
  PROVE  i = j
<1>1. ~(j < i)
  <2>1. SUFFICES ASSUME j < i PROVE FALSE
    OBVIOUS
  <2>2. j \in 0 .. i - 1
    BY <2>1
  <2> QED
    BY <2>2 DEF PC!Found
<1>2. ~(i < j)
  <2>1. SUFFICES ASSUME i < j PROVE FALSE
    OBVIOUS
  <2>2. i \in 0 .. j - 1
    BY <2>1
  <2> QED
    BY <2>2 DEF PC!Found
<1> QED
  BY <1>1, <1>2

\* Prompts that begin alike have the same prefix, hence the same key.
LEMMA SameKey ==
  ASSUME NEW a \in Bodies, NEW b \in Bodies, PC!SamePrefix(PC!TextOf[a], PC!TextOf[b])
  PROVE  PC!PrefixOf[a] = PC!PrefixOf[b]
<1> DEFINE s == PC!Text(a)
           t == PC!Text(b)
           cut(u) == {j \in DOMAIN u : j <= PrefixCharLimit}
<1>1. PC!SamePrefix(s, t)
  BY DEF PC!TextOf
<1> HIDE DEF s, t
<1>2. cut(s) = cut(t)
  BY <1>1 DEF PC!SamePrefix
<1>3. \A i \in cut(s) : s[i] = t[i]
  BY <1>1 DEF PC!SamePrefix
<1>4. [i \in cut(s) |-> s[i]] = [i \in cut(t) |-> t[i]]
  BY <1>2, <1>3
<1> QED
  BY <1>4 DEF PC!PrefixOf, PC!Prefix, s, t

-----------------------------------------------------------------------------
\* A step changes the handler of one request only, and the others stay placed.
LEMMA OneLookupMoves ==
  ASSUME PrefixInv, NEW r \in Requests, NEW h \in PC!Handler,
         looking' = [looking EXCEPT ![r] = h], UNCHANGED <<points, keyOf>>,
         h.at # "idle" => BodyRead(h),
         h.at = "sent" /\ h.prefix # <<>> =>
           PlacedAt(points, StartFor(h), h)
  PROVE  PrefixInv'
<1>1. LookupsOK'
  BY DEF PrefixInv, LookupsOK
<1>2. Placed'
  <2>1. SUFFICES ASSUME NEW q \in Requests,
                        looking'[q].at = "sent", looking'[q].prefix # <<>>
                 PROVE  PlacedAt(points, StartFor(looking'[q]), looking'[q])
    BY DEF Placed, StartFor
  <2>2. CASE q = r
    <3>1. looking'[q] = h
      BY <2>2 DEF PrefixInv, LookupsOK
    <3> QED
      BY <2>1, <3>1
  <2>3. CASE q # r
    <3>1. looking'[q] = looking[q]
      BY <2>3 DEF PrefixInv, LookupsOK
    <3> QED
      BY <2>1, <3>1 DEF PrefixInv, Placed
  <2> QED
    BY <2>2, <2>3
<1> QED
  BY <1>1, <1>2 DEF PrefixInv

LEMMA PrefixInitInv == PC!Init => PrefixInv
<1> SUFFICES ASSUME PC!Init PROVE PrefixInv
  OBVIOUS
<1>1. PC!Idle \in PC!Handler
  BY DEF PC!Idle, PC!Handler, PC!NoBackend
<1>2. \A r \in Requests : looking[r].at = "idle"
  BY DEF PC!Init, PC!Idle
<1>3. LookupsOK
  BY <1>1, <1>2 DEF PC!Init, LookupsOK
<1> QED
  BY <1>2, <1>3 DEF PrefixInv, Placed

LEMMA PrefixStepInv == PrefixInv /\ [PC!Next]_(PC!vars) => PrefixInv'
<1> SUFFICES ASSUME PrefixInv, [PC!Next]_(PC!vars) PROVE PrefixInv'
  OBVIOUS
<1>1. ASSUME NEW r \in Requests, NEW body \in Bodies, NEW routable \in SUBSET Backends,
             PC!Arrive(r, body, routable)
      PROVE  PrefixInv'
  <2> DEFINE h == [looking[r] EXCEPT !.at = "select", !.body = body,
                           !.prefix = PC!PrefixOf[body], !.cands = routable]
  <2>1. h \in PC!Handler /\ h.at = "select" /\ BodyRead(h)
    <3>1. looking[r] \in PC!Handler
      BY DEF PrefixInv, LookupsOK
    <3> QED
      BY <3>1, ZenonT(60) DEF PC!Handler, BodyRead, PC!KeyTexts
  <2>2. looking' = [looking EXCEPT ![r] = h] /\ UNCHANGED <<points, keyOf>>
    BY <1>1 DEF PC!Arrive
  <2> QED
    BY <2>1, <2>2, OneLookupMoves
<1>2. ASSUME NEW r \in Requests, NEW b \in Backends, PC!Claim(r, b),
             looking' = [looking EXCEPT ![r] = [looking[r] EXCEPT !.at = "sent", !.backend = b]]
      PROVE  PrefixInv'
  <2> DEFINE h == [looking[r] EXCEPT !.at = "sent", !.backend = b]
  <2>1. /\ h \in PC!Handler /\ BodyRead(h)
        /\ h.prefix = looking[r].prefix /\ h.cands = looking[r].cands /\ h.backend = b
    BY <1>2 DEF PrefixInv, LookupsOK, PC!Handler, BodyRead, PC!Claim
  <2>2. looking' = [looking EXCEPT ![r] = h] /\ UNCHANGED <<points, keyOf>>
    BY <1>2 DEF PC!Claim
  <2>3. h.prefix # <<>> => PlacedAt(points, StartFor(h), h)
    <3>1. \A i \in 0 .. Len(points) - 1 : i \in Nat
      OBVIOUS
    <3> QED
      BY <1>2, <2>1, <3>1 DEF PC!Claim, PC!Selected, PlacedAt, StartFor
  <2> QED
    BY <2>1, <2>2, <2>3, OneLookupMoves
<1>3. ASSUME NEW r \in Requests, NEW b \in Backends, PC!Claim(r, b),
             looking' = [looking EXCEPT ![r] = [looking[r] EXCEPT !.cands = looking[r].cands \ {b}]]
      PROVE  PrefixInv'
  <2> DEFINE h == [looking[r] EXCEPT !.cands = looking[r].cands \ {b}]
  <2>1. h \in PC!Handler /\ h.at = "select" /\ BodyRead(h)
    BY <1>3 DEF PrefixInv, LookupsOK, PC!Handler, BodyRead, PC!Claim
  <2>2. looking' = [looking EXCEPT ![r] = h] /\ UNCHANGED <<points, keyOf>>
    BY <1>3 DEF PC!Claim
  <2> QED
    BY <2>1, <2>2, OneLookupMoves
<1>4. ASSUME NEW r \in Requests, PC!Ends(r)
      PROVE  PrefixInv'
  <2>1. PC!Idle \in PC!Handler /\ PC!Idle.at = "idle"
    BY DEF PC!Idle, PC!Handler, PC!NoBackend
  <2>2. looking' = [looking EXCEPT ![r] = PC!Idle] /\ UNCHANGED <<points, keyOf>>
    BY <1>4 DEF PC!Ends
  <2> QED
    BY <2>1, <2>2, OneLookupMoves
<1>5. CASE UNCHANGED PC!vars
  BY <1>5 DEF PC!vars, PrefixInv, LookupsOK, Placed, StartFor
<1>6. ASSUME NEW r \in Requests, NEW b \in Backends, PC!Claim(r, b)
      PROVE  PrefixInv'
  BY <1>2, <1>3, <1>6 DEF PC!Claim
<1> QED
  BY <1>1, <1>4, <1>5, <1>6 DEF PC!Next

LEMMA PrefixInvKeys == PrefixInv => PC!OnlyLostKeysMove
<1> SUFFICES ASSUME PrefixInv, NEW r \in PC!ByPrefix, NEW s \in PC!ByPrefix,
                    PC!SamePrefix(PC!TextOf[looking[r].body], PC!TextOf[looking[s].body]),
                    looking[s].cands \subseteq looking[r].cands,
                    looking[r].backend \in looking[s].cands
             PROVE  looking[s].backend = looking[r].backend
  BY DEF PC!OnlyLostKeysMove
<1> DEFINE start == StartFor(looking[r])
<1>1. BodyRead(looking[r]) /\ BodyRead(looking[s])
  BY DEF PrefixInv, LookupsOK, PC!ByPrefix
<1>2. StartFor(looking[s]) = start
  BY <1>1, SameKey DEF StartFor, BodyRead
<1>3. PICK i \in Nat : PC!Found(points, start, looking[r].cands, i)
                      /\ looking[r].backend = PC!OnWalk(points, start, i)
  BY DEF PrefixInv, Placed, PlacedAt, PC!ByPrefix
<1>4. PICK j \in Nat : PC!Found(points, start, looking[s].cands, j)
                      /\ looking[s].backend = PC!OnWalk(points, start, j)
  BY <1>2 DEF PrefixInv, Placed, PlacedAt, PC!ByPrefix
<1>5. i = j
  BY <1>3, <1>4, SamePoint
<1> QED
  BY <1>3, <1>4, <1>5

-----------------------------------------------------------------------------
\* A key keeps its backend for as long as that backend stays a candidate: losing
\* backends, or being refused by them, moves the keys of these backends only.
\* This is what keeps the replicas' prefix caches warm through a failure.
THEOREM KeysStay == StrategySpec => []OnlyLostKeysMove
<1> DEFINE I == strategy = "prefix_cache" => PrefixInv
<1>1. StrategyInit => I
  BY PrefixInitInv DEF StrategyInit
<1>2. I /\ [StrategyNext]_strategyVars => I'
  <2> SUFFICES ASSUME I, [StrategyNext]_strategyVars, strategy' = "prefix_cache"
               PROVE  PrefixInv'
    OBVIOUS
  <2>1. strategy = "prefix_cache" /\ [PC!Next]_(PC!vars)
    BY DEF StrategyNext, strategyVars, prefixVars, PC!vars
  <2> QED
    BY <2>1, PrefixStepInv
<1>3. I => OnlyLostKeysMove
  BY PrefixInvKeys DEF OnlyLostKeysMove
<1> QED
  BY <1>1, <1>2, <1>3, PTL DEF StrategySpec

-----------------------------------------------------------------------------
(* The ring holds every backend *)

\* The order of the points, strictly.
Precedes(p, q) == p # q /\ PC!PointBefore(p, q)

LEMMA PointOrder ==
  ASSUME NEW p \in PC!Point, NEW q \in PC!Point
  PROVE  /\ PC!PointBefore(p, p)
         /\ p # q => Precedes(p, q) \/ Precedes(q, p)
         /\ \A s \in PC!Point : PC!PointBefore(s, p) /\ Precedes(p, q) => Precedes(s, q)
<1>1. \A s \in PC!Point : s.hash \in Nat /\ s.id \in Nat
  BY StrategiesAssumption, WeightsAssumption DEF PC!Point
<1>2. \A s, t \in PC!Point : s.hash = t.hash /\ s.id = t.id => s = t
  BY DEF PC!Point
<1> QED
  BY <1>1, <1>2 DEF Precedes, PC!PointBefore

\* The points of `at` up to p, and those before it.
UpToPoint(at, p) == {x \in DOMAIN at : PC!PointBefore(at[x], p)}
BeforePoint(at, p) == {x \in DOMAIN at : at[x] # p /\ PC!PointBefore(at[x], p)}

\* p is the i-th of the points in their order.
IsNth(at, p, i) == /\ Cardinality(BeforePoint(at, p)) < i
                   /\ i <= Cardinality(UpToPoint(at, p))

LEMMA PointCounts ==
  ASSUME NEW at, IsFiniteSet(DOMAIN at), NEW p
  PROVE  /\ IsFiniteSet(UpToPoint(at, p)) /\ IsFiniteSet(BeforePoint(at, p))
         /\ Cardinality(UpToPoint(at, p)) \in Nat /\ Cardinality(BeforePoint(at, p)) \in Nat
         /\ Cardinality(UpToPoint(at, p)) <= Cardinality(DOMAIN at)
<1>1. UpToPoint(at, p) \in SUBSET DOMAIN at /\ BeforePoint(at, p) \in SUBSET DOMAIN at
  BY DEF UpToPoint, BeforePoint
<1> QED
  BY <1>1, FS_Subset, FS_CardinalityType

\* At most one point is the i-th.
LEMMA OneNth ==
  ASSUME NEW D, IsFiniteSet(D), NEW at \in [D -> PC!Point], NEW i \in Nat,
         NEW p \in PC!Point, IsNth(at, p, i), NEW q \in PC!Point, IsNth(at, q, i)
  PROVE  p = q
<1>1. DOMAIN at = D /\ \A x \in D : at[x] \in PC!Point
  OBVIOUS
<1>2. ASSUME NEW s \in PC!Point, NEW t \in PC!Point, Precedes(s, t),
             IsNth(at, s, i), IsNth(at, t, i)
      PROVE  FALSE
  <2>1. UpToPoint(at, s) \in SUBSET BeforePoint(at, t)
    <3> SUFFICES ASSUME NEW x \in DOMAIN at, PC!PointBefore(at[x], s)
                 PROVE  at[x] # t /\ PC!PointBefore(at[x], t)
      BY DEF UpToPoint, BeforePoint
    <3> QED
      BY <1>1, <1>2, PointOrder DEF Precedes
  <2>2. Cardinality(UpToPoint(at, s)) <= Cardinality(BeforePoint(at, t))
    BY <1>1, <2>1, PointCounts, FS_Subset
  <2> QED
    BY <1>1, <1>2, <2>2, PointCounts DEF IsNth
<1> QED
  BY <1>2, PointOrder

LEMMA SameRingLibrary == \A S : PC!Cardinality(S) = Cardinality(S)
  BY DEF PC!Cardinality, Cardinality, PC!IsFiniteSet, IsFiniteSet

\* The arrangement in these terms.
LEMMA SortedByRank ==
  ASSUME NEW D, NEW at \in [D -> PC!Point]
  PROVE  PC!Sorted(at) = [k \in 1 .. Cardinality(D) |-> CHOOSE q \in PC!Point : IsNth(at, q, k)]
<1> DEFINE Nth(q, k) == /\ PC!Cardinality(BeforePoint(at, q)) < k
                        /\ k <= PC!Cardinality(UpToPoint(at, q))
           c == 1 .. PC!Cardinality(D)
<1>1. PC!Sorted(at) = [k \in c |-> CHOOSE q \in PC!Point : Nth(q, k)]
  BY DOMAIN at = D, Zenon DEF PC!Sorted, UpToPoint, BeforePoint
<1>2. c = 1 .. Cardinality(D)
  BY SameRingLibrary
<1>3. \A q, k : Nth(q, k) <=> IsNth(at, q, k)
  BY SameRingLibrary, Zenon DEF IsNth
<1> HIDE DEF Nth, c
<1>4. \A k : (CHOOSE q \in PC!Point : Nth(q, k)) = CHOOSE q \in PC!Point : IsNth(at, q, k)
  BY <1>3
<1> QED
  BY <1>1, <1>2, <1>4

\* Every point is somewhere in the sorted arrangement.
LEMMA PointIsPlaced ==
  ASSUME NEW D, IsFiniteSet(D), NEW at \in [D -> PC!Point], NEW x \in D
  PROVE  /\ DOMAIN PC!Sorted(at) = 1 .. Cardinality(D)
         /\ \E i \in 1 .. Cardinality(D) : PC!Sorted(at)[i] = at[x]
<1> DEFINE p == at[x]
           i == Cardinality(UpToPoint(at, p))
<1>1. DOMAIN at = D /\ p \in PC!Point
  OBVIOUS
<1>2. PC!Sorted(at) = [k \in 1 .. Cardinality(D) |-> CHOOSE q \in PC!Point : IsNth(at, q, k)]
  BY SortedByRank
<1>3. x \in UpToPoint(at, p) /\ x \notin BeforePoint(at, p)
  BY <1>1, PointOrder DEF UpToPoint, BeforePoint
<1>4. BeforePoint(at, p) \in SUBSET (UpToPoint(at, p) \ {x})
  BY <1>3 DEF UpToPoint, BeforePoint
<1> HIDE DEF p
<1>5. i \in Nat /\ i <= Cardinality(D) /\ Cardinality(BeforePoint(at, p)) < i
  <2> DEFINE S == UpToPoint(at, p)
             T == S \ {x}
  <2>1. IsFiniteSet(S) /\ i <= Cardinality(D)
    BY <1>1, PointCounts
  <2>2. Cardinality(S) \in Nat /\ Cardinality(T) \in Nat /\ Cardinality(T) = Cardinality(S) - 1
    BY <1>3, <2>1, OneLess
  <2>3. IsFiniteSet(T)
    BY <2>1, FS_Subset
  <2>4. Cardinality(BeforePoint(at, p)) <= Cardinality(T) /\ Cardinality(BeforePoint(at, p)) \in Nat
    BY <1>1, <1>4, <2>3, FS_Subset, PointCounts
  <2> QED
    BY <2>1, <2>2, <2>4
<1>6. i \in 1 .. Cardinality(D)
  <2>1. Cardinality(BeforePoint(at, p)) \in Nat
    BY <1>1, PointCounts
  <2> QED
    BY <1>5, <2>1
<1>7. IsNth(at, p, i)
  BY <1>5 DEF IsNth
<1>8. (CHOOSE q \in PC!Point : IsNth(at, q, i)) = p
  <2> HIDE DEF i
  <2> DEFINE c == CHOOSE q \in PC!Point : IsNth(at, q, i)
  <2>1. c \in PC!Point /\ IsNth(at, c, i)
    BY <1>1, <1>7
  <2> HIDE DEF c
  <2>2. c = p
    BY <1>1, <1>5, <1>7, <2>1, OneNth
  <2> QED
    BY <2>2 DEF c
<1>9. PC!Sorted(at)[i] = p
  BY <1>2, <1>6, <1>8
<1> QED
  BY <1>2, <1>6, <1>9 DEF p

\* A remainder is what is left of x after some multiple of n.
LEMMA RemainderUnique ==
  ASSUME NEW n \in Nat \ {0}, NEW x \in Int, NEW q \in Int, NEW y \in Int,
         x = q * n + y, 0 <= y, y < n
  PROVE  x % n = y
  OBVIOUS

\* Step i of a walk around n points leads to the k-th.
LeadsTo(n, start, i, k) == ((start + i) % n) + 1 = k

\* From anywhere on the ring the walk reaches every point within one round.
LEMMA WalkReaches ==
  ASSUME NEW n \in Nat \ {0}, NEW start \in Nat, NEW k \in 1 .. n
  PROVE  \E i \in 0 .. n - 1 : LeadsTo(n, start, i, k)
<1> DEFINE x == k - 1 - start
           i == x % n
           q == x \div n
<1>1. x \in Int /\ start = k - 1 - x
  OBVIOUS
<1> HIDE DEF x
<1>2. q \in Int /\ i \in 0 .. n - 1 /\ x = q * n + i
  BY <1>1
<1> HIDE DEF i, q
<1>3. start + i = (-q) * n + (k - 1)
  <2> DEFINE m == q * n
  <2>1. m \in Int /\ (-q) * n = -m
    BY <1>2
  <2>2. x = m + i
    BY <1>2
  <2> HIDE DEF m
  <2> QED
    BY <1>1, <1>2, <2>1, <2>2
<1>4. start + i \in Int /\ -q \in Int /\ k - 1 \in Int /\ 0 <= k - 1 /\ k - 1 < n
  BY <1>2
<1>5. (start + i) % n = k - 1
  BY <1>3, <1>4, RemainderUnique
<1>6. LeadsTo(n, start, i, k)
  BY <1>4, <1>5 DEF LeadsTo
<1> QED
  BY <1>2, <1>6

\* The walk meets a routable backend that has a point on the ring.
LEMMA WalkFinds ==
  ASSUME NEW p, NEW n \in Nat \ {0}, Len(p) = n, NEW start \in Nat, NEW cs,
         NEW k \in 1 .. n, p[k].id \in cs
  PROVE  \E i \in 0 .. n - 1 : PC!Found(p, start, cs, i)
<1> DEFINE S == {i \in 0 .. n - 1 : PC!OnWalk(p, start, i) \in cs}
           m == Min(S)
<1>1. PICK i \in 0 .. n - 1 : LeadsTo(n, start, i, k)
  BY WalkReaches
<1>2. i \in S
  BY <1>1 DEF PC!OnWalk, LeadsTo
<1>3. S \in SUBSET Nat /\ S # {}
  BY <1>2
<1>4. m \in S /\ \A y \in S : m <= y
  BY <1>3, MinFacts
<1> HIDE DEF m
<1>5. m \in 0 .. n - 1 /\ PC!OnWalk(p, start, m) \in cs
  BY <1>4
<1>6. \A j \in 0 .. m - 1 : j \in 0 .. n - 1 /\ ~(m <= j)
  BY <1>5
<1>7. \A j \in 0 .. m - 1 : PC!OnWalk(p, start, j) \notin cs
  BY <1>4, <1>6
<1> QED
  BY <1>5, <1>7 DEF PC!Found

\* A sequence long enough, on which every backend has a point.
RingOf(p, n) ==
  /\ n \in Nat \ {0} /\ Len(p) = n /\ DOMAIN p = 1 .. n
  /\ \A b \in Backends : \E k \in 1 .. n : p[k].id = b

LEMMA RingHasAll ==
  ASSUME NEW hashOf \in [Backends \X VNodes -> Hashes]
  PROVE  RingOf(PC!New(hashOf), Cardinality(Backends \X VNodes))
<1> DEFINE D == Backends \X VNodes
           at == [x \in D |-> [hash |-> hashOf[x], id |-> x[1]]]
           n == Cardinality(D)
           p == PC!Sorted(at)
<1>1. IsFiniteSet(D) /\ D # {}
  <2>1. IsFiniteSet(Backends) /\ Backends # {} /\ IsFiniteSet(VNodes) /\ VNodes # {}
    BY WeightsAssumption, StrategiesAssumption
  <2>2. IsFiniteSet(D)
    BY <2>1, FS_Product
  <2>3. PICK b \in Backends, v \in VNodes : TRUE
    BY <2>1
  <2>4. <<b, v>> \in D
    OBVIOUS
  <2> QED
    BY <2>2, <2>4
<1>2. at \in [D -> PC!Point]
  BY DEF PC!Point
<1>3. n \in Nat \ {0}
  BY <1>1, FS_CardinalityType, FS_EmptySet
<1>4. PC!New(hashOf) = p
  BY DEF PC!New
<1>5. \A b \in Backends, v \in VNodes : <<b, v>> \in D /\ at[<<b, v>>].id = b
  OBVIOUS
<1> HIDE DEF D, at
<1>6. \A x \in D : DOMAIN p = 1 .. n /\ \E i \in 1 .. n : p[i] = at[x]
  BY <1>1, <1>2, PointIsPlaced
<1>7. DOMAIN p = 1 .. n
  BY <1>1, <1>6
<1>8. Len(p) = n
  BY <1>3, <1>7
<1>9. \A b \in Backends : \E k \in 1 .. n : p[k].id = b
  <2> SUFFICES ASSUME NEW b \in Backends PROVE \E k \in 1 .. n : p[k].id = b
    OBVIOUS
  <2>1. PICK v \in VNodes : TRUE
    BY StrategiesAssumption
  <2>2. <<b, v>> \in D /\ at[<<b, v>>].id = b
    BY <1>5
  <2>3. PICK k \in 1 .. n : p[k] = at[<<b, v>>]
    BY <1>6, <2>2
  <2> QED
    BY <2>2, <2>3
<1> QED
  BY <1>3, <1>4, <1>7, <1>8, <1>9 DEF RingOf, D

-----------------------------------------------------------------------------
\* The requests that count as connections.
SentOut(s) == {r \in Requests : s[r].at = "sent"}

\* The inductive invariant: every backend is on the ring, and the connections can be
\* counted.
SelectInv ==
  /\ PrefixInv
  /\ \E n : RingOf(points, n)
  /\ IsFiniteSet(SentOut(looking))

LEMMA SelectInitInv == PC!Init => SelectInv
<1> SUFFICES ASSUME PC!Init PROVE SelectInv
  OBVIOUS
<1>1. PICK hashOf \in [Backends \X VNodes -> Hashes] : points = PC!New(hashOf)
  BY DEF PC!Init
<1>2. \E n : RingOf(points, n)
  BY <1>1, RingHasAll
<1>3. SentOut(looking) = {}
  BY DEF PC!Init, PC!Idle, SentOut
<1> QED
  BY <1>2, <1>3, FS_EmptySet, PrefixInitInv DEF SelectInv

LEMMA SelectStepInv == SelectInv /\ [PC!Next]_(PC!vars) => SelectInv'
<1> SUFFICES ASSUME SelectInv, [PC!Next]_(PC!vars) PROVE SelectInv'
  OBVIOUS
<1>1. PrefixInv /\ IsFiniteSet(SentOut(looking)) /\ \E n : RingOf(points, n)
  BY DEF SelectInv
<1>2. PrefixInv'
  BY <1>1, PrefixStepInv
<1>3. points' = points
  BY DEF PC!Next, PC!vars, PC!Arrive, PC!Claim, PC!Ends
<1>4. \E r : \A q \in Requests \ {r} : looking'[q] = looking[q]
  <2>1. looking \in [Requests -> PC!Handler]
    BY <1>1 DEF PrefixInv, LookupsOK
  <2>2. CASE UNCHANGED PC!vars
    BY <2>2 DEF PC!vars
  <2>3. ASSUME NEW r \in Requests, NEW h, looking' = [looking EXCEPT ![r] = h]
        PROVE  \A q \in Requests \ {r} : looking'[q] = looking[q]
    BY <2>1, <2>3
  <2>4. ASSUME NEW r \in Requests, NEW body, NEW routable, PC!Arrive(r, body, routable)
        PROVE  \E h : looking' = [looking EXCEPT ![r] = h]
    BY <2>4 DEF PC!Arrive
  <2>5. ASSUME NEW r \in Requests, NEW b, PC!Claim(r, b)
        PROVE  \E h : looking' = [looking EXCEPT ![r] = h]
    BY <2>5 DEF PC!Claim
  <2>6. ASSUME NEW r \in Requests, PC!Ends(r)
        PROVE  \E h : looking' = [looking EXCEPT ![r] = h]
    BY <2>6 DEF PC!Ends
  <2> QED
    BY <2>2, <2>3, <2>4, <2>5, <2>6 DEF PC!Next
<1>5. IsFiniteSet(SentOut(looking'))
  <2>1. PICK r : \A q \in Requests \ {r} : looking'[q] = looking[q]
    BY <1>4
  <2>2. SentOut(looking') \in SUBSET (SentOut(looking) \union {r})
    BY <2>1 DEF SentOut
  <2>3. IsFiniteSet(SentOut(looking) \union {r})
    BY <1>1, FS_AddElement
  <2> QED
    BY <2>2, <2>3, FS_Subset
<1> QED
  BY <1>1, <1>2, <1>3, <1>5 DEF SelectInv

\* Among candidates whose connections can be counted one has the fewest.
LEMMA FewestExists ==
  ASSUME NEW cs \in SUBSET Nat, cs # {}, \A b \in cs : PC!Active(b) \in Nat
  PROVE  \E b \in cs : PC!FewestConnections(cs, b)
<1> DEFINE S == {PC!Active(b) : b \in cs}
           m == Min(S)
           T == {b \in cs : PC!Active(b) = m}
           f == Min(T)
<1>1. S \in SUBSET Nat /\ S # {}
  OBVIOUS
<1>2. m \in S /\ \A y \in S : m <= y
  BY <1>1, MinFacts
<1>3. \A b \in cs : PC!Active(b) \in S
  OBVIOUS
<1>4. T \in SUBSET Nat /\ T # {}
  BY <1>2
<1> HIDE DEF m
<1>5. f \in T /\ \A y \in T : f <= y
  BY <1>4, MinFacts
<1> HIDE DEF f
<1>6. f \in cs /\ PC!Active(f) = m
  BY <1>5
<1>7. \A c \in cs : m <= PC!Active(c)
  BY <1>2, <1>3
<1>8. \A c \in cs : PC!Active(c) = m => f <= c
  BY <1>5
<1>9. m \in Nat
  BY <1>1, <1>2
<1>10. \A c \in cs : PC!Active(f) < PC!Active(c) \/ (PC!Active(f) = PC!Active(c) /\ f <= c)
  BY <1>6, <1>7, <1>8, <1>9
<1> QED
  BY <1>6, <1>10 DEF PC!FewestConnections

LEMMA SelectInvSelects == SelectInv => PC!AlwaysSelects
<1> SUFFICES ASSUME SelectInv, NEW r \in Requests, looking[r].cands # {}
             PROVE  \E b \in looking[r].cands : PC!Selected(looking[r], b)
  BY DEF PC!AlwaysSelects
<1> DEFINE h == looking[r]
           cs == h.cands
<1>1. cs \in SUBSET Backends /\ cs \in SUBSET Nat /\ cs # {}
  <2>1. h \in PC!Handler
    BY DEF SelectInv, PrefixInv, LookupsOK
  <2> QED
    BY <2>1, WeightsAssumption DEF PC!Handler
<1>2. CASE h.prefix = <<>>
  <2>1. ASSUME NEW b \in cs PROVE PC!Active(b) \in Nat
    <3> DEFINE S == {q \in Requests : looking[q].at = "sent" /\ looking[q].backend = b}
    <3>1. S \in SUBSET SentOut(looking)
      BY DEF SentOut
    <3>2. Cardinality(S) \in Nat
      BY <3>1, FS_Subset, FS_CardinalityType DEF SelectInv
    <3> QED
      BY <3>2, SameRingLibrary DEF PC!Active
  <2> HIDE DEF cs
  <2>2. \E b \in cs : PC!FewestConnections(cs, b)
    BY <1>1, <2>1, FewestExists
  <2> QED
    BY <1>2, <2>2 DEF PC!Selected, cs
<1>3. CASE h.prefix # <<>>
  <2>1. PICK n : RingOf(points, n)
    BY DEF SelectInv
  <2> DEFINE start == PC!StartOf(points, keyOf[h.prefix])
  <2>2. n \in Nat \ {0} /\ Len(points) = n /\ DOMAIN points = 1 .. n
    BY <2>1 DEF RingOf
  <2>3. start \in Nat
    <3> DEFINE S == {i \in DOMAIN points : points[i].hash < keyOf[h.prefix]}
    <3>1. S \in SUBSET (1 .. n) /\ IsFiniteSet(1 .. n)
      BY <2>2, FS_Interval
    <3>2. Cardinality(S) \in Nat
      BY <3>1, FS_Subset, FS_CardinalityType
    <3> QED
      BY <3>2, SameRingLibrary DEF PC!StartOf
  <2>4. PICK b \in cs : TRUE
    BY <1>1
  <2>5. PICK k \in 1 .. n : points[k].id = b
    BY <1>1, <2>1, <2>4 DEF RingOf
  <2> HIDE DEF start, cs
  <2>6. PICK i \in 0 .. n - 1 : PC!Found(points, start, cs, i)
    BY <2>2, <2>3, <2>4, <2>5, WalkFinds
  <2>7. PC!OnWalk(points, start, i) \in cs
    BY <2>6 DEF PC!Found
  <2> QED
    BY <1>3, <2>2, <2>6, <2>7 DEF PC!Selected, start, cs
<1> QED
  BY <1>2, <1>3

\* A request with a candidate left is never turned away: whatever the hashes are, every
\* backend has a point on the ring, which the walk reaches within one round from any
\* key, and a request without a prefix has a least loaded candidate.
THEOREM SelectFinds == StrategySpec => []AlwaysSelects
<1> DEFINE I == strategy = "prefix_cache" => SelectInv
<1>1. StrategyInit => I
  BY SelectInitInv DEF StrategyInit
<1>2. I /\ [StrategyNext]_strategyVars => I'
  <2> SUFFICES ASSUME I, [StrategyNext]_strategyVars, strategy' = "prefix_cache"
               PROVE  SelectInv'
    OBVIOUS
  <2>1. strategy = "prefix_cache" /\ [PC!Next]_(PC!vars)
    BY DEF StrategyNext, strategyVars, prefixVars, PC!vars
  <2> QED
    BY <2>1, SelectStepInv
<1>3. I => AlwaysSelects
  BY SelectInvSelects DEF AlwaysSelects
<1> QED
  BY <1>1, <1>2, <1>3, PTL DEF StrategySpec

-----------------------------------------------------------------------------
(* The ring is sorted *)

\* How many points there are up to that of x grows along the order.
LEMMA MoreAfter ==
  ASSUME NEW D, IsFiniteSet(D), NEW at \in [D -> PC!Point], NEW s \in PC!Point, NEW y \in D,
         Precedes(s, at[y])
  PROVE  Cardinality(UpToPoint(at, s)) < Cardinality(UpToPoint(at, at[y]))
<1> DEFINE S == UpToPoint(at, s)
           T == UpToPoint(at, at[y])
           U == T \ {y}
<1>1. DOMAIN at = D /\ \A x \in D : at[x] \in PC!Point
  OBVIOUS
<1>2. y \in T
  BY <1>1, PointOrder DEF UpToPoint
<1>3. S \in SUBSET U
  <2> SUFFICES ASSUME NEW x \in D, PC!PointBefore(at[x], s)
               PROVE  x # y /\ PC!PointBefore(at[x], at[y])
    BY <1>1 DEF UpToPoint
  <2> QED
    BY <1>1, PointOrder DEF Precedes
<1>4. IsFiniteSet(T) /\ IsFiniteSet(U)
  BY <1>1, PointCounts, FS_Subset
<1> HIDE DEF T
<1>5. Cardinality(T) \in Nat /\ Cardinality(U) \in Nat /\ Cardinality(U) = Cardinality(T) - 1
  BY <1>2, <1>4, OneLess
<1>6. Cardinality(S) <= Cardinality(U) /\ Cardinality(S) \in Nat
  BY <1>1, <1>3, <1>4, FS_Subset, PointCounts
<1>7. Cardinality(S) < Cardinality(T)
  BY <1>5, <1>6
<1> QED
  BY <1>7 DEF T

\* Of some points one is the last.
LEMMA LastPoint ==
  ASSUME NEW D, IsFiniteSet(D), NEW at \in [D -> PC!Point], NEW B \in SUBSET D, B # {}
  PROVE  \E y \in B : B \in SUBSET UpToPoint(at, at[y])
<1> DEFINE u == [x \in D |-> Cardinality(UpToPoint(at, at[x]))]
           S == {u[x] : x \in B}
           m == Max(S)
<1>1. DOMAIN at = D /\ \A x \in D : at[x] \in PC!Point
  OBVIOUS
<1>2. \A x \in D : u[x] \in Nat /\ u[x] <= Cardinality(D)
  BY <1>1, PointCounts
<1>3. ASSUME NEW x \in D, NEW y \in D, Precedes(at[x], at[y]) PROVE u[x] < u[y]
  BY <1>1, <1>3, MoreAfter
<1> HIDE DEF u
<1>4. S \in SUBSET Nat /\ S # {} /\ \A y \in S : y <= Cardinality(D)
  BY <1>2
<1>5. Cardinality(D) \in Nat
  BY FS_CardinalityType
<1>6. m \in S /\ \A y \in S : y <= m
  BY <1>4, <1>5, MaxFacts
<1> HIDE DEF m
<1>7. PICK y \in B : u[y] = m
  BY <1>6
<1>8. \A z \in B : u[z] <= u[y]
  BY <1>6, <1>7
<1>9. ASSUME NEW z \in B PROVE PC!PointBefore(at[z], at[y])
  <2>1. z \in D /\ y \in D /\ u[z] \in Nat /\ u[y] \in Nat
    BY <1>2
  <2>2. ~(u[y] < u[z])
    BY <1>8, <2>1
  <2>3. ~Precedes(at[y], at[z])
    BY <1>3, <2>1, <2>2
  <2> QED
    BY <1>1, <2>1, <2>3, PointOrder DEF Precedes
<1> QED
  BY <1>1, <1>9 DEF UpToPoint

\* There is an i-th point for every i.
LEMMA NthExists ==
  ASSUME NEW D, IsFiniteSet(D), NEW at \in [D -> PC!Point], NEW i \in 1 .. Cardinality(D)
  PROVE  \E p \in PC!Point : IsNth(at, p, i)
<1> DEFINE u == [x \in D |-> Cardinality(UpToPoint(at, at[x]))]
           S == {k \in Nat : i <= k /\ \E x \in D : u[x] = k}
           m == Min(S)
<1>1. DOMAIN at = D /\ (\A x \in D : at[x] \in PC!Point) /\ Cardinality(D) \in Nat /\ i \in Nat \ {0}
  BY FS_CardinalityType
<1>2. \A x \in D : u[x] \in Nat
  BY <1>1, PointCounts
<1>3. D # {}
  BY <1>1, FS_EmptySet
<1>4. S # {}
  <2>1. PICK y \in D : D \in SUBSET UpToPoint(at, at[y])
    BY <1>3, LastPoint
  <2>2. UpToPoint(at, at[y]) = D
    BY <1>1, <2>1 DEF UpToPoint
  <2>3. u[y] = Cardinality(D)
    BY <2>2
  <2> HIDE DEF u
  <2> QED
    BY <1>1, <2>3
<1>5. m \in S /\ \A y \in S : m <= y
  BY <1>4, MinFacts
<1> HIDE DEF m
<1>6. PICK x \in D : u[x] = m
  BY <1>5
<1> DEFINE p == at[x]
           B == BeforePoint(at, p)
<1>7. p \in PC!Point /\ IsFiniteSet(B) /\ Cardinality(B) \in Nat /\ B \in SUBSET D
  BY <1>1, PointCounts DEF BeforePoint
<1>8. i <= Cardinality(UpToPoint(at, p))
  BY <1>5, <1>6
<1>9. Cardinality(B) < i
  <2> SUFFICES ASSUME ~(Cardinality(B) < i) PROVE FALSE
    OBVIOUS
  <2>1. i <= Cardinality(B)
    BY <1>1, <1>7
  <2>2. B # {}
    BY <1>1, <2>1, FS_EmptySet
  <2> HIDE DEF B
  <2>3. PICK y \in B : B \in SUBSET UpToPoint(at, at[y])
    BY <1>7, <2>2, LastPoint
  <2>4. y \in D /\ Precedes(at[y], p)
    BY <1>1, <2>3 DEF B, BeforePoint, Precedes
  <2>5. u[y] < u[x]
    BY <1>1, <1>7, <2>4, MoreAfter
  <2>6. Cardinality(B) <= u[y]
    BY <1>1, <2>3, <2>4, PointCounts, FS_Subset
  <2> HIDE DEF u
  <2>7. u[y] \in S
    BY <1>1, <1>2, <1>7, <2>1, <2>4, <2>6
  <2> QED
    BY <1>2, <1>5, <1>6, <2>4, <2>5, <2>7
<1> QED
  BY <1>7, <1>8, <1>9 DEF IsNth

\* The arrangement, point by point.
LEMMA SortedFacts ==
  ASSUME NEW D, IsFiniteSet(D), NEW at \in [D -> PC!Point]
  PROVE  /\ DOMAIN PC!Sorted(at) = 1 .. Cardinality(D)
         /\ \A i \in 1 .. Cardinality(D) :
              /\ PC!Sorted(at)[i] \in PC!Point
              /\ \A p \in PC!Point : PC!Sorted(at)[i] = p <=> IsNth(at, p, i)
<1>1. PC!Sorted(at) = [k \in 1 .. Cardinality(D) |-> CHOOSE q \in PC!Point : IsNth(at, q, k)]
  BY SortedByRank
<1>2. Cardinality(D) \in Nat
  BY FS_CardinalityType
<1>3. ASSUME NEW i \in 1 .. Cardinality(D)
      PROVE  /\ PC!Sorted(at)[i] \in PC!Point
             /\ \A p \in PC!Point : PC!Sorted(at)[i] = p <=> IsNth(at, p, i)
  <2> DEFINE c == CHOOSE q \in PC!Point : IsNth(at, q, i)
  <2>1. c \in PC!Point /\ IsNth(at, c, i)
    <3>1. \E q \in PC!Point : IsNth(at, q, i)
      BY NthExists
    <3> QED
      BY <3>1
  <2>2. PC!Sorted(at)[i] = c
    BY <1>1
  <2> HIDE DEF c
  <2>3. i \in Nat
    BY <1>2
  <2>4. \A p \in PC!Point : IsNth(at, p, i) => p = c
    BY <2>1, <2>3, OneNth
  <2> QED
    BY <2>1, <2>2, <2>4
<1> QED
  BY <1>1, <1>3

-----------------------------------------------------------------------------
\* The points are in order.
InOrder(p) == \A i, j \in DOMAIN p : i <= j => PC!PointBefore(p[i], p[j])

\* Every virtual node has its point, as often as points coincide.
HasPoints(p, hashOf) ==
  \A q \in PC!Point :
    Cardinality({i \in DOMAIN p : p[i] = q})
      = Cardinality({x \in Backends \X VNodes : hashOf[x] = q.hash /\ x[1] = q.id})

\* The binary search finds where the points before the key end.
Partitioned(p) ==
  \A key \in Nat, i \in DOMAIN p : i <= PC!StartOf(p, key) <=> p[i].hash < key

LEMMA SortedInOrder ==
  ASSUME NEW D, IsFiniteSet(D), NEW at \in [D -> PC!Point]
  PROVE  InOrder(PC!Sorted(at))
<1> DEFINE p == PC!Sorted(at)
           n == Cardinality(D)
<1>1. DOMAIN p = 1 .. n /\ n \in Nat /\ \A i \in 1 .. n : p[i] \in PC!Point /\ IsNth(at, p[i], i)
  BY SortedFacts, FS_CardinalityType
<1> HIDE DEF p, n
<1>2. ASSUME NEW i \in 1 .. n, NEW j \in 1 .. n, i <= j
      PROVE  PC!PointBefore(p[i], p[j])
  <2> SUFFICES ASSUME ~PC!PointBefore(p[i], p[j]) PROVE FALSE
    OBVIOUS
  <2>1. p[i] \in PC!Point /\ p[j] \in PC!Point /\ i \in Nat /\ j \in Nat
    BY <1>1
  <2>2. Precedes(p[j], p[i])
    BY <2>1, PointOrder DEF Precedes
  <2>3. UpToPoint(at, p[j]) \in SUBSET BeforePoint(at, p[i])
    <3> SUFFICES ASSUME NEW x \in D, PC!PointBefore(at[x], p[j])
                 PROVE  at[x] # p[i] /\ PC!PointBefore(at[x], p[i])
      BY DEF UpToPoint, BeforePoint
    <3>1. at[x] \in PC!Point
      OBVIOUS
    <3> QED
      BY <2>1, <2>2, <3>1, PointOrder DEF Precedes
  <2>4. DOMAIN at = D
    OBVIOUS
  <2>5. Cardinality(UpToPoint(at, p[j])) <= Cardinality(BeforePoint(at, p[i]))
        /\ Cardinality(UpToPoint(at, p[j])) \in Nat /\ Cardinality(BeforePoint(at, p[i])) \in Nat
    BY <2>3, <2>4, PointCounts, FS_Subset
  <2> QED
    BY <1>1, <1>2, <2>1, <2>5 DEF IsNth
<1>3. InOrder(p)
  BY <1>1, <1>2 DEF InOrder
<1> QED
  BY <1>3 DEF p

LEMMA SortedHasPoints ==
  ASSUME NEW D, IsFiniteSet(D), NEW at \in [D -> PC!Point], NEW q \in PC!Point
  PROVE  Cardinality({i \in DOMAIN PC!Sorted(at) : PC!Sorted(at)[i] = q})
           = Cardinality({x \in D : at[x] = q})
<1> DEFINE p == PC!Sorted(at)
           n == Cardinality(D)
           U == UpToPoint(at, q)
           B == BeforePoint(at, q)
           E == {x \in D : at[x] = q}
           I == {i \in DOMAIN p : p[i] = q}
           lo == Cardinality(B) + 1
           hi == Cardinality(U)
<1>1. DOMAIN at = D /\ n \in Nat /\ DOMAIN p = 1 .. n
      /\ \A i \in 1 .. n : p[i] = q <=> IsNth(at, q, i)
  BY SortedFacts, FS_CardinalityType
<1>2. IsFiniteSet(U) /\ IsFiniteSet(B) /\ Cardinality(B) \in Nat /\ hi \in Nat /\ hi <= n
  BY <1>1, PointCounts
<1>3. IsFiniteSet(E)
  BY FS_Subset
<1>4. U = B \union E /\ B \intersect E = {}
  <2>1. PC!PointBefore(q, q)
    BY PointOrder
  <2> QED
    BY <1>1, <2>1 DEF UpToPoint, BeforePoint
<1> HIDE DEF U, B, E, p
<1>5. Cardinality(U) = Cardinality(B) + Cardinality(E) /\ Cardinality(E) \in Nat
  <2>1. Cardinality(B \union E) = Cardinality(B) + Cardinality(E) - Cardinality(B \intersect E)
    BY <1>2, <1>3, FS_Union
  <2>2. Cardinality(B \intersect E) = 0
    BY <1>4, FS_EmptySet
  <2>3. Cardinality(E) \in Nat
    BY <1>3, FS_CardinalityType
  <2> QED
    BY <1>2, <1>4, <2>1, <2>2, <2>3
<1>6. I = lo .. hi
  <2>1. \A i \in 1 .. n : p[i] = q <=> i \in lo .. hi
    BY <1>1, <1>2 DEF IsNth, U, B
  <2>2. \A i \in lo .. hi : i \in 1 .. n
    BY <1>1, <1>2
  <2> QED
    BY <1>1, <2>1, <2>2
<1>7. Cardinality(lo .. hi) = hi - lo + 1
  <2>1. \A x, y \in Int : Cardinality(x .. y) = IF x > y THEN 0 ELSE y - x + 1
    BY FS_Interval
  <2>2. lo \in Int /\ hi \in Int /\ (lo > hi => hi - lo + 1 = 0)
    BY <1>2, <1>5
  <2> HIDE DEF lo, hi
  <2> QED
    BY <2>1, <2>2
<1>8. Cardinality(I) = Cardinality(E)
  <2>1. hi - lo + 1 = Cardinality(E)
    BY <1>2, <1>5
  <2> HIDE DEF I, lo, hi
  <2> QED
    BY <1>6, <1>7, <2>1
<1> QED
  BY <1>8 DEF p, E

\* A set of positions with everything before them is a beginning.
LEMMA Beginning ==
  ASSUME NEW n \in Nat, NEW S \in SUBSET (1 .. n),
         \A j \in S : \A i \in 1 .. n : i <= j => i \in S
  PROVE  Cardinality(S) \in Nat /\ \A i \in 1 .. n : i \in S <=> i <= Cardinality(S)
<1>1. CASE S = {}
  <2>1. Cardinality(S) = 0
    BY <1>1, FS_EmptySet
  <2> QED
    BY <1>1, <2>1
<1>2. CASE S # {}
  <2> DEFINE m == Max(S)
  <2>1. S \in SUBSET Nat /\ \A y \in S : y <= n
    OBVIOUS
  <2>2. m \in S /\ \A y \in S : y <= m
    BY <1>2, <2>1, MaxFacts
  <2> HIDE DEF m
  <2>3. m \in 1 .. n /\ S = 1 .. m
    <3>1. m \in 1 .. n
      BY <2>2
    <3>2. \A i \in 1 .. m : i \in S
      BY <2>2, <3>1
    <3>3. \A i \in S : i \in 1 .. m
      BY <2>2, <3>1
    <3> QED
      BY <3>1, <3>2, <3>3
  <2>4. Cardinality(1 .. m) = m
    BY <2>3, FS_Interval
  <2> QED
    BY <2>3, <2>4
<1> QED
  BY <1>1, <1>2

LEMMA OrderPartitions ==
  ASSUME NEW p, NEW n \in Nat, DOMAIN p = 1 .. n, InOrder(p),
         \A i \in 1 .. n : p[i].hash \in Nat
  PROVE  Partitioned(p)
<1> SUFFICES ASSUME NEW key \in Nat, NEW k \in DOMAIN p
             PROVE  k <= PC!StartOf(p, key) <=> p[k].hash < key
  BY DEF Partitioned
<1> DEFINE S == {i \in DOMAIN p : p[i].hash < key}
<1>1. S \in SUBSET (1 .. n)
  OBVIOUS
<1>2. ASSUME NEW j \in S, NEW i \in 1 .. n, i <= j PROVE i \in S
  <2>1. PC!PointBefore(p[i], p[j]) /\ p[j].hash < key /\ p[i].hash \in Nat /\ p[j].hash \in Nat
    BY <1>2 DEF InOrder
  <2>2. p[i].hash <= p[j].hash
    BY <2>1 DEF PC!PointBefore
  <2> QED
    BY <2>1, <2>2
<1>3. k \in S <=> k <= Cardinality(S)
  <2> HIDE DEF S
  <2> QED
    BY <1>1, <1>2, Beginning
<1>4. PC!StartOf(p, key) = Cardinality(S)
  BY SameRingLibrary DEF PC!StartOf
<1>5. k \in S <=> p[k].hash < key
  OBVIOUS
<1> QED
  BY <1>3, <1>4, <1>5

\* The ring is what sorting the points of all virtual nodes gives: every point is on it,
\* as often as hashes coincide, in the order of hashes and backends; so the number of
\* points before a key is where the binary search of lookup has to start.
RingSorted ==
  strategy = "prefix_cache" =>
    /\ InOrder(points) /\ Partitioned(points)
    /\ \E hashOf \in [Backends \X VNodes -> Hashes] : HasPoints(points, hashOf)

\* HashRing::new leaves the ring sorted and complete, and nothing changes it afterwards:
\* lookup may search it by halving, for any number of virtual nodes and any hashes.
THEOREM RingIsSorted == StrategySpec => []RingSorted
<1>1. ASSUME NEW hashOf \in [Backends \X VNodes -> Hashes]
      PROVE  /\ InOrder(PC!New(hashOf)) /\ Partitioned(PC!New(hashOf))
             /\ HasPoints(PC!New(hashOf), hashOf)
  <2> DEFINE D == Backends \X VNodes
             at == [x \in D |-> [hash |-> hashOf[x], id |-> x[1]]]
             n == Cardinality(D)
             p == PC!Sorted(at)
  <2>1. IsFiniteSet(D) /\ n \in Nat
    <3>1. IsFiniteSet(Backends) /\ IsFiniteSet(VNodes)
      BY WeightsAssumption, StrategiesAssumption
    <3> QED
      BY <3>1, FS_Product, FS_CardinalityType
  <2>2. at \in [D -> PC!Point]
    BY DEF PC!Point
  <2>3. PC!New(hashOf) = p
    BY DEF PC!New
  <2>4. ASSUME NEW q \in PC!Point
        PROVE  {x \in D : at[x] = q} = {x \in D : hashOf[x] = q.hash /\ x[1] = q.id}
    <3>1. \A x \in D : at[x] = q <=> hashOf[x] = q.hash /\ x[1] = q.id
      BY DEF PC!Point
    <3> QED
      BY <3>1
  <2> HIDE DEF at
  <2>5. InOrder(p) /\ DOMAIN p = 1 .. n /\ \A i \in 1 .. n : p[i] \in PC!Point
    BY <2>1, <2>2, SortedInOrder, SortedFacts
  <2>6. ASSUME NEW q \in PC!Point
        PROVE  Cardinality({i \in DOMAIN p : p[i] = q})
                 = Cardinality({x \in D : hashOf[x] = q.hash /\ x[1] = q.id})
    BY <2>1, <2>2, <2>4, SortedHasPoints
  <2> HIDE DEF p
  <2>7. \A i \in 1 .. n : p[i].hash \in Nat
    BY <2>5, StrategiesAssumption DEF PC!Point
  <2>8. Partitioned(p)
    <3> HIDE DEF n
    <3> QED
      BY <2>1, <2>5, <2>7, OrderPartitions
  <2>9. HasPoints(p, hashOf)
    BY <2>6 DEF HasPoints
  <2> QED
    BY <2>3, <2>5, <2>8, <2>9
<1>2. StrategyInit => RingSorted
  <2> SUFFICES ASSUME StrategyInit, strategy = "prefix_cache"
               PROVE  /\ InOrder(points) /\ Partitioned(points)
                      /\ \E hashOf \in [Backends \X VNodes -> Hashes] : HasPoints(points, hashOf)
    BY DEF RingSorted
  <2>1. PICK hashOf \in [Backends \X VNodes -> Hashes] : points = PC!New(hashOf)
    BY DEF StrategyInit, PC!Init
  <2> QED
    BY <1>1, <2>1
<1>3. RingSorted /\ [StrategyNext]_strategyVars => RingSorted'
  <2>1. [StrategyNext]_strategyVars => strategy' = strategy /\ points' = points
    BY DEF StrategyNext, strategyVars, prefixVars, PC!Next, PC!Arrive, PC!Claim, PC!Ends
  <2> QED
    BY <2>1 DEF RingSorted
<1> QED
  BY <1>2, <1>3, PTL DEF StrategySpec

-----------------------------------------------------------------------------
(* Round robin *)

LEMMA SameRotation ==
  /\ \A T : RR!TotalWeight(T) = TotalWeight(T)
  /\ \A b : RR!Share(b) = Share(b)
  /\ \A x, T : RR!WeightedPick(x, T) = WeightedPick(x, T)
  /\ \A c : RR!FetchAdd(c) = FetchAdd(c)
  /\ \A S : RR!Cardinality(S) = Cardinality(S)
<1>1. \A b : RR!Share(b) = Share(b)
  BY DEF RR!Share, RR!Max, Share, Max
<1>2. RR!Shares = Shares
  BY <1>1 DEF RR!Shares, Shares
<1>3. \A T : RR!TotalWeight(T) = SumOf(RR!Shares, T)
  BY DEF RR!TotalWeight, RR!MapThenSumSet, RR!MapThenFoldSet, SumOf, Summing, First
<1>4. \A T : RR!TotalWeight(T) = TotalWeight(T)
  BY <1>2, <1>3, ShareFacts
<1>5. \A b, T : RR!Before(b, T) = Before(b, T)
  BY <1>4 DEF RR!Before, Before
<1>6. ASSUME NEW x, NEW T PROVE RR!WeightedPick(x, T) = WeightedPick(x, T)
  <2>1. {b \in T : x < RR!Before(b, T) + RR!Share(b)} = {b \in T : x < Before(b, T) + Share(b)}
    BY <1>1, <1>5
  <2>2. \A S : RR!Min(S) = Min(S)
    BY DEF RR!Min, Min
  <2> QED
    BY <2>1, <2>2 DEF RR!WeightedPick, WeightedPick
<1>7. \A c : RR!FetchAdd(c) = FetchAdd(c)
  BY DEF RR!FetchAdd, FetchAdd
<1>8. \A S : RR!Cardinality(S) = Cardinality(S)
  BY DEF RR!Cardinality, Cardinality
<1> QED
  BY <1>1, <1>4, <1>6, <1>7, <1>8

\* A backend owns exactly its slots.
LEMMA OwnerUnique ==
  ASSUME NEW cs \in SUBSET Backends, NEW b \in cs, NEW slot \in Nat,
         Before(b, cs) <= slot, slot < Before(b, cs) + Share(b)
  PROVE  slot < TotalWeight(cs) /\ WeightedPick(slot, cs) = b
<1> DEFINE o == WeightedPick(slot, cs)
           P == {c \in cs : slot < Before(c, cs) + Share(c)}
           T == {c \in cs : c <= b}
<1>1. IsFiniteSet(cs) /\ cs \in SUBSET Nat /\ cs # {} /\ b \in Nat
  BY ShareFacts, FS_Subset
<1>2. \A S \in SUBSET cs : IsFiniteSet(S) /\ TotalWeight(S) \in Nat
  BY <1>1, FS_Subset, TotalFacts
<1>3. \A S \in SUBSET cs : \A U \in SUBSET S : TotalWeight(U) <= TotalWeight(S)
  <2>1. \A S \in SUBSET cs : \A x \in S : Shares[x] \in Nat
    BY ShareFacts
  <2> QED
    BY <1>2, <2>1, SumMonotone, ShareFacts
<1>4. Before(b, cs) + Share(b) = TotalWeight(T) /\ TotalWeight(T) <= TotalWeight(cs)
  BY <1>3, UpTo
<1>5. slot < TotalWeight(cs)
  BY <1>2, <1>4
<1>6. b \in P /\ P \in SUBSET Nat
  BY <1>1
<1>7. o \in P /\ \A y \in P : o <= y
  BY <1>6, MinFacts DEF WeightedPick
<1> HIDE DEF o
<1>8. o \in cs /\ o \in Nat /\ slot < Before(o, cs) + Share(o) /\ o <= b
  BY <1>1, <1>6, <1>7
<1>9. ~(o < b)
  <2> SUFFICES ASSUME o < b PROVE FALSE
    OBVIOUS
  <2> DEFINE U == {c \in cs : c <= o}
             V == {c \in cs : c < b}
  <2>1. U \in SUBSET V /\ V \in SUBSET cs
    <3>1. \A c \in cs : c <= o => c < b
      BY <1>1, <1>8
    <3> QED
      BY <3>1
  <2>2. TotalWeight(U) <= TotalWeight(V) /\ TotalWeight(U) \in Nat /\ TotalWeight(V) \in Nat
    BY <1>2, <1>3, <2>1
  <2>3. Before(o, cs) + Share(o) = TotalWeight(U)
    BY <1>8, UpTo
  <2>4. Before(b, cs) = TotalWeight(V)
    BY DEF Before
  <2> HIDE DEF U, V
  <2> QED
    BY <1>8, <2>2, <2>3, <2>4
<1>10. o = b
  BY <1>1, <1>8, <1>9
<1> QED
  BY <1>5, <1>10 DEF o

\* The slot of the d-th ticket after t, in a turn of w.
SlotOf(t, d, w) == (t + d) % w

LEMMA SlotFacts ==
  ASSUME NEW w \in Nat \ {0}, NEW t \in Nat
  PROVE  \E r \in 0 .. w - 1 : \A d \in 0 .. w - 1 :
           SlotOf(t, d, w) = IF r + d < w THEN r + d ELSE r + d - w
<1> DEFINE r == t % w
           q == t \div w
<1>1. r \in 0 .. w - 1 /\ q \in Int /\ t = q * w + r
  OBVIOUS
<1> HIDE DEF r, q
<1> DEFINE m == q * w
<1>2. m \in Int /\ (q + 1) * w = m + w
  BY <1>1
<1>3. t = m + r
  BY <1>1
<1>4. ASSUME NEW d \in 0 .. w - 1
      PROVE  SlotOf(t, d, w) = IF r + d < w THEN r + d ELSE r + d - w
  <2>1. t + d \in Int /\ r + d \in Int /\ r + d - w \in Int /\ q + 1 \in Int
    BY <1>1
  <2>2. CASE r + d < w
    <3>1. t + d = q * w + (r + d)
      <4> HIDE DEF m
      <4>1. t + d = m + (r + d)
        BY <1>1, <1>2, <1>3
      <4> QED
        BY <4>1 DEF m
    <3>2. 0 <= r + d
      BY <1>1
    <3>3. (t + d) % w = r + d
      BY <1>1, <2>1, <2>2, <3>1, <3>2, RemainderUnique
    <3> QED
      BY <2>2, <3>3 DEF SlotOf
  <2>3. CASE ~(r + d < w)
    <3> HIDE DEF m
    <3>1. t + d = (q + 1) * w + (r + d - w)
      BY <1>1, <1>2, <1>3
    <3>2. 0 <= r + d - w /\ r + d - w < w
      BY <1>1, <2>3
    <3>3. (t + d) % w = r + d - w
      BY <2>1, <3>1, <3>2, RemainderUnique
    <3> QED
      BY <2>3, <3>3 DEF SlotOf
  <2> QED
    BY <2>2, <2>3
<1> QED
  BY <1>1, <1>4

\* Along a turn every slot comes up exactly once.
EachSlotOnce(t, w) ==
  /\ \A d \in 0 .. w - 1 : SlotOf(t, d, w) \in 0 .. w - 1
  /\ \A d, e \in 0 .. w - 1 : SlotOf(t, d, w) = SlotOf(t, e, w) => d = e
  /\ \A s \in 0 .. w - 1 : \E d \in 0 .. w - 1 : SlotOf(t, d, w) = s

LEMMA SlotsPermuted ==
  ASSUME NEW w \in Nat \ {0}, NEW t \in Nat
  PROVE  EachSlotOnce(t, w)
<1>1. PICK r \in 0 .. w - 1 : \A d \in 0 .. w - 1 :
             SlotOf(t, d, w) = IF r + d < w THEN r + d ELSE r + d - w
  BY SlotFacts
<1>2. \A d \in 0 .. w - 1 : SlotOf(t, d, w) \in 0 .. w - 1
  BY <1>1
<1>3. ASSUME NEW d \in 0 .. w - 1, NEW e \in 0 .. w - 1, SlotOf(t, d, w) = SlotOf(t, e, w)
      PROVE  d = e
  BY <1>1, <1>3
<1>4. ASSUME NEW s \in 0 .. w - 1
      PROVE  \E d \in 0 .. w - 1 : SlotOf(t, d, w) = s
  <2> DEFINE d == IF r <= s THEN s - r ELSE s - r + w
  <2>1. d \in 0 .. w - 1 /\ (IF r + d < w THEN r + d ELSE r + d - w) = s
    OBVIOUS
  <2> QED
    BY <1>1, <2>1
<1> QED
  BY <1>2, <1>3, <1>4 DEF EachSlotOnce

\* The picks after the first p go to the owners of the slots from ticket t on.
Mapped(g, p, t, w, cs) ==
  \A d \in 0 .. w - 1 : g[p + 1 + d] = WeightedPick(SlotOf(t, d, w), cs)

\* The picks of b among the w after the first p.
PicksOf(g, p, w, b) == {i \in p + 1 .. p + w : g[i] = b}

\* In a turn, which starts at any ticket, everyone is picked as often as its share.
LEMMA TurnShares ==
  ASSUME NEW cs \in SUBSET Backends, NEW b \in cs, NEW w, w = TotalWeight(cs),
         NEW t \in Nat, NEW p \in Nat, NEW g, Mapped(g, p, t, w, cs)
  PROVE  /\ IsFiniteSet(PicksOf(g, p, w, b))
         /\ Cardinality(PicksOf(g, p, w, b)) = Share(b)
<1> DEFINE lo == Before(b, cs)
           sh == Share(b)
           Slots == lo .. lo + sh - 1
           S == PicksOf(g, p, w, b)
           f == [i \in S |-> SlotOf(t, i - p - 1, w)]
<1>1. w \in Nat \ {0} /\ lo \in Nat /\ sh \in Nat \ {0}
  BY TotalFacts, UpTo, ShareFacts
<1>2. /\ \A d \in 0 .. w - 1 : SlotOf(t, d, w) \in 0 .. w - 1
      /\ \A d, e \in 0 .. w - 1 : SlotOf(t, d, w) = SlotOf(t, e, w) => d = e
      /\ \A s \in 0 .. w - 1 : \E d \in 0 .. w - 1 : SlotOf(t, d, w) = s
  <2>1. EachSlotOnce(t, w)
    <3>1. w \in Nat \ {0}
      BY <1>1
    <3> QED
      BY <3>1, SlotsPermuted
  <2> QED
    BY <2>1, Zenon DEF EachSlotOnce
<1>3. ASSUME NEW s \in 0 .. w - 1
      PROVE  WeightedPick(s, cs) = b <=> s \in Slots
  <2>1. s \in Nat /\ s < TotalWeight(cs) /\ cs # {}
    BY <1>1
  <2>2. ASSUME WeightedPick(s, cs) = b PROVE lo <= s /\ s < lo + sh
    BY <2>1, <2>2, OwnerFacts
  <2>3. ASSUME lo <= s, s < lo + sh PROVE WeightedPick(s, cs) = b
    BY <2>1, <2>3, OwnerUnique
  <2> HIDE DEF lo, sh
  <2>4. s \in Slots <=> lo <= s /\ s < lo + sh
    BY <1>1, <2>1
  <2> QED
    BY <2>2, <2>3, <2>4
<1>4. \A s \in Slots : s \in 0 .. w - 1
  <2> SUFFICES ASSUME NEW s \in Slots PROVE s \in 0 .. w - 1
    OBVIOUS
  <2>1. s \in Nat /\ lo <= s /\ s < lo + sh
    BY <1>1
  <2>2. s < TotalWeight(cs)
    BY <2>1, OwnerUnique
  <2> QED
    BY <1>1, <2>1, <2>2
<1> HIDE DEF lo, sh, Slots
<1>5. \A i \in p + 1 .. p + w : i - p - 1 \in 0 .. w - 1 /\ i = p + 1 + (i - p - 1)
  BY <1>1
<1>6. \A d \in 0 .. w - 1 : p + 1 + d \in p + 1 .. p + w /\ (p + 1 + d) - p - 1 = d
  BY <1>1
<1>7. \A i \in p + 1 .. p + w : g[i] = b <=> SlotOf(t, i - p - 1, w) \in Slots
  <2> SUFFICES ASSUME NEW i \in p + 1 .. p + w
               PROVE  g[i] = b <=> SlotOf(t, i - p - 1, w) \in Slots
    OBVIOUS
  <2> DEFINE d == i - p - 1
  <2>1. d \in 0 .. w - 1 /\ i = p + 1 + d
    BY <1>5
  <2> HIDE DEF d
  <2>2. g[i] = WeightedPick(SlotOf(t, d, w), cs) /\ SlotOf(t, d, w) \in 0 .. w - 1
    BY <1>2, <2>1 DEF Mapped
  <2>3. g[i] = b <=> SlotOf(t, d, w) \in Slots
    BY <1>3, <2>2
  <2> QED
    BY <2>3 DEF d
<1>8. f \in [S -> Slots]
  BY <1>7 DEF PicksOf
<1>9. \A i, j \in S : f[i] = f[j] => i = j
  <2> SUFFICES ASSUME NEW i \in S, NEW j \in S, f[i] = f[j] PROVE i = j
    OBVIOUS
  <2> DEFINE d == i - p - 1
             e == j - p - 1
  <2>1. d \in 0 .. w - 1 /\ e \in 0 .. w - 1 /\ i = p + 1 + d /\ j = p + 1 + e
    BY <1>5 DEF PicksOf
  <2>2. SlotOf(t, d, w) = SlotOf(t, e, w)
    OBVIOUS
  <2> HIDE DEF d, e
  <2> QED
    BY <1>2, <2>1, <2>2
<1>10. \A s \in Slots : \E i \in S : f[i] = s
  <2> SUFFICES ASSUME NEW s \in Slots PROVE \E i \in S : f[i] = s
    OBVIOUS
  <2>1. PICK d \in 0 .. w - 1 : SlotOf(t, d, w) = s
    BY <1>2, <1>4
  <2> DEFINE i == p + 1 + d
  <2>2. i \in p + 1 .. p + w /\ i - p - 1 = d
    BY <1>6
  <2> HIDE DEF i
  <2>3. i \in S
    BY <1>7, <2>1, <2>2 DEF PicksOf
  <2> QED
    BY <2>1, <2>2, <2>3
<1> HIDE DEF f, S
<1>11. f \in Bijection(S, Slots)
  <2>1. f \in Injection(S, Slots)
    BY <1>8, <1>9 DEF Injection, IsInjective
  <2>2. f \in Surjection(S, Slots)
    BY <1>8, <1>10 DEF Surjection
  <2> QED
    BY <2>1, <2>2 DEF Bijection
<1>12. IsFiniteSet(S) /\ Cardinality(S) = sh
  <2>1. \A x, y \in Int : /\ IsFiniteSet(x .. y)
                          /\ Cardinality(x .. y) = IF x > y THEN 0 ELSE y - x + 1
    BY FS_Interval
  <2> DEFINE hi == lo + sh - 1
  <2>2. lo \in Int /\ hi \in Int /\ ~(lo > hi) /\ hi - lo + 1 = sh
    BY <1>1
  <2>3. IsFiniteSet(Slots) /\ Cardinality(Slots) = sh
    <3>1. Slots = lo .. hi
      BY DEF Slots
    <3> HIDE DEF hi
    <3>2. Cardinality(lo .. hi) = hi - lo + 1 /\ IsFiniteSet(lo .. hi)
      BY <2>1, <2>2
    <3> QED
      BY <2>2, <3>1, <3>2
  <2>4. IsFiniteSet(S)
    <3>1. IsFiniteSet(p + 1 .. p + w)
      BY <1>1, <2>1
    <3>2. S \in SUBSET (p + 1 .. p + w)
      BY DEF S, PicksOf
    <3> QED
      BY <3>1, <3>2, FS_Subset
  <2>5. ExistsBijection(S, Slots)
    BY <1>11 DEF ExistsBijection
  <2> QED
    BY <2>3, <2>4, <2>5, FS_Bijection
<1> QED
  BY <1>12 DEF S, sh

-----------------------------------------------------------------------------
\* d tickets after s, unless the counter has wrapped meanwhile; it wraps to 0.
Link(s, d, t) == (s + d < CounterSize => t = s + d) /\ (s + d = CounterSize => t = 0)

LEMMA LinkFacts ==
  ASSUME NEW c \in 0 .. CounterSize - 1
  PROVE  /\ FetchAdd(c) \in 0 .. CounterSize - 1
         /\ Link(c, 0, c)
         /\ \A s \in 0 .. CounterSize - 1, d \in Nat :
              Link(s, d, c) => Link(s, d + 1, FetchAdd(c))
<1>1. CounterSize \in Nat \ {0}
  BY WeightsAssumption
<1>2. FetchAdd(c) = IF c + 1 = CounterSize THEN 0 ELSE c + 1
  BY <1>1 DEF FetchAdd
<1> HIDE DEF FetchAdd
<1> QED
  BY <1>1, <1>2 DEF Link

PickRecord == [ticket : 0 .. CounterSize - 1, backend : Backends]

\* What is remembered are consecutive tickets, the latest ones, and what they were
\* mapped to.
RunOK(r, c, cs) ==
  /\ cs \in SUBSET Backends /\ c \in 0 .. CounterSize - 1 /\ r \in Seq(PickRecord)
  /\ \A i \in 1 .. Len(r) :
       r[i].backend = WeightedPick(r[i].ticket % TotalWeight(cs), cs)
  /\ \A i \in 1 .. Len(r) : Link(r[i].ticket, Len(r) + 1 - i, c)
  /\ \A i, j \in 1 .. Len(r) : i <= j => Link(r[i].ticket, j - i, r[j].ticket)

\* So it is for the end of what is remembered.
LEMMA SuffixOK ==
  ASSUME NEW r, NEW c, NEW cs, RunOK(r, c, cs), NEW a \in 0 .. Len(r),
         NEW l \in Seq(PickRecord), Len(l) = Len(r) - a,
         \A i \in 1 .. Len(l) : l[i] = r[a + i]
  PROVE  RunOK(l, c, cs)
<1>1. Len(r) \in Nat /\ Len(l) \in Nat
  BY LenProperties DEF RunOK
<1>2. \A i \in 1 .. Len(l) : /\ a + i \in 1 .. Len(r)
                             /\ Len(r) + 1 - (a + i) = Len(l) + 1 - i
  BY <1>1
<1>3. \A i, j \in 1 .. Len(l) : /\ i <= j => a + i <= a + j
                                /\ (a + j) - (a + i) = j - i
  BY <1>1
<1>4. \A i \in 1 .. Len(l) :
         l[i].backend = WeightedPick(l[i].ticket % TotalWeight(cs), cs)
  BY <1>2 DEF RunOK
<1>5. ASSUME NEW i \in 1 .. Len(l)
      PROVE  Link(l[i].ticket, Len(l) + 1 - i, c)
  <2>1. Link(r[a + i].ticket, Len(r) + 1 - (a + i), c)
    BY <1>2 DEF RunOK
  <2> QED
    BY <1>2, <2>1
<1>6. ASSUME NEW i \in 1 .. Len(l), NEW j \in 1 .. Len(l), i <= j
      PROVE  Link(l[i].ticket, j - i, l[j].ticket)
  <2>1. Link(r[a + i].ticket, (a + j) - (a + i), r[a + j].ticket)
    BY <1>2, <1>3, <1>6 DEF RunOK
  <2> QED
    BY <1>3, <2>1
<1> QED
  BY <1>4, <1>5, <1>6 DEF RunOK

LEMMA AppendOK ==
  ASSUME NEW r, NEW c, NEW cs, RunOK(r, c, cs), TotalWeight(cs) # 0
  PROVE  RunOK(Append(r, [ticket |-> c, backend |-> WeightedPick(c % TotalWeight(cs), cs)]),
               FetchAdd(c), cs)
<1> DEFINE w == TotalWeight(cs)
           e == [ticket |-> c, backend |-> WeightedPick(c % w, cs)]
           q == Append(r, e)
           n == Len(r)
           k == FetchAdd(c)
<1>1. cs \in SUBSET Backends /\ c \in 0 .. CounterSize - 1 /\ r \in Seq(PickRecord)
      /\ w \in Nat \ {0} /\ CounterSize \in Nat
  BY TotalFacts, WeightsAssumption DEF RunOK
<1>2. e \in PickRecord
  <2>1. cs # {}
    <3>1. SumOf(Shares, {}) = 0
      BY SumEmpty
    <3> QED
      BY <3>1, ShareFacts
  <2>2. c % w \in Nat /\ c % w < w
    BY <1>1
  <2>3. WeightedPick(c % w, cs) \in cs
    BY <1>1, <2>1, <2>2, OwnerFacts
  <2> QED
    BY <1>1, <2>3 DEF PickRecord
<1>3. e.ticket = c /\ e.backend = WeightedPick(c % w, cs)
  OBVIOUS
<1> HIDE DEF e
<1>4. /\ q \in Seq(PickRecord) /\ Len(q) = n + 1 /\ n \in Nat
      /\ \A i \in 1 .. n : q[i] = r[i]
      /\ q[n + 1] = e
  BY <1>1, <1>2, AppendProperties, LenProperties
<1> HIDE DEF q, n
<1>5. \A i \in 1 .. n + 1 : i \in 1 .. n \/ i = n + 1
  BY <1>4
<1>6. \A i \in 1 .. n : /\ r[i].backend = WeightedPick(r[i].ticket % w, cs)
                        /\ r[i].ticket \in 0 .. CounterSize - 1
                        /\ Link(r[i].ticket, n + 1 - i, c)
  <2>1. \A i \in 1 .. n : r[i] \in PickRecord
    BY <1>1, ElementOfSeq DEF n
  <2> QED
    BY <2>1 DEF RunOK, PickRecord, n
<1>7. k \in 0 .. CounterSize - 1 /\ Link(c, 0, c) /\ Link(c, 1, k)
      /\ \A s \in 0 .. CounterSize - 1, d \in Nat : Link(s, d, c) => Link(s, d + 1, k)
  <2>1. k \in 0 .. CounterSize - 1 /\ Link(c, 0, c)
        /\ \A s \in 0 .. CounterSize - 1, d \in Nat : Link(s, d, c) => Link(s, d + 1, k)
    BY <1>1, LinkFacts
  <2>2. Link(c, 0 + 1, k)
    BY <1>1, <2>1
  <2> QED
    BY <2>1, <2>2
<1> HIDE DEF k
<1>8. \A i \in 1 .. n + 1 : q[i].backend = WeightedPick(q[i].ticket % w, cs)
  BY <1>3, <1>4, <1>5, <1>6
<1>9. ASSUME NEW i \in 1 .. n + 1 PROVE Link(q[i].ticket, n + 1 + 1 - i, k)
  <2>1. CASE i = n + 1
    <3>1. n + 1 + 1 - i = 1
      BY <1>4, <2>1
    <3> QED
      BY <1>3, <1>4, <1>7, <2>1, <3>1
  <2>2. CASE i \in 1 .. n
    <3>1. n + 1 - i \in Nat /\ n + 1 + 1 - i = (n + 1 - i) + 1
      BY <1>4, <2>2
    <3>2. Link(r[i].ticket, (n + 1 - i) + 1, k)
      BY <1>6, <1>7, <2>2, <3>1
    <3> QED
      BY <1>4, <2>2, <3>1, <3>2
  <2> QED
    BY <1>5, <2>1, <2>2
<1>10. ASSUME NEW i \in 1 .. n + 1, NEW j \in 1 .. n + 1, i <= j
       PROVE  Link(q[i].ticket, j - i, q[j].ticket)
  <2>1. CASE j = n + 1 /\ i = n + 1
    <3>1. j - i = 0
      BY <1>4, <2>1
    <3> QED
      BY <1>3, <1>4, <1>7, <2>1, <3>1
  <2>2. CASE j = n + 1 /\ i \in 1 .. n
    BY <1>3, <1>4, <1>6, <2>2
  <2>3. CASE j \in 1 .. n
    <3>1. i \in 1 .. n
      BY <1>4, <1>10, <2>3
    <3>2. Link(r[i].ticket, j - i, r[j].ticket)
      BY <1>10, <2>3, <3>1 DEF RunOK, n
    <3> QED
      BY <1>4, <2>3, <3>1, <3>2
  <2> QED
    BY <1>5, <2>1, <2>2, <2>3
<1>11. RunOK(q, k, cs)
  BY <1>1, <1>4, <1>7, <1>8, <1>9, <1>10 DEF RunOK
<1> QED
  BY <1>11 DEF q, k, e

\* The w picks after the first p are there, and the counter did not wrap meanwhile.
WholeTurn(r, p, w) == p + w <= Len(r) /\ r[p + 1].ticket + (w - 1) < CounterSize

\* Those of them that went to b.
Given(r, p, w, b) == {i \in p + 1 .. p + w : r[i].backend = b}

\* A turn in which the counter does not wrap.
LEMMA TurnInRun ==
  ASSUME NEW r, NEW c, NEW cs, RunOK(r, c, cs), NEW b \in cs, NEW w, w = TotalWeight(cs),
         NEW p \in Nat, WholeTurn(r, p, w)
  PROVE  Cardinality(Given(r, p, w, b)) = Share(b)
<1> DEFINE t == r[p + 1].ticket
           n == Len(r)
           g == [i \in 1 .. n |-> r[i].backend]
<1>1. cs \in SUBSET Backends /\ r \in Seq(PickRecord) /\ n \in Nat
      /\ w \in Nat \ {0} /\ CounterSize \in Nat
  BY TotalFacts, WeightsAssumption, LenProperties DEF RunOK
<1>2. \A i \in 1 .. n : r[i] \in PickRecord
  BY <1>1, ElementOfSeq
<1>3. p + 1 \in 1 .. n /\ \A d \in 0 .. w - 1 : /\ p + 1 + d \in 1 .. n /\ p + 1 <= p + 1 + d
                                               /\ (p + 1 + d) - (p + 1) = d
  BY <1>1 DEF WholeTurn
<1>4. t \in Nat
  BY <1>1, <1>2, <1>3 DEF PickRecord
<1>5. ASSUME NEW d \in 0 .. w - 1
      PROVE  g[p + 1 + d] = WeightedPick(SlotOf(t, d, w), cs)
  <2>1. Link(t, (p + 1 + d) - (p + 1), r[p + 1 + d].ticket)
    BY <1>3 DEF RunOK
  <2>2. Link(t, d, r[p + 1 + d].ticket)
    BY <1>3, <2>1
  <2>3. t + d < CounterSize
    <3>1. t + (w - 1) < CounterSize
      BY DEF WholeTurn
    <3> HIDE DEF t
    <3> QED
      BY <1>1, <1>4, <3>1
  <2>4. r[p + 1 + d].ticket = t + d
    BY <2>2, <2>3 DEF Link
  <2>5. r[p + 1 + d].backend = WeightedPick(r[p + 1 + d].ticket % w, cs)
    BY <1>3 DEF RunOK
  <2>6. g[p + 1 + d] = r[p + 1 + d].backend
    BY <1>3
  <2> QED
    BY <2>4, <2>5, <2>6 DEF SlotOf
<1> HIDE DEF g, t
<1>6. /\ IsFiniteSet(PicksOf(g, p, w, b))
      /\ Cardinality(PicksOf(g, p, w, b)) = Share(b)
  <2>1. Mapped(g, p, t, w, cs)
    BY <1>5 DEF Mapped
  <2> QED
    BY <1>1, <1>4, <2>1, TurnShares
<1>7. PicksOf(g, p, w, b) = Given(r, p, w, b)
  <2>1. \A i \in p + 1 .. p + w : i \in 1 .. n
    BY <1>1 DEF WholeTurn
  <2> QED
    BY <2>1 DEF g, PicksOf, Given
<1> QED
  BY <1>6, <1>7

\* A turn fits into the counter.
LEMMA TurnFits ==
  ASSUME NEW cs \in SUBSET Backends
  PROVE  TotalWeight(cs) \in Nat /\ CounterSize \in Nat /\ TotalWeight(cs) <= CounterSize
<1>1. TotalWeight(cs) \in Nat /\ TotalWeight(Backends) \in Nat
  BY TotalFacts
<1>2. TotalWeight(cs) <= TotalWeight(Backends)
  BY ShareFacts, SumMonotone
<1> QED
  BY <1>1, <1>2, CounterAssumption, WeightsAssumption

\* Otherwise the counter wraps in the course of the turn, and starts over at 0.
LEMMA WrapPoint ==
  ASSUME NEW r, NEW c, NEW cs, RunOK(r, c, cs), NEW w, w = TotalWeight(cs), w # 0,
         w <= Len(r), ~(r[1].ticket + (w - 1) < CounterSize)
  PROVE  \E k \in 2 .. w : r[k].ticket = 0 /\ r[k - 1].ticket = CounterSize - 1
<1> DEFINE t == r[1].ticket
           n == Len(r)
           k == CounterSize - t + 1
<1>1. r \in Seq(PickRecord) /\ n \in Nat /\ w \in Nat \ {0} /\ CounterSize \in Nat \ {0}
      /\ w <= CounterSize /\ w <= n
  BY TurnFits, WeightsAssumption, LenProperties DEF RunOK
<1>2. t \in 0 .. CounterSize - 1
  <2>1. r[1] \in PickRecord
    BY <1>1, ElementOfSeq
  <2> QED
    BY <2>1 DEF PickRecord
<1>3. ~(t + (w - 1) < CounterSize)
  OBVIOUS
<1> HIDE DEF t, n
<1>4. /\ k \in 2 .. w /\ k \in 1 .. n /\ k - 1 \in 1 .. n /\ 1 \in 1 .. n
      /\ 1 <= k /\ 1 <= k - 1
      /\ t + (k - 1) = CounterSize /\ t + ((k - 1) - 1) = CounterSize - 1
      /\ t + ((k - 1) - 1) < CounterSize
  <2>1. k \in Int /\ k - 1 = CounterSize - t /\ 2 <= k /\ k <= w
    BY <1>1, <1>2, <1>3
  <2>2. k <= n
    BY <1>1, <2>1
  <2>3. t + (k - 1) = CounterSize /\ t + ((k - 1) - 1) = CounterSize - 1
    BY <1>1, <1>2, <2>1
  <2>4. CounterSize - 1 < CounterSize
    BY <1>1
  <2> HIDE DEF k
  <2> QED
    BY <1>1, <2>1, <2>2, <2>3, <2>4
<1> HIDE DEF k
<1>5. Link(t, k - 1, r[k].ticket) /\ Link(t, (k - 1) - 1, r[k - 1].ticket)
  BY <1>4 DEF RunOK, t, n
<1>6. r[k].ticket = 0
  BY <1>4, <1>5 DEF Link
<1>7. r[k - 1].ticket = CounterSize - 1
  BY <1>4, <1>5 DEF Link
<1> QED
  BY <1>4, <1>6, <1>7

-----------------------------------------------------------------------------
(* The rotation's steps *)

\* The inductive invariant.
RotationInv == RunOK(run, counter, cands)

LEMMA EmptyRun ==
  ASSUME NEW c \in 0 .. CounterSize - 1, NEW cs \in SUBSET Backends
  PROVE  RunOK(<<>>, c, cs)
<1>1. <<>> \in Seq(PickRecord) /\ Len(<<>>) = 0
  BY EmptySeq
<1>2. 1 .. 0 = {}
  OBVIOUS
<1> QED
  BY <1>1, <1>2 DEF RunOK

LEMMA RotationInit == RR!Init => RotationInv
<1>1. 0 \in 0 .. CounterSize - 1
  BY WeightsAssumption
<1> QED
  BY <1>1, EmptyRun DEF RR!Init, RotationInv

LEMMA RotationStep == RotationInv /\ [RR!Next]_(RR!vars) => RotationInv'
<1> SUFFICES ASSUME RotationInv, [RR!Next]_(RR!vars) PROVE RotationInv'
  OBVIOUS
<1>1. CASE RR!Select
  <2> DEFINE w == TotalWeight(cands)
             e == [ticket |-> counter, backend |-> WeightedPick(counter % w, cands)]
             kept == IF Len(run) < RR!Memory THEN run ELSE Tail(run)
  <2>1. w # 0 /\ counter' = FetchAdd(counter) /\ run' = Append(kept, e) /\ cands' = cands
    BY <1>1, SameRotation DEF RR!Select
  <2>2. RunOK(kept, counter, cands)
    <3>1. CASE Len(run) < RR!Memory
      BY <3>1 DEF RotationInv
    <3>2. CASE ~(Len(run) < RR!Memory)
      <4>1. run \in Seq(PickRecord) /\ Len(run) \in Nat
        BY LenProperties DEF RotationInv, RunOK
      <4>2. RR!Memory >= 1 /\ RR!Memory \in Int
        <5>1. TotalWeight(Backends) \in Nat \ {0}
          BY TotalFacts, WeightsAssumption
        <5> QED
          BY <5>1, SameRotation DEF RR!Memory
      <4>3. Len(run) >= 1
        BY <3>2, <4>1, <4>2
      <4>4. run # <<>>
        BY <4>3, EmptySeq
      <4> DEFINE l == Tail(run)
      <4>5. l \in Seq(PickRecord) /\ Len(l) = Len(run) - 1
            /\ \A i \in 1 .. Len(l) : l[i] = run[i + 1]
        BY <4>1, <4>4, HeadTailProperties
      <4> HIDE DEF l
      <4>6. 1 \in 0 .. Len(run) /\ Len(l) \in Nat
        BY <4>1, <4>3, <4>5
      <4>7. \A i \in 1 .. Len(l) : i + 1 = 1 + i
        BY <4>6
      <4>8. \A i \in 1 .. Len(l) : l[i] = run[1 + i]
        BY <4>5, <4>7
      <4>9. RunOK(l, counter, cands)
        BY <4>5, <4>6, <4>8, SuffixOK DEF RotationInv
      <4> QED
        BY <3>2, <4>9 DEF l
    <3> QED
      BY <3>1, <3>2
  <2> HIDE DEF kept
  <2>3. RunOK(Append(kept, e), FetchAdd(counter), cands)
    BY <2>1, <2>2, AppendOK
  <2> QED
    BY <2>1, <2>3 DEF RotationInv
<1>2. ASSUME NEW routable \in SUBSET Backends, RR!Change(routable) PROVE RotationInv'
  <2>1. counter \in 0 .. CounterSize - 1 /\ counter' = counter /\ cands' = routable /\ run' = <<>>
    BY <1>2 DEF RR!Change, RotationInv, RunOK
  <2> QED
    BY <2>1, EmptyRun DEF RotationInv
<1>3. CASE UNCHANGED RR!vars
  BY <1>3 DEF RR!vars, RotationInv
<1> QED
  BY <1>1, <1>2, <1>3 DEF RR!Next

LEMMA AlwaysRotation == StrategySpec => []RotationInv
<1>1. StrategyInit => RotationInv
  BY RotationInit DEF StrategyInit
<1>2. RotationInv /\ [StrategyNext]_strategyVars => RotationInv'
  <2>1. [StrategyNext]_strategyVars => [RR!Next]_(RR!vars)
    BY DEF StrategyNext, strategyVars, roundRobinVars, RR!vars
  <2> QED
    BY <2>1, RotationStep
<1> QED
  BY <1>1, <1>2, PTL DEF StrategySpec

\* The n latest picks.
LEMMA LatestFacts ==
  ASSUME RotationInv, NEW n \in Nat, n <= Len(run)
  PROVE  /\ RunOK(RR!Latest(n), counter, cands) /\ Len(RR!Latest(n)) = n
         /\ \A b : RR!Picks(b, RR!Latest(n)) = Cardinality({i \in 1 .. n : RR!Latest(n)[i].backend = b})
<1> DEFINE l == RR!Latest(n)
           m == Len(run)
           a == m - n
<1>1. run \in Seq(PickRecord) /\ m \in Nat
  BY LenProperties DEF RotationInv, RunOK
<1>2. \A i \in 1 .. m : run[i] \in PickRecord
  BY <1>1, ElementOfSeq
<1>3. a \in 0 .. m /\ m - n + 1 \in Int /\ m \in Int
  BY <1>1
<1>4. \A i \in m - n + 1 .. m : run[i] \in PickRecord
  BY <1>1, <1>2
<1>5. /\ SubSeq(run, m - n + 1, m) \in Seq(PickRecord)
      /\ Len(SubSeq(run, m - n + 1, m)) = IF m - n + 1 <= m THEN m - (m - n + 1) + 1 ELSE 0
      /\ \A i \in 1 .. m - (m - n + 1) + 1 :
           SubSeq(run, m - n + 1, m)[i] = run[m - n + 1 + i - 1]
  BY <1>3, <1>4, SubSeqProperties
<1>6. l = SubSeq(run, m - n + 1, m)
  BY DEF RR!Latest
<1> HIDE DEF l
<1>7. l \in Seq(PickRecord) /\ Len(l) = n
  BY <1>1, <1>5, <1>6
<1>8. \A i \in 1 .. n : l[i] = run[a + i]
  <2>1. \A i \in 1 .. n : i \in 1 .. m - (m - n + 1) + 1 /\ m - n + 1 + i - 1 = a + i
    BY <1>1
  <2> QED
    BY <1>5, <1>6, <2>1
<1>9. Len(l) = m - a
  BY <1>1, <1>7
<1> HIDE DEF a
<1>10. RunOK(l, counter, cands)
  BY <1>3, <1>7, <1>8, <1>9, SuffixOK DEF RotationInv
<1>11. \A b : RR!Picks(b, l) = Cardinality({i \in 1 .. n : l[i].backend = b})
  <2>1. DOMAIN l = 1 .. n
    BY <1>7, LenProperties
  <2> QED
    BY <2>1, SameRotation DEF RR!Picks
<1> QED
  BY <1>7, <1>10, <1>11 DEF l

\* As long as the candidates stay, any turn of the rotation in which the counter does
\* not wrap gives every backend exactly as many requests as its weight, wherever the
\* counter stood when the turn began: for any pool, weights and counter.
THEOREM SharesAreExact == StrategySpec => []ExactShares
<1>1. RotationInv => ExactShares
  <2> DEFINE w == TotalWeight(cands)
             l == RR!Latest(w)
  <2> SUFFICES ASSUME RotationInv, Len(run) >= w, ~RR!Wrapped(l), NEW b \in cands
               PROVE  RR!Picks(b, l) = Share(b)
    BY SameRotation DEF ExactShares, RR!ExactShares
  <2>1. cands \in SUBSET Backends
    BY DEF RotationInv, RunOK
  <2>2. w \in Nat \ {0} /\ CounterSize \in Nat /\ w <= CounterSize
    BY <2>1, TurnFits, TotalFacts
  <2>3. Len(run) \in Nat
    BY LenProperties DEF RotationInv, RunOK
  <2>4. w <= Len(run)
    BY <2>2, <2>3
  <2>5. RunOK(l, counter, cands) /\ Len(l) = w
        /\ RR!Picks(b, l) = Cardinality({i \in 1 .. w : l[i].backend = b})
    BY <2>2, <2>4, LatestFacts
  <2> HIDE DEF l
  <2>6. l[1].ticket + (w - 1) < CounterSize
    <3> SUFFICES ASSUME ~(l[1].ticket + (w - 1) < CounterSize) PROVE FALSE
      OBVIOUS
    <3>1. w <= Len(l) /\ w # 0
      BY <2>2, <2>5
    <3>2. PICK k \in 2 .. w : l[k].ticket = 0 /\ l[k - 1].ticket = CounterSize - 1
      <4> HIDE DEF w
      <4> QED
        BY <2>5, <3>1, WrapPoint DEF w
    <3>3. k - 1 \in 1 .. Len(l) - 1 /\ (k - 1) + 1 = k /\ 0 < CounterSize - 1
      BY <2>2, <2>5
    <3>4. l[(k - 1) + 1].ticket < l[k - 1].ticket
      BY <3>2, <3>3
    <3> QED
      BY <3>3, <3>4 DEF RR!Wrapped
  <2>7. Cardinality(Given(l, 0, w, b)) = Share(b)
    <3>1. WholeTurn(l, 0, w)
      BY <2>2, <2>5, <2>6 DEF WholeTurn
    <3> HIDE DEF w
    <3> QED
      BY <2>5, <3>1, TurnInRun DEF w
  <2>8. Given(l, 0, w, b) = {i \in 1 .. w : l[i].backend = b}
    <3>1. 0 + 1 .. 0 + w = 1 .. w
      BY <2>2
    <3> QED
      BY <3>1 DEF Given
  <2> QED
    BY <2>5, <2>7, <2>8
<1> QED
  BY <1>1, AlwaysRotation, PTL

\* Where the counter wraps in the middle of a turn, two turns less one request still
\* hold everyone's share: the turn before the wrap or the one right after it is whole.
THEOREM SharesSurviveWrap == StrategySpec => []SharesAcrossWrap
<1>1. RotationInv => SharesAcrossWrap
  <2> DEFINE w == TotalWeight(cands)
             n == 2 * w - 1
             l == RR!Latest(n)
  <2> SUFFICES ASSUME RotationInv, Len(run) >= n, NEW b \in cands
               PROVE  RR!Picks(b, l) >= Share(b)
    BY SameRotation DEF SharesAcrossWrap, RR!SharesAcrossWrap
  <2>1. cands \in SUBSET Backends
    BY DEF RotationInv, RunOK
  <2>2. w \in Nat \ {0} /\ CounterSize \in Nat /\ w <= CounterSize
    BY <2>1, TurnFits, TotalFacts
  <2>3. n \in Nat /\ n = w + (w - 1) /\ w <= n
    BY <2>2
  <2>4. n <= Len(run)
    <3>1. Len(run) \in Nat
      BY LenProperties DEF RotationInv, RunOK
    <3> HIDE DEF n
    <3> QED
      BY <2>3, <3>1
  <2> HIDE DEF n
  <2>5. RunOK(l, counter, cands) /\ Len(l) = n
        /\ RR!Picks(b, l) = Cardinality({i \in 1 .. n : l[i].backend = b})
    BY <2>3, <2>4, LatestFacts
  <2> HIDE DEF l
  <2>6. PICK p \in Nat : WholeTurn(l, p, w)
    <3>1. CASE l[1].ticket + (w - 1) < CounterSize
      <4>1. WholeTurn(l, 0, w)
        BY <2>2, <2>3, <2>5, <3>1 DEF WholeTurn
      <4> QED
        BY <4>1
    <3>2. CASE ~(l[1].ticket + (w - 1) < CounterSize)
      <4>1. w <= Len(l) /\ w # 0
        BY <2>2, <2>3, <2>5
      <4>2. PICK k \in 2 .. w : l[k].ticket = 0
        <5> HIDE DEF w
        <5> QED
          BY <2>5, <3>2, <4>1, WrapPoint DEF w
      <4>3. k - 1 \in Nat /\ (k - 1) + w <= n /\ (k - 1) + 1 = k
        BY <2>2, <2>3
      <4>4. WholeTurn(l, k - 1, w)
        BY <2>2, <2>5, <4>2, <4>3 DEF WholeTurn
      <4> QED
        BY <4>3, <4>4
    <3> QED
      BY <3>1, <3>2
  <2> DEFINE S == Given(l, p, w, b)
             T == {i \in 1 .. n : l[i].backend = b}
  <2>7. Cardinality(S) = Share(b)
    <3> HIDE DEF w
    <3> QED
      BY <2>5, <2>6, TurnInRun DEF w
  <2>8. S \in SUBSET T
    <3>1. \A i \in p + 1 .. p + w : i \in 1 .. n
      BY <2>2, <2>3, <2>5, <2>6 DEF WholeTurn
    <3> QED
      BY <3>1 DEF Given
  <2>9. IsFiniteSet(T)
    <3>1. IsFiniteSet(1 .. n) /\ T \in SUBSET (1 .. n)
      BY <2>3, FS_Interval
    <3> QED
      BY <3>1, FS_Subset
  <2>10. Cardinality(S) <= Cardinality(T) /\ Cardinality(T) \in Nat /\ Share(b) \in Nat
    BY <2>1, <2>8, <2>9, FS_Subset, FS_CardinalityType, ShareFacts
  <2> HIDE DEF S
  <2>11. RR!Picks(b, l) = Cardinality(T)
    BY <2>5
  <2> HIDE DEF T
  <2> QED
    BY <2>7, <2>10, <2>11
<1> QED
  BY <1>1, AlwaysRotation, PTL

-----------------------------------------------------------------------------
(* Least connections and least load *)

\* The sums of connections and depths do not wrap.  The code does not see to this: a
\* depth may be as large as the atomic.
NoWrap == \A d \in Depths : d + Cardinality(Handlers) < WordSize

LoadHandler == [at : {"idle", "read", "start", "running"}, todo : SUBSET Backends,
                best : Backends \union {LL!NoBackend}, least : Nat]

\* The handlers that are selecting, that run on b, and that have b for their choice
\* because they found its load to be x or less.
Busy(s) == {r \in Handlers : s[r].at \in {"read", "start"}}
RunningOn(s, b) == {r \in Handlers : s[r].at = "running" /\ s[r].best = b}
Herd(s, b, x) == {r \in Busy(s) : s[r].best = b /\ s[r].least <= x}

\* The load of b if connections are a and depths are q, which count if `on`.
LoadIn(on, a, q, b) == a[b] + IF on THEN q[b] ELSE 0

CandidatesIn(q) ==
  LET under == {b \in Backends : q[b] <= MaxQueueDepth}
  IN  IF under = {} THEN Backends ELSE under

HandlerAgrees(h) ==
  /\ h.at = "running" => h.best \in Backends
  /\ h.at = "start" => h.best \in Backends /\ h.todo = {}

LoadTypes(s, a, q) ==
  /\ s \in [Handlers -> LoadHandler] /\ \A r \in Handlers : HandlerAgrees(s[r])
  /\ a \in [Backends -> Nat] /\ q \in [Backends -> Depths]

ConnectionsExact(s, a) == \A b \in Backends : a[b] = Cardinality(RunningOn(s, b))

\* Loads have only grown since: what a handler has as the least load so far is no more
\* than the load of any candidate it has looked at.
Scanned(on, s, a, q) ==
  \A r \in Busy(s) : \A c \in CandidatesIn(q) \ s[r].todo :
    s[r].best # LL!NoBackend /\ s[r].least <= LoadIn(on, a, q, c)

\* The potential: a backend's load, with all the handlers added that would choose it if
\* the loads of the others went up to x, stays within Threads of x.
Spread(on, s, a, q) ==
  \A b, c \in CandidatesIn(q) : \A x \in Nat :
    LoadIn(on, a, q, c) <= x /\ (a[b] > 0 \/ Herd(s, b, x) # {}) =>
      LoadIn(on, a, q, b) + Cardinality(Herd(s, b, x)) <= x + Threads

LoadOK(on, s, a, q, m) ==
  /\ LoadTypes(s, a, q)
  /\ ConnectionsExact(s, a)
  /\ Cardinality(Busy(s)) <= Threads
  /\ m => Scanned(on, s, a, q) /\ Spread(on, s, a, q)

\* One handler moves to h.
Moves(s, t, r, h) ==
  /\ t \in [Handlers -> LoadHandler] /\ \A p \in Handlers : HandlerAgrees(t[p])
  /\ t[r] = h
  /\ \A p \in Handlers \ {r} : t[p] = s[p]

LEMMA HandlerSets ==
  ASSUME NEW s, NEW b, NEW x
  PROVE  /\ IsFiniteSet(Busy(s)) /\ Cardinality(Busy(s)) \in Nat
         /\ IsFiniteSet(RunningOn(s, b)) /\ Cardinality(RunningOn(s, b)) \in Nat
         /\ Cardinality(RunningOn(s, b)) <= Cardinality(Handlers)
         /\ IsFiniteSet(Herd(s, b, x)) /\ Cardinality(Herd(s, b, x)) \in Nat
         /\ Cardinality(Herd(s, b, x)) <= Cardinality(Busy(s))
<1>1. IsFiniteSet(Handlers) /\ Busy(s) \in SUBSET Handlers /\ RunningOn(s, b) \in SUBSET Handlers
      /\ Herd(s, b, x) \in SUBSET Busy(s)
  BY StrategiesAssumption DEF Busy, RunningOn, Herd
<1> QED
  BY <1>1, FS_Subset, FS_CardinalityType

\* A smaller herd.
LEMMA HerdShrinks ==
  ASSUME NEW s, NEW t, NEW b, NEW x, Herd(t, b, x) \in SUBSET Herd(s, b, x)
  PROVE  Cardinality(Herd(t, b, x)) <= Cardinality(Herd(s, b, x))
  BY HandlerSets, FS_Subset

LEMMA CandidateFacts ==
  ASSUME NEW q
  PROVE  CandidatesIn(q) \in SUBSET Backends /\ CandidatesIn(q) # {}
  BY WeightsAssumption DEF CandidatesIn

LEMMA LoadNat ==
  ASSUME NEW on, NEW a \in [Backends -> Nat], NEW q \in [Backends -> Depths], NEW b \in Backends
  PROVE  LoadIn(on, a, q, b) \in Nat
<1>1. a[b] \in Nat /\ q[b] \in Nat
  BY StrategiesAssumption
<1> QED
  BY <1>1 DEF LoadIn

\* A handler begins to select.
LEMMA BeginKeeps ==
  ASSUME NEW on, NEW s, NEW a, NEW q, NEW m \in BOOLEAN, LoadOK(on, s, a, q, m),
         NEW r \in Handlers, s[r].at = "idle", Cardinality(Busy(s)) < Threads,
         NEW t, NEW h, Moves(s, t, r, h),
         h.at = "read", h.best = LL!NoBackend, h.todo = CandidatesIn(q)
  PROVE  LoadOK(on, t, a, q, m)
<1>1. LoadTypes(t, a, q)
  BY DEF LoadOK, LoadTypes, Moves
<1>2. \A b : RunningOn(t, b) = RunningOn(s, b)
  BY DEF RunningOn, Moves
<1>3. ConnectionsExact(t, a)
  BY <1>2 DEF LoadOK, ConnectionsExact
<1>4. Busy(t) = Busy(s) \union {r} /\ r \notin Busy(s)
  BY DEF Busy, Moves
<1>5. Cardinality(Busy(t)) = Cardinality(Busy(s)) + 1 /\ Cardinality(Busy(s)) \in Nat
  BY <1>4, HandlerSets, FS_AddElement
<1>6. Cardinality(Busy(t)) <= Threads
  BY <1>5, StrategiesAssumption
<1>7. ASSUME NEW b \in Backends, NEW x PROVE Herd(t, b, x) = Herd(s, b, x)
  <2>1. b # LL!NoBackend
    BY WeightsAssumption DEF LL!NoBackend
  <2> QED
    BY <1>4, <2>1 DEF Herd, Moves, Busy
<1>8. ASSUME m PROVE Scanned(on, t, a, q)
  <2> SUFFICES ASSUME NEW p \in Busy(t), NEW c \in CandidatesIn(q) \ t[p].todo
               PROVE  t[p].best # LL!NoBackend /\ t[p].least <= LoadIn(on, a, q, c)
    BY DEF Scanned
  <2>1. p # r
    BY DEF Moves
  <2>2. t[p] = s[p] /\ p \in Busy(s)
    BY <2>1, <1>4 DEF Moves, Busy
  <2> QED
    BY <1>8, <2>2 DEF LoadOK, Scanned
<1>9. ASSUME m PROVE Spread(on, t, a, q)
  <2> SUFFICES ASSUME NEW b \in CandidatesIn(q), NEW c \in CandidatesIn(q), NEW x \in Nat,
                      LoadIn(on, a, q, c) <= x, a[b] > 0 \/ Herd(t, b, x) # {}
               PROVE  LoadIn(on, a, q, b) + Cardinality(Herd(t, b, x)) <= x + Threads
    BY DEF Spread
  <2>1. Herd(t, b, x) = Herd(s, b, x)
    BY <1>7, CandidateFacts
  <2> QED
    BY <1>9, <2>1 DEF LoadOK, Spread
<1> QED
  BY <1>1, <1>3, <1>6, <1>8, <1>9 DEF LoadOK

\* A handler looks at the load of candidate d.
LEMMA ReadKeeps ==
  ASSUME NEW on, NEW s, NEW a, NEW q, NEW m \in BOOLEAN, LoadOK(on, s, a, q, m),
         NEW r \in Handlers, s[r].at = "read", NEW d \in Backends,
         NEW t, NEW h, Moves(s, t, r, h),
         h.at \in {"read", "start"}, h.todo = s[r].todo \ {d},
         NEW better \in BOOLEAN,
         better <=> s[r].best = LL!NoBackend \/ LoadIn(on, a, q, d) < s[r].least,
         better => h.best = d /\ h.least = LoadIn(on, a, q, d),
         ~better => h.best = s[r].best /\ h.least = s[r].least
  PROVE  LoadOK(on, t, a, q, m)
<1>0. /\ a \in [Backends -> Nat] /\ q \in [Backends -> Depths]
      /\ LoadIn(on, a, q, d) \in Nat /\ s[r].least \in Nat /\ d # LL!NoBackend
  <2>1. a \in [Backends -> Nat] /\ q \in [Backends -> Depths] /\ s[r] \in LoadHandler
    BY DEF LoadOK, LoadTypes
  <2>2. d # LL!NoBackend
    BY WeightsAssumption DEF LL!NoBackend
  <2> QED
    BY <2>1, <2>2, LoadNat DEF LoadHandler
<1>1. LoadTypes(t, a, q)
  BY <1>0 DEF LoadTypes, Moves
<1>2. \A b : RunningOn(t, b) = RunningOn(s, b)
  BY DEF RunningOn, Moves
<1>3. ConnectionsExact(t, a)
  BY <1>2 DEF LoadOK, ConnectionsExact
<1>4. Busy(t) = Busy(s) /\ r \in Busy(s)
  BY DEF Busy, Moves
<1>5. Cardinality(Busy(t)) <= Threads
  BY <1>4 DEF LoadOK
<1>6. \A p \in Busy(s) : p # r => t[p] = s[p]
  BY DEF Moves, Busy
<1>7. t[r] = h
  BY DEF Moves
<1>8. ASSUME m PROVE Scanned(on, t, a, q)
  <2> SUFFICES ASSUME NEW p \in Busy(t), NEW c \in CandidatesIn(q) \ t[p].todo
               PROVE  t[p].best # LL!NoBackend /\ t[p].least <= LoadIn(on, a, q, c)
    BY DEF Scanned
  <2>1. LoadIn(on, a, q, c) \in Nat
    BY <1>0, LoadNat, CandidateFacts
  <2>2. CASE p # r
    BY <1>4, <1>6, <1>8, <2>2 DEF LoadOK, Scanned
  <2>3. CASE p = r /\ c = d
    <3>1. CASE better
      BY <1>0, <1>7, <2>3, <3>1
    <3>2. CASE ~better
      BY <1>0, <1>7, <2>3, <3>2
    <3> QED
      BY <3>1, <3>2
  <2>4. CASE p = r /\ c # d
    <3>1. s[r].best # LL!NoBackend /\ s[r].least <= LoadIn(on, a, q, c)
      BY <1>4, <1>7, <1>8, <2>4 DEF LoadOK, Scanned
    <3>2. CASE better
      BY <1>0, <1>7, <2>1, <2>4, <3>1, <3>2
    <3>3. CASE ~better
      BY <1>7, <2>4, <3>1, <3>3
    <3> QED
      BY <3>2, <3>3
  <2> QED
    BY <2>2, <2>3, <2>4
<1>9. ASSUME m PROVE Spread(on, t, a, q)
  <2> SUFFICES ASSUME NEW b \in CandidatesIn(q), NEW c \in CandidatesIn(q), NEW x \in Nat,
                      LoadIn(on, a, q, c) <= x, a[b] > 0 \/ Herd(t, b, x) # {}
               PROVE  LoadIn(on, a, q, b) + Cardinality(Herd(t, b, x)) <= x + Threads
    BY DEF Spread
  <2>0. /\ Cardinality(Herd(s, b, x)) \in Nat /\ Cardinality(Herd(t, b, x)) \in Nat
        /\ LoadIn(on, a, q, b) \in Nat /\ Threads \in Nat
    BY <1>0, HandlerSets, LoadNat, CandidateFacts, StrategiesAssumption
  <2>1. CASE b = d /\ LoadIn(on, a, q, d) <= x
    <3>1. Cardinality(Herd(t, b, x)) <= Threads
      BY <1>5, <2>0, HandlerSets, StrategiesAssumption
    <3> QED
      BY <2>0, <2>1, <3>1
  <2>2. CASE ~(b = d /\ LoadIn(on, a, q, d) <= x)
    <3>1. Herd(t, b, x) \in SUBSET Herd(s, b, x)
      <4> SUFFICES ASSUME NEW p \in Herd(t, b, x) PROVE p \in Herd(s, b, x)
        OBVIOUS
      <4>1. p \in Busy(s) /\ t[p].best = b /\ t[p].least <= x
        BY <1>4 DEF Herd
      <4>2. CASE p # r
        BY <1>6, <4>1, <4>2 DEF Herd
      <4>3. CASE p = r
        <5>1. ~better
          BY <1>7, <2>2, <4>1, <4>3
        <5> QED
          BY <1>7, <4>1, <4>3, <5>1 DEF Herd
      <4> QED
        BY <4>2, <4>3
    <3>2. Cardinality(Herd(t, b, x)) <= Cardinality(Herd(s, b, x))
      BY <3>1, HerdShrinks
    <3>3. LoadIn(on, a, q, b) + Cardinality(Herd(s, b, x)) <= x + Threads
      BY <1>9, <3>1 DEF LoadOK, Spread
    <3> QED
      BY <2>0, <3>2, <3>3
  <2> QED
    BY <2>1, <2>2
<1> QED
  BY <1>1, <1>3, <1>5, <1>8, <1>9 DEF LoadOK

\* A handler's connection is counted.
LEMMA StartKeeps ==
  ASSUME NEW on, NEW s, NEW a, NEW q, NEW m \in BOOLEAN, LoadOK(on, s, a, q, m),
         NEW r \in Handlers, s[r].at = "start", NEW d, d = s[r].best,
         NEW t, NEW h, Moves(s, t, r, h), h.at = "running", h.best = d,
         NEW z \in [Backends -> Nat], z[d] = a[d] + 1, \A b \in Backends \ {d} : z[b] = a[b]
  PROVE  LoadOK(on, t, z, q, m)
<1>0. /\ a \in [Backends -> Nat] /\ q \in [Backends -> Depths] /\ d \in Backends
      /\ s[r].todo = {}
  BY DEF LoadOK, LoadTypes, HandlerAgrees
<1>1. LoadTypes(t, z, q)
  BY <1>0 DEF LoadTypes, Moves
<1>2. /\ RunningOn(t, d) = RunningOn(s, d) \union {r} /\ r \notin RunningOn(s, d)
      /\ \A b \in Backends \ {d} : RunningOn(t, b) = RunningOn(s, b)
  BY DEF RunningOn, Moves
<1>3. ConnectionsExact(t, z)
  <2>1. Cardinality(RunningOn(t, d)) = Cardinality(RunningOn(s, d)) + 1
    <3>1. IsFiniteSet(RunningOn(s, d))
      BY HandlerSets
    <3> QED
      BY <1>2, <3>1, FS_AddElement
  <2>2. z[d] = Cardinality(RunningOn(t, d))
    BY <1>0, <2>1 DEF LoadOK, ConnectionsExact
  <2>3. \A b \in Backends \ {d} : z[b] = Cardinality(RunningOn(t, b))
    BY <1>2 DEF LoadOK, ConnectionsExact
  <2> QED
    BY <2>2, <2>3 DEF ConnectionsExact
<1>4. Busy(t) = Busy(s) \ {r} /\ r \in Busy(s)
  BY DEF Busy, Moves
<1>5. Cardinality(Busy(t)) <= Threads
  <2>1. Cardinality(Busy(t)) = Cardinality(Busy(s)) - 1 /\ Cardinality(Busy(s)) \in Nat
    BY <1>4, HandlerSets, OneLess
  <2> QED
    BY <2>1, StrategiesAssumption DEF LoadOK
<1>6. \A p \in Busy(t) : t[p] = s[p]
  BY <1>4 DEF Moves, Busy
<1>7. \A c \in Backends : /\ LoadIn(on, a, q, c) \in Nat /\ LoadIn(on, z, q, c) \in Nat
                          /\ LoadIn(on, a, q, c) <= LoadIn(on, z, q, c)
                          /\ c # d => LoadIn(on, z, q, c) = LoadIn(on, a, q, c)
  <2> SUFFICES ASSUME NEW c \in Backends
               PROVE  /\ LoadIn(on, a, q, c) \in Nat /\ LoadIn(on, z, q, c) \in Nat
                      /\ LoadIn(on, a, q, c) <= LoadIn(on, z, q, c)
                      /\ c # d => LoadIn(on, z, q, c) = LoadIn(on, a, q, c)
    OBVIOUS
  <2>1. a[c] \in Nat /\ z[c] \in Nat /\ q[c] \in Nat
    <3>1. q[c] \in Depths
      BY <1>0
    <3> QED
      BY <1>0, <3>1, StrategiesAssumption
  <2>2. a[c] <= z[c] /\ (c # d => z[c] = a[c])
    <3>1. CASE c = d
      BY <2>1, <3>1
    <3>2. CASE c # d
      <4>1. z[c] = a[c]
        BY <3>2
      <4> QED
        BY <2>1, <4>1
    <3> QED
      BY <3>1, <3>2
  <2> QED
    BY <2>1, <2>2 DEF LoadIn
<1>8. LoadIn(on, z, q, d) = LoadIn(on, a, q, d) + 1
  <2>1. a[d] \in Nat /\ q[d] \in Nat
    BY <1>0, StrategiesAssumption
  <2> QED
    BY <2>1 DEF LoadIn
<1>9. ASSUME m PROVE Scanned(on, t, z, q)
  <2> SUFFICES ASSUME NEW p \in Busy(t), NEW c \in CandidatesIn(q) \ t[p].todo
               PROVE  t[p].best # LL!NoBackend /\ t[p].least <= LoadIn(on, z, q, c)
    BY DEF Scanned
  <2>1. t[p] = s[p] /\ p \in Busy(s) /\ p \in Handlers
    BY <1>4, <1>6 DEF Busy
  <2>2. s[p].best # LL!NoBackend /\ s[p].least <= LoadIn(on, a, q, c)
    BY <1>9, <2>1 DEF LoadOK, Scanned
  <2>3. s[p].least \in Nat
    BY <2>1 DEF LoadOK, LoadTypes, LoadHandler
  <2>4. c \in Backends
    BY CandidateFacts
  <2> QED
    BY <1>7, <2>1, <2>2, <2>3, <2>4
<1>10. ASSUME m PROVE Spread(on, t, z, q)
  <2> SUFFICES ASSUME NEW b \in CandidatesIn(q), NEW c \in CandidatesIn(q), NEW x \in Nat,
                      LoadIn(on, z, q, c) <= x, z[b] > 0 \/ Herd(t, b, x) # {}
               PROVE  LoadIn(on, z, q, b) + Cardinality(Herd(t, b, x)) <= x + Threads
    BY DEF Spread
  <2>0. /\ Cardinality(Herd(s, b, x)) \in Nat /\ Cardinality(Herd(t, b, x)) \in Nat
        /\ b \in Backends /\ c \in Backends /\ Threads \in Nat
    BY HandlerSets, CandidateFacts, StrategiesAssumption
  <2>1. LoadIn(on, a, q, c) <= x
    BY <1>7, <2>0
  <2>2. a[b] > 0 \/ Herd(s, b, x) # {} =>
          LoadIn(on, a, q, b) + Cardinality(Herd(s, b, x)) <= x + Threads
    BY <1>10, <2>1 DEF LoadOK, Spread
  <2>3. CASE b # d
    <3>1. Herd(t, b, x) = Herd(s, b, x)
      BY <1>4, <1>6, <2>3 DEF Herd
    <3>2. z[b] = a[b] /\ LoadIn(on, z, q, b) = LoadIn(on, a, q, b)
      BY <1>7, <2>0, <2>3
    <3> QED
      BY <2>2, <3>1, <3>2
  <2>4. CASE b = d
    <3>1. s[r].least <= LoadIn(on, a, q, c) /\ s[r].least \in Nat
      BY <1>0, <1>4, <1>10 DEF LoadOK, Scanned, LoadTypes, LoadHandler
    <3>2. s[r].least <= x
      BY <1>7, <2>0, <2>1, <3>1
    <3>3. r \in Herd(s, b, x) /\ Herd(t, b, x) = Herd(s, b, x) \ {r}
      BY <1>4, <1>6, <2>4, <3>2 DEF Herd
    <3>4. Cardinality(Herd(t, b, x)) = Cardinality(Herd(s, b, x)) - 1
      BY <3>3, HandlerSets, OneLess
    <3>5. LoadIn(on, a, q, b) + Cardinality(Herd(s, b, x)) <= x + Threads
      BY <2>2, <3>3
    <3> QED
      BY <1>7, <1>8, <2>0, <2>4, <3>4, <3>5
  <2> QED
    BY <2>3, <2>4
<1> QED
  BY <1>1, <1>3, <1>5, <1>9, <1>10 DEF LoadOK

\* Nothing has to be said of the loads but when the router is idle, and then there is
\* nothing to say.
LEMMA IdleKeeps ==
  ASSUME NEW on, NEW s, NEW a, NEW q, NEW m \in BOOLEAN,
         LoadTypes(s, a, q), ConnectionsExact(s, a), Cardinality(Busy(s)) <= Threads,
         m => \A r \in Handlers : s[r].at = "idle"
  PROVE  LoadOK(on, s, a, q, m)
<1>1. ASSUME m PROVE Scanned(on, s, a, q) /\ Spread(on, s, a, q)
  <2>1. Busy(s) = {} /\ \A b : RunningOn(s, b) = {}
    BY <1>1 DEF Busy, RunningOn
  <2>2. \A b \in Backends : a[b] = 0
    BY <2>1, FS_EmptySet DEF ConnectionsExact
  <2>3. \A b, x : Herd(s, b, x) = {}
    BY <2>1 DEF Herd
  <2>4. Scanned(on, s, a, q)
    BY <2>1 DEF Scanned
  <2>5. \A b \in CandidatesIn(q) : a[b] = 0
    BY <2>2, CandidateFacts
  <2> QED
    BY <2>3, <2>4, <2>5 DEF Spread
<1> QED
  BY <1>1 DEF LoadOK

LEMMA EndKeeps ==
  ASSUME NEW on, NEW s, NEW a, NEW q, NEW m, LoadOK(on, s, a, q, m),
         NEW r \in Handlers, s[r].at = "running", NEW d, d = s[r].best,
         NEW t, NEW h, Moves(s, t, r, h), h.at = "idle",
         NEW z \in [Backends -> Int], z[d] = a[d] - 1, \A b \in Backends \ {d} : z[b] = a[b],
         NEW n \in BOOLEAN, n => \A p \in Handlers : t[p].at = "idle"
  PROVE  LoadOK(on, t, z, q, n)
<1>0. a \in [Backends -> Nat] /\ q \in [Backends -> Depths] /\ d \in Backends
  BY DEF LoadOK, LoadTypes, HandlerAgrees
<1>1. /\ RunningOn(t, d) = RunningOn(s, d) \ {r} /\ r \in RunningOn(s, d)
      /\ \A b \in Backends \ {d} : RunningOn(t, b) = RunningOn(s, b)
  BY DEF RunningOn, Moves
<1>2. Cardinality(RunningOn(t, d)) = Cardinality(RunningOn(s, d)) - 1
      /\ Cardinality(RunningOn(t, d)) \in Nat
  <2>1. IsFiniteSet(RunningOn(s, d))
    BY HandlerSets
  <2> QED
    BY <1>1, <2>1, OneLess
<1>3. a[d] - 1 = Cardinality(RunningOn(t, d)) /\ a[d] - 1 \in Nat
  BY <1>0, <1>2 DEF LoadOK, ConnectionsExact
<1>4. z \in [Backends -> Nat] /\ z[d] = a[d] - 1 /\ \A b \in Backends \ {d} : z[b] = a[b]
  BY <1>0, <1>3
<1>5. LoadTypes(t, z, q)
  BY <1>0, <1>4 DEF LoadTypes, Moves
<1>6. ConnectionsExact(t, z)
  <2>1. \A b \in Backends \ {d} : z[b] = Cardinality(RunningOn(t, b))
    BY <1>1, <1>4 DEF LoadOK, ConnectionsExact
  <2> QED
    BY <1>3, <1>4, <2>1 DEF ConnectionsExact
<1>7. Busy(t) = Busy(s)
  BY DEF Busy, Moves
<1>8. Cardinality(Busy(t)) <= Threads
  BY <1>7 DEF LoadOK
<1> QED
  BY <1>5, <1>6, <1>8, IdleKeeps

-----------------------------------------------------------------------------
DepthCounts == strategy = "least_load"

\* The inductive invariant.
LoadInv ==
  /\ calm \in BOOLEAN
  /\ LoadOK(DepthCounts, selecting, active, queueDepth, calm)

\* What the actions compute is what the lemmas above speak of.
LEMMA SameLoads ==
  ASSUME NoWrap, LoadInv
  PROVE  /\ LL!Candidates = CandidatesIn(queueDepth)
         /\ LL!Selecting = Busy(selecting)
         /\ \A b \in Backends :
              /\ LL!LoadOf(b) = LoadIn(DepthCounts, active, queueDepth, b)
              /\ LL!TrueLoad(b) = LoadIn(DepthCounts, active, queueDepth, b)
<1>1. LL!Candidates = CandidatesIn(queueDepth)
  BY DEF LL!Candidates, CandidatesIn
<1>2. LL!Selecting = Busy(selecting)
  BY DEF LL!Selecting, Busy
<1>3. ASSUME NEW b \in Backends
      PROVE  /\ LL!LoadOf(b) = LoadIn(DepthCounts, active, queueDepth, b)
             /\ LL!TrueLoad(b) = LoadIn(DepthCounts, active, queueDepth, b)
  <2>1. active[b] = Cardinality(RunningOn(selecting, b)) /\ queueDepth[b] \in Depths
    BY DEF LoadInv, LoadOK, ConnectionsExact, LoadTypes
  <2>2. /\ Cardinality(RunningOn(selecting, b)) \in Nat /\ Cardinality(Handlers) \in Nat
        /\ Cardinality(RunningOn(selecting, b)) <= Cardinality(Handlers)
    BY HandlerSets, FS_CardinalityType, StrategiesAssumption
  <2>3. queueDepth[b] \in Nat /\ queueDepth[b] + Cardinality(Handlers) < WordSize
        /\ WordSize \in Nat
    BY <2>1, StrategiesAssumption DEF NoWrap
  <2>4. /\ active[b] + queueDepth[b] \in Nat /\ active[b] \in Nat
        /\ active[b] + queueDepth[b] < WordSize
    BY <2>1, <2>2, <2>3
  <2>5. (active[b] + queueDepth[b]) % WordSize = active[b] + queueDepth[b]
    BY <2>3, <2>4
  <2>6. LL!LoadOf(b) = LoadIn(DepthCounts, active, queueDepth, b)
    <3>1. CASE DepthCounts
      BY <2>5, <3>1 DEF LL!LoadOf, LoadIn, DepthCounts
    <3>2. CASE ~DepthCounts
      BY <2>4, <3>2 DEF LL!LoadOf, LoadIn, DepthCounts
    <3> QED
      BY <3>1, <3>2
  <2>7. LL!TrueLoad(b) = LoadIn(DepthCounts, active, queueDepth, b)
    BY DEF LL!TrueLoad, LoadIn, DepthCounts
  <2> QED
    BY <2>6, <2>7
<1> QED
  BY <1>1, <1>2, <1>3

\* The library's operators are the same ones in the instance.
LEMMA SameLibrary == \A S : LL!Cardinality(S) = Cardinality(S) /\ LL!Min(S) = Min(S)
<1>1. \A S : LL!Cardinality(S) = Cardinality(S)
  BY DEF LL!Cardinality, Cardinality
<1>2. \A S : LL!Min(S) = Min(S)
  BY DEF LL!Min, Min
<1> QED
  BY <1>1, <1>2

LEMMA IdleLoads == LL!Idle \in LoadHandler /\ HandlerAgrees(LL!Idle) /\ LL!Idle.at = "idle"
                   /\ LL!Idle.best = LL!NoBackend
  BY DEF LL!Idle, LoadHandler, HandlerAgrees

LEMMA LoadInit == StrategyInit => LoadInv
<1> SUFFICES ASSUME StrategyInit PROVE LoadInv
  OBVIOUS
<1>1. /\ active = [b \in Backends |-> 0] /\ queueDepth \in [Backends -> Depths]
      /\ selecting = [r \in Handlers |-> LL!Idle] /\ calm = TRUE
  BY DEF StrategyInit, LL!Init
<1>2. \A r \in Handlers : selecting[r] = LL!Idle
  BY <1>1
<1>3. LoadTypes(selecting, active, queueDepth)
  BY <1>1, IdleLoads DEF LoadTypes
<1>4. Busy(selecting) = {} /\ \A b : RunningOn(selecting, b) = {}
  BY <1>2, IdleLoads DEF Busy, RunningOn
<1>5. ConnectionsExact(selecting, active)
  BY <1>1, <1>4, FS_EmptySet DEF ConnectionsExact
<1>6. Cardinality(Busy(selecting)) <= Threads
  BY <1>4, FS_EmptySet, StrategiesAssumption
<1>7. \A r \in Handlers : selecting[r].at = "idle"
  BY <1>2, IdleLoads
<1> QED
  BY <1>1, <1>3, <1>5, <1>6, <1>7, IdleKeeps DEF LoadInv

\* A handler takes a step.
LEMMA HandlerMoves ==
  ASSUME LoadInv, NEW r \in Handlers, NEW h \in LoadHandler, HandlerAgrees(h),
         selecting' = [selecting EXCEPT ![r] = h]
  PROVE  Moves(selecting, selecting', r, h)
<1>1. selecting \in [Handlers -> LoadHandler] /\ \A p \in Handlers : HandlerAgrees(selecting[p])
  BY DEF LoadInv, LoadOK, LoadTypes
<1>2. selecting' \in [Handlers -> LoadHandler]
  BY <1>1
<1>3. selecting'[r] = h /\ \A p \in Handlers \ {r} : selecting'[p] = selecting[p]
  BY <1>1
<1> QED
  BY <1>1, <1>2, <1>3 DEF Moves

LEMMA LoadBegin ==
  ASSUME NoWrap, LoadInv, NEW r \in Handlers, LL!Begin(r), strategy' = strategy
  PROVE  LoadInv'
<1> DEFINE h == [LL!Idle EXCEPT !.at = "read", !.todo = CandidatesIn(queueDepth)]
<1>1. h \in LoadHandler /\ HandlerAgrees(h)
      /\ h.at = "read" /\ h.best = LL!NoBackend /\ h.todo = CandidatesIn(queueDepth)
  BY CandidateFacts DEF LL!Idle, LoadHandler, HandlerAgrees
<1>2. /\ selecting' = [selecting EXCEPT ![r] = h] /\ selecting[r].at = "idle"
      /\ Cardinality(Busy(selecting)) < Threads
      /\ UNCHANGED <<active, queueDepth, calm>>
  <2>1. /\ selecting' = [selecting EXCEPT ![r] = [LL!Idle EXCEPT !.at = "read", !.todo = LL!Candidates]]
        /\ selecting[r].at = "idle" /\ Cardinality(LL!Selecting) < Threads
        /\ UNCHANGED <<active, queueDepth, calm>>
    BY SameLibrary DEF LL!Begin
  <2>2. LL!Candidates = CandidatesIn(queueDepth) /\ LL!Selecting = Busy(selecting)
    BY SameLoads
  <2> QED
    BY <2>1, <2>2
<1> HIDE DEF h
<1>3. Moves(selecting, selecting', r, h)
  BY <1>1, <1>2, HandlerMoves
<1> DEFINE t == selecting'
<1> HIDE DEF t
<1>4. LoadOK(DepthCounts, t, active, queueDepth, calm)
  <2>1. LoadOK(DepthCounts, selecting, active, queueDepth, calm) /\ calm \in BOOLEAN
    BY DEF LoadInv
  <2>2. Moves(selecting, t, r, h)
    BY <1>3 DEF t
  <2> QED
    BY <1>1, <1>2, <2>1, <2>2, BeginKeeps
<1> QED
  BY <1>2, <1>4 DEF LoadInv, DepthCounts, t

LEMMA LoadRead ==
  ASSUME NoWrap, LoadInv, NEW r \in Handlers, LL!Read(r), strategy' = strategy
  PROVE  LoadInv'
<1> DEFINE g == selecting[r]
           d == Min(g.todo)
           load == LL!LoadOf(d)
           better == g.best = LL!NoBackend \/ load < g.least
           h == [at    |-> IF g.todo = {d} THEN "start" ELSE "read",
                 todo  |-> g.todo \ {d},
                 best  |-> IF better THEN d ELSE g.best,
                 least |-> IF better THEN load ELSE g.least]
<1>1. /\ LoadOK(DepthCounts, selecting, active, queueDepth, calm) /\ calm \in BOOLEAN
      /\ active \in [Backends -> Nat] /\ queueDepth \in [Backends -> Depths]
      /\ g \in LoadHandler
  BY DEF LoadInv, LoadOK, LoadTypes
<1>2. d \in g.todo /\ d \in Backends
  <2>1. g.todo \in SUBSET Backends /\ Backends \in SUBSET Nat
    BY <1>1, ShareFacts DEF LoadHandler
  <2>2. g.todo # {}
    BY DEF LL!Read
  <2> QED
    BY <2>1, <2>2, MinFacts
<1>3. load = LoadIn(DepthCounts, active, queueDepth, d) /\ load \in Nat
  BY <1>1, <1>2, SameLoads, LoadNat
<1>4. /\ selecting' = [selecting EXCEPT ![r] = h] /\ g.at = "read"
      /\ UNCHANGED <<active, queueDepth, calm>>
  <2>1. LL!Min(g.todo) = d
    BY SameLibrary
  <2> QED
    BY <2>1 DEF LL!Read
<1>5. better => h.best = d /\ h.least = load
  OBVIOUS
<1>6. ~better => h.best = g.best /\ h.least = g.least
  OBVIOUS
<1>7. h.at \in {"read", "start"} /\ h.todo = g.todo \ {d} /\ (h.at = "start" => g.todo = {d})
  OBVIOUS
<1>8. better \in BOOLEAN /\ (better <=> g.best = LL!NoBackend \/ load < g.least)
  OBVIOUS
<1>9. h.best \in Backends \union {LL!NoBackend} /\ h.least \in Nat
  <2>1. g.best \in Backends \union {LL!NoBackend} /\ g.least \in Nat
    BY <1>1 DEF LoadHandler
  <2>2. CASE better
    BY <1>2, <1>3, <1>5, <2>2
  <2>3. CASE ~better
    BY <1>6, <2>1, <2>3
  <2> QED
    BY <2>2, <2>3
<1>10. h \in LoadHandler
  <2>1. h.todo \in SUBSET Backends
    BY <1>1, <1>7 DEF LoadHandler
  <2> QED
    BY <1>7, <1>9, <2>1 DEF LoadHandler
<1> HIDE DEF h, better
<1>11. HandlerAgrees(h)
  <2> SUFFICES ASSUME h.at = "start" PROVE h.best \in Backends /\ h.todo = {}
    BY <1>7 DEF HandlerAgrees
  <2>1. h.todo = {}
    BY <1>7
  <2>2. h.best \in Backends
    <3>1. CASE better
      BY <1>2, <1>5, <3>1
    <3>2. CASE ~better
      BY <1>1, <1>6, <1>8, <3>2 DEF LoadHandler
    <3> QED
      BY <3>1, <3>2
  <2> QED
    BY <2>1, <2>2
<1>12. Moves(selecting, selecting', r, h)
  BY <1>4, <1>10, <1>11, HandlerMoves
<1> DEFINE t == selecting'
<1> HIDE DEF t
<1>13. LoadOK(DepthCounts, t, active, queueDepth, calm)
  <2>1. Moves(selecting, t, r, h)
    BY <1>12 DEF t
  <2> HIDE DEF load
  <2>2. /\ better <=> g.best = LL!NoBackend \/ LoadIn(DepthCounts, active, queueDepth, d) < g.least
        /\ better => h.best = d /\ h.least = LoadIn(DepthCounts, active, queueDepth, d)
    BY <1>3, <1>5, <1>8
  <2> HIDE DEF d
  <2> QED
    BY <1>1, <1>2, <1>4, <1>6, <1>7, <1>8, <2>1, <2>2, ReadKeeps
<1> QED
  BY <1>1, <1>4, <1>13 DEF LoadInv, DepthCounts, t

LEMMA LoadStart ==
  ASSUME NoWrap, LoadInv, NEW r \in Handlers, LL!Start(r), strategy' = strategy
  PROVE  LoadInv'
<1> DEFINE d == selecting[r].best
           h == [LL!Idle EXCEPT !.at = "running", !.best = d]
<1>1. /\ LoadOK(DepthCounts, selecting, active, queueDepth, calm) /\ calm \in BOOLEAN
      /\ active \in [Backends -> Nat]
  BY DEF LoadInv, LoadOK, LoadTypes
<1>2. selecting[r].at = "start"
  BY DEF LL!Start
<1>3. d \in Backends
  BY <1>1, <1>2 DEF LoadOK, LoadTypes, HandlerAgrees
<1>4. h \in LoadHandler /\ HandlerAgrees(h) /\ h.at = "running" /\ h.best = d
  BY <1>3 DEF LL!Idle, LoadHandler, HandlerAgrees
<1>5. selecting' = [selecting EXCEPT ![r] = h] /\ active' = [active EXCEPT ![d] = active[d] + 1]
      /\ UNCHANGED <<queueDepth, calm>>
  BY DEF LL!Start
<1> HIDE DEF h
<1>6. Moves(selecting, selecting', r, h)
  BY <1>4, <1>5, HandlerMoves
<1> DEFINE t == selecting'
           z == active'
<1>7. z \in [Backends -> Nat] /\ z[d] = active[d] + 1 /\ \A b \in Backends \ {d} : z[b] = active[b]
  BY <1>1, <1>3, <1>5
<1> HIDE DEF t, z
<1>8. LoadOK(DepthCounts, t, z, queueDepth, calm)
  <2>1. Moves(selecting, t, r, h)
    BY <1>6 DEF t
  <2> QED
    BY <1>1, <1>2, <1>4, <1>7, <2>1, StartKeeps
<1> QED
  BY <1>1, <1>5, <1>8 DEF LoadInv, DepthCounts, t, z

LEMMA LoadEnd ==
  ASSUME NoWrap, LoadInv, NEW r \in Handlers, LL!End(r), strategy' = strategy
  PROVE  LoadInv'
<1> DEFINE d == selecting[r].best
<1>1. LoadOK(DepthCounts, selecting, active, queueDepth, calm)
  BY DEF LoadInv
<1>2. selecting[r].at = "running"
  BY DEF LL!End
<1>3. selecting' = [selecting EXCEPT ![r] = LL!Idle] /\ active' = [active EXCEPT ![d] = active[d] - 1]
      /\ UNCHANGED queueDepth
  BY DEF LL!End
<1>4. Moves(selecting, selecting', r, LL!Idle)
  BY <1>3, IdleLoads, HandlerMoves
<1>5. calm' \in BOOLEAN /\ (calm' => \A p \in Handlers : selecting'[p].at = "idle")
  BY DEF LL!End, LL!IdleRouter
<1> DEFINE t == selecting'
           z == active'
           n == calm'
           i == LL!Idle
<1>6. z \in [Backends -> Int] /\ z[d] = active[d] - 1 /\ \A b \in Backends \ {d} : z[b] = active[b]
  <2>1. active \in [Backends -> Nat] /\ d \in Backends
    BY <1>1, <1>2 DEF LoadOK, LoadTypes, HandlerAgrees
  <2> QED
    BY <1>3, <2>1
<1>7. n \in BOOLEAN
      /\ (n => \A p \in Handlers : t[p].at = "idle") /\ Moves(selecting, t, r, i) /\ i.at = "idle"
  BY <1>3, <1>4, <1>5, IdleLoads
<1> HIDE DEF t, z, n, i
<1>8. LoadOK(DepthCounts, t, z, queueDepth, n)
  BY <1>1, <1>2, <1>6, <1>7, EndKeeps
<1> QED
  BY <1>3, <1>7, <1>8 DEF LoadInv, DepthCounts, t, z, n

LEMMA LoadScrape ==
  ASSUME NoWrap, LoadInv, NEW b \in Backends, NEW depth \in Depths, LL!Scrape(b, depth),
         strategy' = strategy
  PROVE  LoadInv'
<1>1. queueDepth' = [queueDepth EXCEPT ![b] = depth] /\ UNCHANGED <<active, selecting>>
  BY DEF LL!Scrape
<1>2. calm' \in BOOLEAN /\ (calm' => \A p \in Handlers : selecting[p].at = "idle")
  BY DEF LL!Scrape, LL!IdleRouter
<1>3. /\ LoadTypes(selecting, active, queueDepth) /\ ConnectionsExact(selecting, active)
      /\ Cardinality(Busy(selecting)) <= Threads
  BY DEF LoadInv, LoadOK
<1> DEFINE q == queueDepth'
           n == calm'
<1>4. q \in [Backends -> Depths]
  BY <1>1, <1>3 DEF LoadTypes
<1>5. n \in BOOLEAN /\ (n => \A p \in Handlers : selecting[p].at = "idle")
  BY <1>2
<1> HIDE DEF q, n
<1>6. LoadTypes(selecting, active, q)
  BY <1>3, <1>4 DEF LoadTypes
<1>7. LoadOK(DepthCounts, selecting, active, q, n)
  BY <1>3, <1>5, <1>6, IdleKeeps
<1> QED
  BY <1>1, <1>5, <1>7 DEF LoadInv, DepthCounts, q, n

LEMMA LoadStep == NoWrap /\ LoadInv /\ [StrategyNext]_strategyVars => LoadInv'
<1> SUFFICES ASSUME NoWrap, LoadInv, [StrategyNext]_strategyVars PROVE LoadInv'
  OBVIOUS
<1>1. strategy' = strategy
  BY DEF StrategyNext, strategyVars
<1>2. CASE LL!Next
  BY <1>1, <1>2, LoadBegin, LoadRead, LoadStart, LoadEnd, LoadScrape DEF LL!Next
<1>3. CASE UNCHANGED leastLoadedVars
  BY <1>1, <1>3 DEF LoadInv, DepthCounts, leastLoadedVars
<1> QED
  BY <1>2, <1>3 DEF StrategyNext, strategyVars

\* Handlers that read the loads one by one, while the connections of others are not yet
\* counted, overload a backend by no more than the number of threads that can select
\* at once: for any number of backends, handlers and threads, as long as the sums of
\* connections and depths do not wrap.
THEOREM HerdIsBounded == NoWrap /\ StrategySpec => []Leveled
<1>1. NoWrap /\ LoadInv => Leveled
  <2> SUFFICES ASSUME NoWrap, LoadInv, calm,
                      NEW b \in LL!Candidates, NEW c \in LL!Candidates, active[b] > 0
               PROVE  LL!TrueLoad(b) <= LL!TrueLoad(c) + Threads
    BY DEF Leveled, LL!Leveled
  <2>1. b \in CandidatesIn(queueDepth) /\ c \in CandidatesIn(queueDepth)
        /\ b \in Backends /\ c \in Backends
    BY SameLoads, CandidateFacts
  <2> DEFINE x == LoadIn(DepthCounts, active, queueDepth, c)
             y == LoadIn(DepthCounts, active, queueDepth, b)
             n == Cardinality(Herd(selecting, b, x))
  <2>2. x \in Nat /\ y \in Nat
    BY <2>1, LoadNat DEF LoadInv, LoadOK, LoadTypes
  <2>3. n \in Nat /\ Threads \in Nat
    BY HandlerSets, StrategiesAssumption
  <2>4. Spread(DepthCounts, selecting, active, queueDepth)
    BY DEF LoadInv, LoadOK
  <2>5. x <= x
    BY <2>2
  <2>6. y + n <= x + Threads
    BY <2>1, <2>2, <2>4, <2>5 DEF Spread
  <2>7. LL!TrueLoad(b) = y /\ LL!TrueLoad(c) = x
    BY <2>1, SameLoads
  <2> HIDE DEF x, y, n
  <2> QED
    BY <2>2, <2>3, <2>6, <2>7
<1>2. NoWrap => NoWrap'
  BY DEF NoWrap
<1> QED
  BY <1>1, <1>2, LoadInit, LoadStep, PTL DEF StrategySpec
=============================================================================
