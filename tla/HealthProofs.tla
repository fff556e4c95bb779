------------------------------ MODULE HealthProofs ------------------------------
(***************************************************************************)
(* Proofs about Health and HealthAudit, for any pool, thresholds and       *)
(* /metrics bodies.                                                        *)
(***************************************************************************)
EXTENDS HealthAudit, SequenceTheorems, SetFacts

-----------------------------------------------------------------------------
(* What parse_backend_metrics returns *)

LEMMA LineFacts ==
  ASSUME NEW line \in Line
  PROVE  NonNegative(line) \in Nat /\ Ratio(line) \in 0 .. 10
         /\ Ratio(line) = Min({NonNegative(line), 10})
<1>1. NonNegative(line) \in Nat
  BY DEF NonNegative, Line
<1>2. Min({NonNegative(line), 10}) = IF NonNegative(line) <= 10 THEN NonNegative(line) ELSE 10
  BY <1>1, MinOfTwo
<1> QED
  BY <1>1, <1>2 DEF Ratio

LEMMA BodyFacts ==
  ASSUME NEW body \in Seq(Line)
  PROVE  /\ IsFiniteSet(DOMAIN body) /\ \A i \in DOMAIN body : body[i] \in Line
         /\ \A names : IsFiniteSet(Series(body, names)) /\ Series(body, names) \in SUBSET DOMAIN body
<1>1. DOMAIN body = 1 .. Len(body) /\ Len(body) \in Nat
  BY LenProperties
<1>2. IsFiniteSet(DOMAIN body)
  BY <1>1, FS_Interval
<1>3. \A names : Series(body, names) \in SUBSET DOMAIN body
  BY DEF Series
<1> QED
  BY <1>1, <1>2, <1>3, FS_Subset

\* The tenths that the series of a body report as waiting.
Waits(body) == SumOf(Values(body), Series(body, {QueueName}))

LEMMA DepthFacts ==
  ASSUME NEW body \in Seq(Line)
  PROVE  /\ Waits(body) \in Nat
         /\ QueueDepthOf(body) = IF Waits(body) \div 10 <= U64Max
                                 THEN Waits(body) \div 10 ELSE U64Max
         /\ QueueDepthOf(body) \in 0 .. U64Max
<1>1. \A i \in Series(body, {QueueName}) : Values(body)[i] \in Nat
  BY BodyFacts, LineFacts DEF Values
<1>2. Waits(body) \in Nat
  BY <1>1, BodyFacts, SumNat DEF Waits
<1>3. QueueDepthOf(body) = Min({Waits(body) \div 10, U64Max})
  BY SumIsMapThenSum DEF QueueDepthOf, Waits
<1>4. Waits(body) \div 10 \in Nat
  BY <1>2
<1> QED
  BY <1>2, <1>3, <1>4, MinOfTwo, HealthAssumption

\* A ratio, in tenths, in basis points.
Points(tenths) == 1000 * tenths

LEMMA KvFacts ==
  ASSUME NEW body \in Seq(Line)
  PROVE  /\ KvCacheBpOf(body) \in BasisPoints
         /\ \A i \in Series(body, KvNames) : KvCacheBpOf(body) >= Points(Ratio(body[i]))
         /\ KvCacheBpOf(body) # 0 =>
              \E i \in Series(body, KvNames) : KvCacheBpOf(body) = Points(Ratio(body[i]))
<1> DEFINE S == {0} \union {Ratio(body[i]) : i \in Series(body, KvNames)}
<1>1. \A i \in Series(body, KvNames) : Ratio(body[i]) \in 0 .. 10
  BY BodyFacts, LineFacts
<1>2. S \in SUBSET Nat /\ S # {} /\ \A y \in S : y <= 10
  BY <1>1
<1>3. Max(S) \in S /\ \A y \in S : y <= Max(S)
  BY <1>2, MaxFacts
<1>4. KvCacheBpOf(body) = 1000 * Max(S)
  BY DEF KvCacheBpOf
<1>5. Max(S) \in 0 .. 10
  BY <1>2, <1>3
<1>6. \A i \in Series(body, KvNames) : Ratio(body[i]) <= Max(S)
  BY <1>3
<1>7. Max(S) # 0 => \E i \in Series(body, KvNames) : Max(S) = Ratio(body[i])
  BY <1>3
<1> DEFINE m == Max(S)
<1> HIDE DEF S, m
<1>8. KvCacheBpOf(body) = Points(m) /\ m \in 0 .. 10
  BY <1>4, <1>5 DEF m, Points
<1>9. ASSUME NEW i \in Series(body, KvNames)
      PROVE  KvCacheBpOf(body) >= Points(Ratio(body[i]))
  <2>1. Ratio(body[i]) \in 0 .. 10 /\ Ratio(body[i]) <= m
    BY <1>1, <1>6 DEF m
  <2> QED
    BY <2>1, <1>8 DEF Points
<1>10. m # 0 => \E i \in Series(body, KvNames) : KvCacheBpOf(body) = Points(Ratio(body[i]))
  BY <1>7, <1>8 DEF m
<1>11. KvCacheBpOf(body) \in BasisPoints /\ (KvCacheBpOf(body) # 0 => m # 0)
  BY <1>8 DEF BasisPoints, Points
<1> QED
  BY <1>9, <1>10, <1>11

\* A body without lines reports nothing.
LEMMA EmptyBody ==
  /\ <<>> \in Seq(Line)
  /\ QueueDepthOf(<<>>) = 0 /\ KvCacheBpOf(<<>>) = 0
<1>1. <<>> \in Seq(Line) /\ DOMAIN <<>> = {}
  OBVIOUS
<1>2. \A names : Series(<<>>, names) = {}
  BY <1>1 DEF Series
<1>3. Waits(<<>>) = 0
  <2>1. Series(<<>>, {QueueName}) = {}
    BY <1>2
  <2> QED
    BY <2>1, SumEmpty, Zenon DEF Waits
<1>4. QueueDepthOf(<<>>) = 0
  <2>1. QueueDepthOf(<<>>) = IF 0 \div 10 <= U64Max THEN 0 \div 10 ELSE U64Max
    BY <1>1, <1>3, DepthFacts
  <2> QED
    BY <2>1, HealthAssumption
<1>5. KvCacheBpOf(<<>>) = 0
  <2>1. Series(<<>>, KvNames) = {}
    BY <1>2
  <2>2. \A body \in Seq(Line) : Series(body, KvNames) = {} => KvCacheBpOf(body) = 0
    BY KvFacts
  <2> QED
    BY <1>1, <2>1, <2>2, Zenon
<1> QED
  BY <1>1, <1>4, <1>5

-----------------------------------------------------------------------------
(* The inductive invariant *)

\* A backend is scraped only right after its probe passed.
ScrapedAfterPass == \A b \in Backends : check[b] = "scraping" => failures[b] = 0

IInv == TypeOK /\ StreaksAgree /\ ScrapedIsFresh /\ ScrapedAfterPass

LEMMA Thresholds ==
  /\ Effective(UnhealthyThreshold) \in 1 .. MaxStreak
  /\ Effective(HealthyThreshold) \in 1 .. MaxStreak
  /\ \A n \in 1 .. MaxStreak :
       /\ n >= UnhealthyThreshold <=> n >= Effective(UnhealthyThreshold)
       /\ n >= HealthyThreshold <=> n >= Effective(HealthyThreshold)
  /\ MaxStreak \in Nat \ {0}
  BY HealthAssumption DEF Effective

LEMMA BumpFacts ==
  ASSUME NEW n \in 0 .. MaxStreak
  PROVE  /\ Bump(n) = IF n < MaxStreak THEN n + 1 ELSE MaxStreak
         /\ Bump(n) \in 1 .. MaxStreak
<1>1. Bump(n) = IF n + 1 <= MaxStreak THEN n + 1 ELSE MaxStreak
  BY MinOfTwo, HealthAssumption DEF Bump
<1> QED
  BY <1>1, Thresholds

LEMMA InitIInv == Init => IInv
<1> SUFFICES ASSUME Init PROVE IInv
  OBVIOUS
<1>1. TypeOK
  BY HealthAssumption DEF Init, TypeOK, BasisPoints
<1>2. StreaksAgree
  BY Thresholds DEF Init, StreaksAgree
<1>3. ScrapedIsFresh /\ ScrapedAfterPass
  BY Thresholds DEF Init, ScrapedIsFresh, ScrapedAfterPass
<1> QED
  BY <1>1, <1>2, <1>3 DEF IInv

\* One value of a function is written.
Wrote(g, f, b, v) ==
  /\ g[b] = v
  /\ \A c \in Backends : c # b => g[c] = f[c]

Places == {"idle", "probing", "scraping"}

\* A probe passed.
LEMMA PassedStep ==
  ASSUME IInv, NEW b \in Backends, ProbePassed(b), UNCHANGED up
  PROVE  IInv'
<1>0. /\ up \in [Backends -> BOOLEAN] /\ check \in [Backends -> Places]
      /\ healthy \in [Backends -> BOOLEAN]
      /\ failures \in [Backends -> 0 .. MaxStreak]
      /\ successes \in [Backends -> 0 .. MaxStreak]
      /\ queueDepth \in [Backends -> 0 .. U64Max]
      /\ kvCacheBp \in [Backends -> BasisPoints]
  BY DEF IInv, TypeOK, Places
<1> DEFINE n  == Bump(successes[b])
           ok == healthy[b] \/ n >= HealthyThreshold
<1>1. n \in 1 .. MaxStreak /\ n \in 0 .. MaxStreak /\ 0 \in 0 .. MaxStreak
  BY BumpFacts, Thresholds DEF IInv, TypeOK
<1>2. ok \in BOOLEAN /\ "scraping" \in Places
  BY DEF Places
<1>3. ok <=> healthy[b] \/ n >= HealthyThreshold
  OBVIOUS
<1>4. /\ successes' = [successes EXCEPT ![b] = n]
      /\ failures' = [failures EXCEPT ![b] = 0]
      /\ healthy' = [healthy EXCEPT ![b] = ok]
      /\ check' = [check EXCEPT ![b] = "scraping"]
      /\ UNCHANGED <<queueDepth, kvCacheBp, up>>
  BY DEF ProbePassed
<1> HIDE DEF n, ok
<1>5. successes' \in [Backends -> 0 .. MaxStreak] /\ Wrote(successes', successes, b, n)
  BY <1>1, <1>4, <1>0 DEF Wrote
<1>6. failures' \in [Backends -> 0 .. MaxStreak] /\ Wrote(failures', failures, b, 0)
  BY <1>1, <1>4, <1>0 DEF Wrote
<1>7. healthy' \in [Backends -> BOOLEAN] /\ Wrote(healthy', healthy, b, ok)
  BY <1>2, <1>4, <1>0 DEF Wrote
<1>8. check' \in [Backends -> Places] /\ Wrote(check', check, b, "scraping")
  BY <1>2, <1>4, <1>0 DEF Wrote
<1>9. TypeOK'
  <2>1. /\ up' \in [Backends -> BOOLEAN] /\ queueDepth' \in [Backends -> 0 .. U64Max]
        /\ kvCacheBp' \in [Backends -> BasisPoints]
    BY <1>0, <1>4
  <2> QED
    BY <2>1, <1>5, <1>6, <1>7, <1>8, Zenon DEF TypeOK, Places
<1>10. StreaksAgree'
  BY <1>1, <1>3, <1>5, <1>6, <1>7, Thresholds DEF IInv, StreaksAgree, Wrote
<1>11. ScrapedIsFresh'
  BY <1>3, <1>4, <1>6, <1>7, Thresholds DEF IInv, ScrapedIsFresh, Wrote
<1>12. ScrapedAfterPass'
  BY <1>6, <1>8 DEF IInv, ScrapedAfterPass, Wrote
<1> QED
  BY <1>9, <1>10, <1>11, <1>12 DEF IInv

\* A probe failed.
LEMMA FailedStep ==
  ASSUME IInv, NEW b \in Backends, ProbeFailed(b), UNCHANGED up
  PROVE  IInv'
<1>0. /\ up \in [Backends -> BOOLEAN] /\ check \in [Backends -> Places]
      /\ healthy \in [Backends -> BOOLEAN]
      /\ failures \in [Backends -> 0 .. MaxStreak]
      /\ successes \in [Backends -> 0 .. MaxStreak]
      /\ queueDepth \in [Backends -> 0 .. U64Max]
      /\ kvCacheBp \in [Backends -> BasisPoints]
  BY DEF IInv, TypeOK, Places
<1> DEFINE n == Bump(failures[b])
           down == healthy[b] => n >= UnhealthyThreshold
           ok == ~down
           depth == IF down THEN 0 ELSE queueDepth[b]
           kv == IF down THEN 0 ELSE kvCacheBp[b]
<1>1. n \in 1 .. MaxStreak /\ n \in 0 .. MaxStreak /\ 0 \in 0 .. MaxStreak
  BY BumpFacts, Thresholds DEF IInv, TypeOK
<1>2. ok \in BOOLEAN /\ "idle" \in Places
  BY DEF Places
<1>3. ok <=> healthy[b] /\ ~(n >= UnhealthyThreshold)
  OBVIOUS
<1>4. depth \in 0 .. U64Max /\ kv \in BasisPoints /\ (~ok => depth = 0 /\ kv = 0)
      /\ (ok => depth = queueDepth[b] /\ kv = kvCacheBp[b])
  <2>1. 0 \in 0 .. U64Max /\ 0 \in BasisPoints
    BY HealthAssumption DEF BasisPoints
  <2>2. queueDepth[b] \in 0 .. U64Max /\ kvCacheBp[b] \in BasisPoints
    BY <1>0
  <2>3. CASE ok
    <3>1. depth = queueDepth[b] /\ kv = kvCacheBp[b]
      BY <2>3
    <3> QED
      BY <2>2, <2>3, <3>1, Zenon
  <2>4. CASE ~ok
    <3>1. depth = 0 /\ kv = 0
      BY <2>4
    <3> QED
      BY <2>1, <2>4, <3>1, Zenon
  <2> QED
    BY <2>3, <2>4, Zenon
<1>5. /\ failures' = [failures EXCEPT ![b] = n]
      /\ successes' = [successes EXCEPT ![b] = 0]
      /\ healthy' = [healthy EXCEPT ![b] = ok]
      /\ queueDepth' = [queueDepth EXCEPT ![b] = depth]
      /\ kvCacheBp' = [kvCacheBp EXCEPT ![b] = kv]
      /\ check' = [check EXCEPT ![b] = "idle"]
      /\ UNCHANGED up
  BY DEF ProbeFailed
<1> HIDE DEF n, down, ok, depth, kv
<1>6. successes' \in [Backends -> 0 .. MaxStreak] /\ Wrote(successes', successes, b, 0)
  BY <1>1, <1>5, <1>0 DEF Wrote
<1>7. failures' \in [Backends -> 0 .. MaxStreak] /\ Wrote(failures', failures, b, n)
  BY <1>1, <1>5, <1>0 DEF Wrote
<1>8. healthy' \in [Backends -> BOOLEAN] /\ Wrote(healthy', healthy, b, ok)
  BY <1>2, <1>5, <1>0 DEF Wrote
<1>9. check' \in [Backends -> Places] /\ Wrote(check', check, b, "idle")
  BY <1>2, <1>5, <1>0 DEF Wrote
<1>10. queueDepth' \in [Backends -> 0 .. U64Max] /\ Wrote(queueDepth', queueDepth, b, depth)
  BY <1>4, <1>5, <1>0 DEF Wrote
<1>11. kvCacheBp' \in [Backends -> BasisPoints] /\ Wrote(kvCacheBp', kvCacheBp, b, kv)
  BY <1>4, <1>5, <1>0 DEF Wrote
<1>12. TypeOK'
  <2>1. up' \in [Backends -> BOOLEAN]
    BY <1>0, <1>5
  <2> QED
    BY <2>1, <1>6, <1>7, <1>8, <1>9, <1>10, <1>11, Zenon DEF TypeOK, Places
<1>13. StreaksAgree'
  BY <1>1, <1>3, <1>6, <1>7, <1>8, Thresholds DEF IInv, StreaksAgree, Wrote
<1>14. ScrapedIsFresh'
  BY <1>1, <1>3, <1>4, <1>7, <1>8, <1>10, <1>11, Thresholds DEF IInv, ScrapedIsFresh, Wrote
<1>15. ScrapedAfterPass'
  BY <1>7, <1>9 DEF IInv, ScrapedAfterPass, Wrote
<1> QED
  BY <1>12, <1>13, <1>14, <1>15 DEF IInv

\* A scrape ended.
LEMMA StoreStep ==
  ASSUME IInv, NEW b \in Backends, NEW depth \in 0 .. U64Max, NEW kv \in BasisPoints,
         Store(b, depth, kv)
  PROVE  IInv'
<1>0. /\ up \in [Backends -> BOOLEAN] /\ check \in [Backends -> Places]
      /\ healthy \in [Backends -> BOOLEAN]
      /\ failures \in [Backends -> 0 .. MaxStreak]
      /\ successes \in [Backends -> 0 .. MaxStreak]
      /\ queueDepth \in [Backends -> 0 .. U64Max]
      /\ kvCacheBp \in [Backends -> BasisPoints]
  BY DEF IInv, TypeOK, Places
<1>1. /\ check[b] = "scraping" /\ check' = [check EXCEPT ![b] = "idle"]
      /\ queueDepth' = [queueDepth EXCEPT ![b] = depth]
      /\ kvCacheBp' = [kvCacheBp EXCEPT ![b] = kv]
      /\ UNCHANGED <<up, healthy, failures, successes>>
  BY DEF Store
<1>2. check' \in [Backends -> Places] /\ Wrote(check', check, b, "idle")
  BY <1>1, <1>0 DEF Wrote, Places
<1>3. queueDepth' \in [Backends -> 0 .. U64Max] /\ Wrote(queueDepth', queueDepth, b, depth)
  BY <1>1, <1>0 DEF Wrote
<1>4. kvCacheBp' \in [Backends -> BasisPoints] /\ Wrote(kvCacheBp', kvCacheBp, b, kv)
  BY <1>1, <1>0 DEF Wrote
<1>5. TypeOK'
  <2>1. /\ up' \in [Backends -> BOOLEAN] /\ healthy' \in [Backends -> BOOLEAN]
        /\ failures' \in [Backends -> 0 .. MaxStreak]
        /\ successes' \in [Backends -> 0 .. MaxStreak]
    BY <1>0, <1>1
  <2> QED
    BY <2>1, <1>2, <1>3, <1>4, Zenon DEF TypeOK, Places
<1>6. failures[b] = 0
  BY <1>1 DEF IInv, ScrapedAfterPass
<1>7. StreaksAgree'
  BY <1>1 DEF IInv, StreaksAgree
<1>8. ScrapedIsFresh'
  BY <1>1, <1>3, <1>4, <1>6, Thresholds DEF IInv, ScrapedIsFresh, Wrote
<1>9. ScrapedAfterPass'
  BY <1>1, <1>2, <1>6 DEF IInv, ScrapedAfterPass, Wrote
<1> QED
  BY <1>5, <1>7, <1>8, <1>9 DEF IInv

\* A scrape stores what its body says, or nothing.
LEMMA ScrapeStores ==
  ASSUME NEW b \in Backends, (\E body \in Bodies : ApplyScrape(b, body)) \/ ScrapeFails(b)
  PROVE  \E depth \in 0 .. U64Max, kv \in BasisPoints : Store(b, depth, kv)
<1>1. ASSUME NEW body \in Bodies, ApplyScrape(b, body)
      PROVE  \E depth \in 0 .. U64Max, kv \in BasisPoints : Store(b, depth, kv)
  <2>1. QueueDepthOf(body) \in 0 .. U64Max /\ KvCacheBpOf(body) \in BasisPoints
    BY DepthFacts, KvFacts, HealthAssumption
  <2> QED
    BY <1>1, <2>1 DEF ApplyScrape
<1>2. 0 \in 0 .. U64Max /\ 0 \in BasisPoints
  BY HealthAssumption DEF BasisPoints
<1> QED
  BY <1>1, <1>2 DEF ScrapeFails

LEMMA NextIInv == IInv /\ [Next]_vars => IInv'
<1> SUFFICES ASSUME IInv, [Next]_vars PROVE IInv'
  OBVIOUS
<1>1. CASE StartRound
  <2>1. TypeOK' /\ UNCHANGED <<up, healthy, failures, successes, queueDepth, kvCacheBp>>
    BY <1>1 DEF IInv, TypeOK, StartRound
  <2>2. \A b \in Backends : check'[b] = "probing"
    BY <1>1 DEF StartRound
  <2> QED
    BY <2>1, <2>2 DEF IInv, StreaksAgree, ScrapedIsFresh, ScrapedAfterPass
<1>2. ASSUME NEW b \in Backends, ProbeEnds(b) PROVE IInv'
  BY <1>2, PassedStep, FailedStep DEF ProbeEnds
<1>3. ASSUME NEW b \in Backends, (\E body \in Bodies : ApplyScrape(b, body)) \/ ScrapeFails(b)
      PROVE  IInv'
  BY <1>3, ScrapeStores, StoreStep
<1>4. ASSUME NEW b \in Backends, Flip(b) PROVE IInv'
  <2>1. TypeOK' /\ UNCHANGED <<check, healthy, failures, successes, queueDepth, kvCacheBp>>
    BY <1>4 DEF IInv, TypeOK, Flip
  <2> QED
    BY <2>1 DEF IInv, StreaksAgree, ScrapedIsFresh, ScrapedAfterPass
<1>5. CASE UNCHANGED vars
  BY <1>5 DEF vars, IInv, TypeOK, StreaksAgree, ScrapedIsFresh, ScrapedAfterPass
<1> QED
  BY <1>1, <1>2, <1>3, <1>4, <1>5 DEF Next, CheckStep

LEMMA AlwaysIInv == Spec => []IInv
  BY InitIInv, NextIInv, PTL DEF Spec

\* Type correctness of the health checker: streaks, depths and cache usage stay in
\* their ranges, whatever bodies the backends send.
THEOREM TypeCorrect == Spec => []TypeOK
<1>1. IInv => TypeOK
  BY DEF IInv
<1> QED
  BY <1>1, AlwaysIInv, PTL

\* No scraped value outlives the failures that mark its backend down.
THEOREM NoStaleScrape == Spec => []ScrapedIsFresh
<1>1. IInv => ScrapedIsFresh
  BY DEF IInv
<1> QED
  BY <1>1, AlwaysIInv, PTL

\* At most one of the two streaks runs, and the flag agrees with a streak that has
\* reached its threshold.
THEOREM FlagAgreesWithStreak == Spec => []StreaksAgree
<1>1. IInv => StreaksAgree
  BY DEF IInv
<1> QED
  BY <1>1, AlwaysIInv, PTL
-----------------------------------------------------------------------------
(* What the request path reads: the feed *)

\* Writing the value a function has already changes nothing.
LEMMA WriteSame ==
  ASSUME NEW S, NEW f \in [Backends -> S], NEW b \in Backends
  PROVE  [f EXCEPT ![b] = f[b]] = f
  OBVIOUS

\* A passed probe marks its backend up or publishes nothing.
LEMMA PassedFeeds ==
  ASSUME IInv, NEW b \in Backends, ProbePassed(b)
  PROVE  Feed!MarkUp(b) \/ UNCHANGED Feed!feedVars
<1> DEFINE ok == healthy[b] \/ Bump(successes[b]) >= HealthyThreshold
<1>1. healthy \in [Backends -> BOOLEAN]
  BY DEF IInv, TypeOK
<1>2. healthy' = [healthy EXCEPT ![b] = ok] /\ UNCHANGED queueDepth /\ ok \in BOOLEAN
  BY DEF ProbePassed
<1>3. healthy[b] => ok
  OBVIOUS
<1> HIDE DEF ok
<1>4. CASE ~healthy[b] /\ ok
  <2>1. ok = TRUE
    BY <1>4
  <2> QED
    BY <1>2, <1>4, <2>1, Zenon DEF Feed!MarkUp
<1>5. CASE healthy[b] \/ ~ok
  <2>1. ok = healthy[b]
    BY <1>1, <1>2, <1>3, <1>5
  <2>2. healthy' = healthy
    BY <1>1, <1>2, <2>1, WriteSame, Zenon
  <2> QED
    BY <1>2, <2>2 DEF Feed!feedVars
<1> QED
  BY <1>4, <1>5

\* A failed probe marks its backend down and forgets its depth, or publishes nothing.
LEMMA FailedFeeds ==
  ASSUME IInv, NEW b \in Backends, ProbeFailed(b)
  PROVE  Feed!MarkDown(b) \/ UNCHANGED Feed!feedVars
<1> DEFINE down == healthy[b] => Bump(failures[b]) >= UnhealthyThreshold
           depth == IF down THEN 0 ELSE queueDepth[b]
           ok == ~down
<1>1. healthy \in [Backends -> BOOLEAN] /\ queueDepth \in [Backends -> 0 .. U64Max]
  BY DEF IInv, TypeOK
<1>2. /\ healthy' = [healthy EXCEPT ![b] = ok]
      /\ queueDepth' = [queueDepth EXCEPT ![b] = depth]
      /\ ok \in BOOLEAN /\ (ok => healthy[b])
  BY DEF ProbeFailed
<1>3. (ok => depth = queueDepth[b]) /\ (~ok => depth = 0)
  OBVIOUS
<1> HIDE DEF down, depth, ok
<1>4. CASE ~ok
  <2>1. ok = FALSE /\ depth = 0
    BY <1>3, <1>4
  <2> QED
    BY <1>2, <2>1, Zenon DEF Feed!MarkDown
<1>5. CASE ok
  <2>1. ok = healthy[b] /\ depth = queueDepth[b]
    BY <1>1, <1>2, <1>3, <1>5
  <2>2. healthy' = healthy /\ queueDepth' = queueDepth
    BY <1>1, <1>2, <2>1, WriteSame, Zenon
  <2> QED
    BY <2>2 DEF Feed!feedVars
<1> QED
  BY <1>4, <1>5

LEMMA StepFeeds == IInv /\ [Next]_vars => [Feed!FeedStep]_(Feed!feedVars)
<1> SUFFICES ASSUME IInv, [Next]_vars PROVE Feed!FeedStep \/ UNCHANGED Feed!feedVars
  OBVIOUS
<1>1. ASSUME NEW b \in Backends, ProbeEnds(b)
      PROVE  Feed!FeedStep \/ UNCHANGED Feed!feedVars
  BY <1>1, PassedFeeds, FailedFeeds, Zenon DEF ProbeEnds, Feed!FeedStep
<1>2. ASSUME NEW b \in Backends, (\E body \in Bodies : ApplyScrape(b, body)) \/ ScrapeFails(b)
      PROVE  Feed!FeedStep
  <2>1. PICK depth \in 0 .. U64Max, kv \in BasisPoints : Store(b, depth, kv)
    BY <1>2, ScrapeStores, Zenon
  <2>2. Feed!Report(b, depth)
    BY <2>1 DEF Store, Feed!Report
  <2> QED
    BY <2>2, Zenon DEF Feed!FeedStep
<1>3. CASE StartRound \/ UNCHANGED vars \/ \E b \in Backends : Flip(b)
  BY <1>3 DEF StartRound, Flip, vars, Feed!feedVars
<1> QED
  BY <1>1, <1>2, <1>3 DEF Next, CheckStep

\* The health checker implements HealthFeed: the request path is proved against a
\* feed that only marks up, marks down forgetting the depth, and reports.
THEOREM ImplementsFeed == Spec => MeetsFeed
<1>1. Init => Feed!FeedInit
  BY DEF Init, Feed!FeedInit
<1> QED
  BY <1>1, StepFeeds, AlwaysIInv, PTL DEF Spec, MeetsFeed, Feed!FeedSpec
-----------------------------------------------------------------------------
(* The scraped values are those of the last body that still counts *)

\* Each backend's scraped values are what its audited body says.
ScrapedFrom ==
  /\ scraped \in [Backends -> Seq(Line)]
  /\ \A b \in Backends : /\ queueDepth[b] = QueueDepthOf(scraped[b])
                         /\ kvCacheBp[b] = KvCacheBpOf(scraped[b])

LEMMA AuditIsNext == [AuditNext]_auditVars => [Next]_vars
  BY DEF AuditNext, AuditProbe, AuditScrape, Next, CheckStep, auditVars, vars

\* The specification's sum over the lines is the code's sum over the series.
LEMMA SumOfLines ==
  ASSUME NEW body \in Seq(Line)
  PROVE  MapThenSumSet(LAMBDA i : Waiting(body)[i], DOMAIN body) = Waits(body)
<1> DEFINE S == Series(body, {QueueName})
<1>1. IsFiniteSet(DOMAIN body) /\ S \in SUBSET DOMAIN body
  BY BodyFacts
<1>2. \A i \in S : Waiting(body)[i] = Values(body)[i] /\ Values(body)[i] \in Nat
  BY BodyFacts, LineFacts DEF Waiting, Values, Series
<1>3. \A i \in DOMAIN body \ S : Waiting(body)[i] = 0
  BY DEF Waiting, Series
<1>4. SumOf(Waiting(body), DOMAIN body) = SumOf(Values(body), S)
  <2> HIDE DEF S
  <2> QED
    BY <1>1, <1>2, <1>3, SumPart
<1> QED
  BY <1>4, SumIsMapThenSum DEF Waits

LEMMA BodyMatches ==
  ASSUME TypeOK, ScrapedFrom
  PROVE  ScrapeMatchesBody
<1> SUFFICES ASSUME NEW b \in Backends
             PROVE  LET body  == scraped[b]
                        depth == queueDepth[b]
                        sum   == MapThenSumSet(LAMBDA i : Waiting(body)[i], DOMAIN body)
                    IN  /\ depth < U64Max => 10 * depth <= sum /\ sum < 10 * (depth + 1)
                        /\ depth = U64Max => sum >= 10 * U64Max
                        /\ \A t \in Tenths(body, KvNames) : kvCacheBp[b] >= 1000 * Min({t, 10})
                        /\ kvCacheBp[b] # 0 =>
                             \E t \in Tenths(body, KvNames) : kvCacheBp[b] = 1000 * Min({t, 10})
  BY DEF ScrapeMatchesBody
<1> DEFINE body  == scraped[b]
           depth == queueDepth[b]
           sum   == MapThenSumSet(LAMBDA i : Waiting(body)[i], DOMAIN body)
<1>1. body \in Seq(Line) /\ depth = QueueDepthOf(body) /\ kvCacheBp[b] = KvCacheBpOf(body)
  BY DEF ScrapedFrom
<1>2. sum \in Nat /\ depth = IF sum \div 10 <= U64Max THEN sum \div 10 ELSE U64Max
  BY <1>1, SumOfLines, DepthFacts
<1> HIDE DEF body, depth, sum
<1>3. /\ depth < U64Max => 10 * depth <= sum /\ sum < 10 * (depth + 1)
      /\ depth = U64Max => sum >= 10 * U64Max
  BY <1>2, HealthAssumption
<1>4. \A i \in Series(body, KvNames) :
        /\ Ratio(body[i]) = Min({NonNegative(body[i]), 10})
        /\ NonNegative(body[i]) \in Tenths(body, KvNames)
  BY <1>1, BodyFacts, LineFacts DEF Tenths
<1>5. ASSUME NEW t \in Tenths(body, KvNames) PROVE kvCacheBp[b] >= 1000 * Min({t, 10})
  <2>1. PICK i \in Series(body, KvNames) : t = NonNegative(body[i])
    BY DEF Tenths
  <2>2. Min({t, 10}) = Ratio(body[i])
    BY <2>1, <1>4, Zenon
  <2> QED
    BY <2>2, <1>1, KvFacts DEF Points
<1>6. ASSUME kvCacheBp[b] # 0
      PROVE  \E t \in Tenths(body, KvNames) : kvCacheBp[b] = 1000 * Min({t, 10})
  <2>1. PICK i \in Series(body, KvNames) : kvCacheBp[b] = Points(Ratio(body[i]))
    BY <1>1, <1>6, KvFacts
  <2> DEFINE t == NonNegative(body[i])
  <2>2. t \in Tenths(body, KvNames) /\ Min({t, 10}) = Ratio(body[i])
    BY <1>4, Zenon
  <2> HIDE DEF t
  <2> DEFINE Told(u) == kvCacheBp[b] = 1000 * Min({u, 10})
  <2>3. Told(t)
    BY <2>1, <2>2 DEF Points
  <2> HIDE DEF Told
  <2>4. \E u \in Tenths(body, KvNames) : Told(u)
    BY <2>2, <2>3
  <2> QED
    BY <2>4 DEF Told
<1> QED
  BY <1>3, <1>5, <1>6 DEF body, depth, sum

\* One backend's values and body are written together.
LEMMA WritesFrom ==
  ASSUME ScrapedFrom, NEW b \in Backends, NEW body, NEW s, NEW q, NEW k,
         Wrote(s, scraped, b, body), Wrote(q, queueDepth, b, QueueDepthOf(body)),
         Wrote(k, kvCacheBp, b, KvCacheBpOf(body))
  PROVE  \A c \in Backends : q[c] = QueueDepthOf(s[c]) /\ k[c] = KvCacheBpOf(s[c])
  BY Zenon DEF ScrapedFrom, Wrote

LEMMA StoreFrom ==
  ASSUME IInv, ScrapedFrom, NEW b \in Backends, NEW body \in Seq(Line),
         Store(b, QueueDepthOf(body), KvCacheBpOf(body)),
         scraped' \in [Backends -> Seq(Line)], Wrote(scraped', scraped, b, body)
  PROVE  ScrapedFrom'
<1>1. queueDepth \in [Backends -> 0 .. U64Max] /\ kvCacheBp \in [Backends -> BasisPoints]
  BY DEF IInv, TypeOK
<1>2. /\ Wrote(queueDepth', queueDepth, b, QueueDepthOf(body))
      /\ Wrote(kvCacheBp', kvCacheBp, b, KvCacheBpOf(body))
  BY <1>1 DEF Store, Wrote
<1>3. \A c \in Backends : /\ queueDepth'[c] = QueueDepthOf(scraped'[c])
                          /\ kvCacheBp'[c] = KvCacheBpOf(scraped'[c])
  BY <1>2, WritesFrom
<1> QED
  BY <1>3 DEF ScrapedFrom

LEMMA ProbeFrom ==
  ASSUME IInv, ScrapedFrom, NEW b \in Backends, AuditProbe(b)
  PROVE  ScrapedFrom'
<1>1. /\ queueDepth \in [Backends -> 0 .. U64Max] /\ kvCacheBp \in [Backends -> BasisPoints]
      /\ healthy \in [Backends -> BOOLEAN] /\ scraped \in [Backends -> Seq(Line)]
  BY DEF IInv, TypeOK, ScrapedFrom
<1>2. CASE up[b]
  <2>1. UNCHANGED <<queueDepth, kvCacheBp>>
    BY <1>2 DEF AuditProbe, ProbeEnds, ProbePassed
  <2>2. scraped' = [scraped EXCEPT ![b] = scraped[b]]
    BY <1>2 DEF AuditProbe
  <2>3. scraped' = scraped
    BY <1>1, <2>2, WriteSame, Zenon
  <2> QED
    BY <2>1, <2>3 DEF ScrapedFrom
<1>3. CASE ~up[b]
  <2> DEFINE down == healthy[b] => Bump(failures[b]) >= UnhealthyThreshold
             ok == ~down
             depth == IF down THEN 0 ELSE queueDepth[b]
             kv == IF down THEN 0 ELSE kvCacheBp[b]
             body == IF down THEN <<>> ELSE scraped[b]
  <2>1. /\ healthy' = [healthy EXCEPT ![b] = ok] /\ ok \in BOOLEAN
        /\ queueDepth' = [queueDepth EXCEPT ![b] = depth]
        /\ kvCacheBp' = [kvCacheBp EXCEPT ![b] = kv]
    BY <1>3 DEF AuditProbe, ProbeEnds, ProbeFailed
  <2>2. /\ ok => depth = queueDepth[b] /\ kv = kvCacheBp[b] /\ body = scraped[b]
        /\ ~ok => depth = 0 /\ kv = 0 /\ body = <<>>
    OBVIOUS
  <2> HIDE DEF down, ok, depth, kv, body
  <2>3. healthy'[b] = ok
    BY <1>1, <2>1
  <2>4. scraped' = [scraped EXCEPT ![b] = IF ~healthy'[b] THEN <<>> ELSE scraped[b]]
    BY <1>3 DEF AuditProbe
  <2>5. scraped' = [scraped EXCEPT ![b] = body]
    <3>1. (IF ~healthy'[b] THEN <<>> ELSE scraped[b]) = body
      BY <2>1, <2>2, <2>3
    <3> QED
      BY <2>4, <3>1, Zenon
  <2>6. body \in Seq(Line) /\ depth = QueueDepthOf(body) /\ kv = KvCacheBpOf(body)
    <3>1. CASE ok
      BY <3>1, <1>1, <2>2 DEF ScrapedFrom
    <3>2. CASE ~ok
      BY <3>2, <2>2, EmptyBody
    <3> QED
      BY <3>1, <3>2
  <2>7. Wrote(queueDepth', queueDepth, b, depth) /\ Wrote(kvCacheBp', kvCacheBp, b, kv)
    BY <1>1, <2>1 DEF Wrote
  <2>8. scraped' \in [Backends -> Seq(Line)] /\ Wrote(scraped', scraped, b, body)
    BY <1>1, <2>5, <2>6 DEF Wrote
  <2>9. \A c \in Backends : /\ queueDepth'[c] = QueueDepthOf(scraped'[c])
                            /\ kvCacheBp'[c] = KvCacheBpOf(scraped'[c])
    BY <2>6, <2>7, <2>8, WritesFrom
  <2> QED
    BY <2>8, <2>9 DEF ScrapedFrom
<1> QED
  BY <1>2, <1>3

LEMMA NextFrom == IInv /\ ScrapedFrom /\ [AuditNext]_auditVars => ScrapedFrom'
<1> SUFFICES ASSUME IInv, ScrapedFrom, [AuditNext]_auditVars PROVE ScrapedFrom'
  OBVIOUS
<1>1. ASSUME NEW b \in Backends, AuditScrape(b) PROVE ScrapedFrom'
  <2>1. PICK body \in Seq(Line) : /\ Store(b, QueueDepthOf(body), KvCacheBpOf(body))
                                  /\ scraped' = [scraped EXCEPT ![b] = body]
    BY <1>1, EmptyBody, HealthAssumption DEF AuditScrape, ApplyScrape, ScrapeFails
  <2>2. scraped' \in [Backends -> Seq(Line)] /\ Wrote(scraped', scraped, b, body)
    BY <2>1 DEF ScrapedFrom, Wrote
  <2>3. Store(b, QueueDepthOf(body), KvCacheBpOf(body))
    BY <2>1
  <2> QED
    BY <2>2, <2>3, StoreFrom, Zenon
<1>2. CASE (StartRound \/ \E b \in Backends : Flip(b)) /\ UNCHANGED <<recent, scraped>>
  BY <1>2 DEF StartRound, Flip, ScrapedFrom
<1>3. CASE UNCHANGED auditVars
  BY <1>3 DEF auditVars, vars, ScrapedFrom
<1> QED
  BY <1>1, <1>2, <1>3, ProbeFrom DEF AuditNext

\* The published depth is the saturated sum over the series of the last body that
\* still counts, and the published cache usage their maximum: nothing is left over from
\* an older body, and a backend seen down keeps nothing.
THEOREM ScrapeIsExact == AuditSpec => []ScrapeMatchesBody
<1>1. AuditInit => IInv /\ ScrapedFrom
  BY InitIInv, EmptyBody DEF AuditInit, ScrapedFrom, Init
<1>2. IInv /\ ScrapedFrom /\ [AuditNext]_auditVars => IInv' /\ ScrapedFrom'
  BY AuditIsNext, NextIInv, NextFrom
<1>3. IInv /\ ScrapedFrom => ScrapeMatchesBody
  BY BodyMatches DEF IInv
<1> QED
  BY <1>1, <1>2, <1>3, PTL DEF AuditSpec
-----------------------------------------------------------------------------
(* Two counters and a flag stand for the history of the probes *)

\* The counters are the lengths of the two streaks that end the history.
CountsStreaks(h, fails, oks) ==
  /\ h \in Seq(BOOLEAN) /\ Len(h) <= MaxStreak
  /\ \A n \in 0 .. MaxStreak : /\ Streak(h, FALSE, n) <=> n <= fails
                               /\ Streak(h, TRUE, n) <=> n <= oks

Counted ==
  /\ recent \in [Backends -> Seq(BOOLEAN)]
  /\ \A b \in Backends : CountsStreaks(recent[b], failures[b], successes[b])

\* The history after one more probe with result v.
Extended(h, v) == Append(IF Len(h) < MaxStreak THEN h ELSE Tail(h), v)

LEMMA ExtendedFacts ==
  ASSUME NEW h \in Seq(BOOLEAN), Len(h) <= MaxStreak, NEW v \in BOOLEAN
  PROVE  /\ Extended(h, v) \in Seq(BOOLEAN)
         /\ Len(Extended(h, v)) = IF Len(h) < MaxStreak THEN Len(h) + 1 ELSE MaxStreak
         /\ Extended(h, v)[Len(Extended(h, v))] = v
         /\ \A i \in 1 .. Len(Extended(h, v)) - 1 :
              Extended(h, v)[i] = h[i + (Len(h) + 1 - Len(Extended(h, v)))]
<1>1. CASE Len(h) < MaxStreak
  <2>1. Extended(h, v) = Append(h, v)
    BY <1>1 DEF Extended
  <2>2. /\ Append(h, v) \in Seq(BOOLEAN) /\ Len(Append(h, v)) = Len(h) + 1
        /\ \A i \in 1 .. Len(h) : Append(h, v)[i] = h[i]
        /\ Append(h, v)[Len(h) + 1] = v
    BY AppendProperties
  <2> QED
    BY <1>1, <2>1, <2>2
<1>2. CASE ~(Len(h) < MaxStreak)
  <2>1. Len(h) = MaxStreak /\ MaxStreak \in Nat \ {0} /\ h # <<>>
    BY <1>2, Thresholds, LenProperties
  <2>2. /\ Tail(h) \in Seq(BOOLEAN) /\ Len(Tail(h)) = MaxStreak - 1
        /\ \A i \in 1 .. Len(Tail(h)) : Tail(h)[i] = h[i + 1]
    BY <2>1, HeadTailProperties
  <2> DEFINE t == Tail(h)
  <2> HIDE DEF t
  <2>3. /\ Append(t, v) \in Seq(BOOLEAN) /\ Len(Append(t, v)) = Len(t) + 1
        /\ \A i \in 1 .. Len(t) : Append(t, v)[i] = t[i]
        /\ Append(t, v)[Len(t) + 1] = v
    BY <2>2, AppendProperties DEF t
  <2>4. Extended(h, v) = Append(t, v)
    BY <1>2 DEF Extended, t
  <2> QED
    BY <1>2, <2>1, <2>2, <2>3, <2>4 DEF t
<1> QED
  BY <1>1, <1>2

\* A streak of n + 1 ends a history exactly when its newest result extends one of n.
LEMMA StreakExtends ==
  ASSUME NEW h \in Seq(BOOLEAN), Len(h) <= MaxStreak, NEW v \in BOOLEAN, NEW w \in BOOLEAN,
         NEW n \in 0 .. MaxStreak - 1
  PROVE  Streak(Extended(h, v), w, n + 1) <=> w = v /\ Streak(h, w, n)
<1> DEFINE e == Extended(h, v)
           off == Len(h) + 1 - Len(e)
<1>0. Len(h) \in Nat /\ MaxStreak \in Nat
  BY Thresholds
<1>1. /\ Len(e) = IF Len(h) < MaxStreak THEN Len(h) + 1 ELSE MaxStreak
      /\ e[Len(e)] = v
      /\ \A i \in 1 .. Len(e) - 1 : e[i] = h[i + off]
  BY ExtendedFacts
<1> HIDE DEF e
<1>2. Len(e) \in Nat /\ off \in {0, 1} /\ (off = 1 => Len(e) = MaxStreak)
  BY <1>0, <1>1
<1>3. Len(e) >= n + 1 <=> Len(h) >= n
  BY <1>0, <1>1
<1>4. ASSUME Streak(e, w, n + 1) PROVE w = v /\ Streak(h, w, n)
  <2>1. Len(e) >= n + 1 /\ \A i \in Len(e) - n .. Len(e) : e[i] = w
    BY <1>2, <1>4 DEF Streak
  <2>2. w = v
    BY <1>1, <1>2, <2>1
  <2>3. ASSUME NEW j \in Len(h) - n + 1 .. Len(h) PROVE h[j] = w
    <3>1. j - off \in 1 .. Len(e) - 1 /\ j - off \in Len(e) - n .. Len(e)
          /\ (j - off) + off = j
      BY <1>0, <1>2, <2>1
    <3> QED
      BY <3>1, <1>1, <2>1
  <2> QED
    BY <1>3, <2>1, <2>2, <2>3 DEF Streak
<1>5. ASSUME w = v, Streak(h, w, n) PROVE Streak(e, w, n + 1)
  <2>1. Len(h) >= n /\ \A j \in Len(h) - n + 1 .. Len(h) : h[j] = w
    BY <1>5 DEF Streak
  <2>2. ASSUME NEW i \in Len(e) - n .. Len(e) PROVE e[i] = w
    <3>1. CASE i = Len(e)
      BY <3>1, <1>1, <1>5
    <3>2. CASE i # Len(e)
      <4>1. i \in 1 .. Len(e) - 1 /\ i + off \in Len(h) - n + 1 .. Len(h)
        BY <3>2, <1>0, <1>2, <1>3, <2>1
      <4> QED
        BY <4>1, <1>1, <2>1
    <3> QED
      BY <3>1, <3>2
  <2>3. Len(e) - (n + 1) + 1 = Len(e) - n
    BY <1>2
  <2> QED
    BY <1>3, <2>1, <2>2, <2>3 DEF Streak
<1> QED
  BY <1>4, <1>5 DEF e

\* A probe extends its own streak and ends the other one.
LEMMA CountsExtend ==
  ASSUME NEW h, NEW fails \in 0 .. MaxStreak, NEW oks \in 0 .. MaxStreak,
         CountsStreaks(h, fails, oks), NEW v \in BOOLEAN
  PROVE  CountsStreaks(Extended(h, v), IF v THEN 0 ELSE Bump(fails), IF v THEN Bump(oks) ELSE 0)
<1> DEFINE e == Extended(h, v)
           f == IF v THEN 0 ELSE Bump(fails)
           o == IF v THEN Bump(oks) ELSE 0
<1>0. /\ h \in Seq(BOOLEAN) /\ Len(h) <= MaxStreak
      /\ \A n \in 0 .. MaxStreak : /\ Streak(h, FALSE, n) <=> n <= fails
                                   /\ Streak(h, TRUE, n) <=> n <= oks
  BY DEF CountsStreaks
<1>6. MaxStreak \in Nat \ {0}
  BY Thresholds
<1>1. e \in Seq(BOOLEAN) /\ Len(e) <= MaxStreak /\ Len(e) \in Nat
  BY <1>0, <1>6, ExtendedFacts
<1>2. /\ v => f = 0 /\ o = IF oks < MaxStreak THEN oks + 1 ELSE MaxStreak
      /\ ~v => o = 0 /\ f = IF fails < MaxStreak THEN fails + 1 ELSE MaxStreak
  BY BumpFacts
<1>3. \A n \in 0 .. MaxStreak - 1 :
        /\ Streak(e, FALSE, n + 1) <=> ~v /\ Streak(h, FALSE, n)
        /\ Streak(e, TRUE, n + 1) <=> v /\ Streak(h, TRUE, n)
  BY <1>0, StreakExtends
<1> HIDE DEF e, f, o
<1>4. Streak(e, FALSE, 0) /\ Streak(e, TRUE, 0)
  BY <1>1 DEF Streak
<1>5. ASSUME NEW n \in 0 .. MaxStreak
      PROVE  (Streak(e, FALSE, n) <=> n <= f) /\ (Streak(e, TRUE, n) <=> n <= o)
  <2>1. CASE n = 0
    <3>1. 0 <= f /\ 0 <= o
      BY <1>6, <1>2
    <3> QED
      BY <2>1, <3>1, <1>4, Zenon
  <2>2. CASE n # 0
    <3>1. n - 1 \in 0 .. MaxStreak - 1 /\ n - 1 \in 0 .. MaxStreak /\ (n - 1) + 1 = n
      BY <2>2, <1>6
    <3>2. /\ Streak(e, FALSE, n) <=> ~v /\ n - 1 <= fails
          /\ Streak(e, TRUE, n) <=> v /\ n - 1 <= oks
      BY <3>1, <1>0, <1>3
    <3>3. (~v /\ n - 1 <= fails <=> n <= f) /\ (v /\ n - 1 <= oks <=> n <= o)
      <4>1. CASE v
        BY <2>2, <4>1, <1>6, <1>2
      <4>2. CASE ~v
        BY <2>2, <4>2, <1>6, <1>2
      <4> QED
        BY <4>1, <4>2
    <3> QED
      BY <3>2, <3>3, Zenon
  <2> QED
    BY <2>1, <2>2
<1> QED
  BY <1>1, <1>5 DEF CountsStreaks, e, f, o
\* What a probe writes.
LEMMA ProbeWrites ==
  ASSUME IInv, NEW b \in Backends, ProbeEnds(b)
  PROVE  /\ up[b] \in BOOLEAN /\ failures[b] \in 0 .. MaxStreak /\ successes[b] \in 0 .. MaxStreak
         /\ Wrote(failures', failures, b, IF up[b] THEN 0 ELSE Bump(failures[b]))
         /\ Wrote(successes', successes, b, IF up[b] THEN Bump(successes[b]) ELSE 0)
         /\ \A c \in Backends : c # b => healthy'[c] = healthy[c]
         /\ healthy'[b] <=> IF up[b] THEN healthy[b] \/ Bump(successes[b]) >= HealthyThreshold
                                     ELSE healthy[b] /\ ~(Bump(failures[b]) >= UnhealthyThreshold)
<1>1. /\ up \in [Backends -> BOOLEAN] /\ healthy \in [Backends -> BOOLEAN]
      /\ failures \in [Backends -> 0 .. MaxStreak] /\ successes \in [Backends -> 0 .. MaxStreak]
  BY DEF IInv, TypeOK
<1>2. CASE up[b]
  <2>1. /\ successes' = [successes EXCEPT ![b] = Bump(successes[b])]
        /\ failures' = [failures EXCEPT ![b] = 0]
        /\ healthy' = [healthy EXCEPT ![b] = healthy[b] \/ Bump(successes[b]) >= HealthyThreshold]
    BY <1>2 DEF ProbeEnds, ProbePassed
  <2>2. /\ Wrote(failures', failures, b, 0)
        /\ Wrote(successes', successes, b, Bump(successes[b]))
    BY <1>1, <2>1 DEF Wrote
  <2>3. /\ \A c \in Backends : c # b => healthy'[c] = healthy[c]
        /\ healthy'[b] <=> healthy[b] \/ Bump(successes[b]) >= HealthyThreshold
    BY <1>1, <2>1
  <2> QED
    BY <1>1, <1>2, <2>2, <2>3
<1>3. CASE ~up[b]
  <2> DEFINE down == healthy[b] => Bump(failures[b]) >= UnhealthyThreshold
  <2>1. /\ successes' = [successes EXCEPT ![b] = 0]
        /\ failures' = [failures EXCEPT ![b] = Bump(failures[b])]
        /\ healthy' = [healthy EXCEPT ![b] = ~down]
    BY <1>3 DEF ProbeEnds, ProbeFailed
  <2>2. /\ Wrote(failures', failures, b, Bump(failures[b]))
        /\ Wrote(successes', successes, b, 0)
    BY <1>1, <2>1 DEF Wrote
  <2>3. /\ \A c \in Backends : c # b => healthy'[c] = healthy[c]
        /\ healthy'[b] <=> ~down
    BY <1>1, <2>1
  <2> QED
    BY <1>1, <1>3, <2>2, <2>3
<1> QED
  BY <1>2, <1>3

LEMMA ProbeCounted ==
  ASSUME IInv, Counted, NEW b \in Backends, AuditProbe(b)
  PROVE  Counted'
<1> DEFINE e == Extended(recent[b], up[b])
           f == IF up[b] THEN 0 ELSE Bump(failures[b])
           o == IF up[b] THEN Bump(successes[b]) ELSE 0
<1>1. /\ up[b] \in BOOLEAN /\ failures[b] \in 0 .. MaxStreak /\ successes[b] \in 0 .. MaxStreak
      /\ Wrote(failures', failures, b, f) /\ Wrote(successes', successes, b, o)
  BY ProbeWrites DEF AuditProbe
<1>2. CountsStreaks(e, f, o)
  BY <1>1, CountsExtend DEF Counted
<1>3. recent' = [recent EXCEPT ![b] = e]
  BY DEF AuditProbe, Extended
<1> HIDE DEF e, f, o
<1>4. e \in Seq(BOOLEAN)
  BY <1>2 DEF CountsStreaks
<1>5. recent' \in [Backends -> Seq(BOOLEAN)] /\ Wrote(recent', recent, b, e)
  BY <1>3, <1>4 DEF Counted, Wrote
<1>6. ASSUME NEW c \in Backends PROVE CountsStreaks(recent'[c], failures'[c], successes'[c])
  BY <1>1, <1>2, <1>5, Zenon DEF Wrote, Counted
<1>7. \A c \in Backends : CountsStreaks(recent[c], failures[c], successes[c])'
  BY <1>6 DEF CountsStreaks, Streak
<1> QED
  BY <1>5, <1>7 DEF Counted

LEMMA NextCounted == IInv /\ Counted /\ [AuditNext]_auditVars => Counted'
<1> SUFFICES ASSUME IInv, Counted, [AuditNext]_auditVars PROVE Counted'
  OBVIOUS
<1>1. CASE UNCHANGED <<recent, failures, successes>>
  BY <1>1 DEF Counted, CountsStreaks, Streak
<1>2. ASSUME NEW b \in Backends, AuditScrape(b) PROVE UNCHANGED <<recent, failures, successes>>
  BY <1>2 DEF AuditScrape, ApplyScrape, ScrapeFails, Store
<1>3. CASE (StartRound \/ \E b \in Backends : Flip(b)) /\ UNCHANGED <<recent, scraped>>
  BY <1>1, <1>3 DEF StartRound, Flip
<1>4. CASE UNCHANGED auditVars
  BY <1>1, <1>4 DEF auditVars, vars
<1> QED
  BY <1>1, <1>2, <1>3, <1>4, ProbeCounted DEF AuditNext

\* One step's effect on the flag, read off the counters.
FlagFollowsCounters ==
  \A b \in Backends :
    healthy'[b] <=> \/ Effective(HealthyThreshold) <= successes'[b]
                    \/ healthy[b] /\ ~(Effective(UnhealthyThreshold) <= failures'[b])

LEMMA FlagStep == IInv /\ [Next]_vars => FlagFollowsCounters
<1> SUFFICES ASSUME IInv, [Next]_vars PROVE FlagFollowsCounters
  OBVIOUS
<1>0. /\ \A c \in Backends : failures[c] \in 0 .. MaxStreak /\ successes[c] \in 0 .. MaxStreak
      /\ StreaksAgree
  BY DEF IInv, TypeOK
<1>1. ASSUME NEW c \in Backends, healthy'[c] = healthy[c], failures'[c] = failures[c],
             successes'[c] = successes[c]
      PROVE  healthy'[c] <=> \/ Effective(HealthyThreshold) <= successes'[c]
                             \/ healthy[c] /\ ~(Effective(UnhealthyThreshold) <= failures'[c])
  BY <1>0, <1>1, Thresholds DEF StreaksAgree
<1>2. ASSUME NEW b \in Backends, ProbeEnds(b) PROVE FlagFollowsCounters
  <2>1. ASSUME NEW c \in Backends, c # b
        PROVE  healthy'[c] <=> \/ Effective(HealthyThreshold) <= successes'[c]
                               \/ healthy[c] /\ ~(Effective(UnhealthyThreshold) <= failures'[c])
    BY <1>1, <1>2, <2>1, ProbeWrites DEF Wrote
  <2>2. healthy'[b] <=> \/ Effective(HealthyThreshold) <= successes'[b]
                        \/ healthy[b] /\ ~(Effective(UnhealthyThreshold) <= failures'[b])
    <3>1. CASE up[b]
      <4>1. /\ failures'[b] = 0 /\ successes'[b] = Bump(successes[b])
            /\ healthy'[b] <=> healthy[b] \/ Bump(successes[b]) >= HealthyThreshold
            /\ Bump(successes[b]) \in 1 .. MaxStreak
        BY <1>2, <3>1, ProbeWrites, BumpFacts DEF Wrote
      <4> QED
        BY <4>1, Thresholds
    <3>2. CASE ~up[b]
      <4>1. /\ successes'[b] = 0 /\ failures'[b] = Bump(failures[b])
            /\ healthy'[b] <=> healthy[b] /\ ~(Bump(failures[b]) >= UnhealthyThreshold)
            /\ Bump(failures[b]) \in 1 .. MaxStreak
        BY <1>2, <3>2, ProbeWrites, BumpFacts DEF Wrote
      <4> QED
        BY <4>1, Thresholds
    <3> QED
      BY <3>1, <3>2
  <2> QED
    BY <2>1, <2>2 DEF FlagFollowsCounters
<1>3. CASE UNCHANGED <<healthy, failures, successes>>
  BY <1>1, <1>3 DEF FlagFollowsCounters
<1>4. CASE StartRound \/ UNCHANGED vars \/ \E b \in Backends : Flip(b)
  BY <1>3, <1>4 DEF StartRound, vars, Flip
<1>5. ASSUME NEW b \in Backends, (\E body \in Bodies : ApplyScrape(b, body)) \/ ScrapeFails(b)
      PROVE  FlagFollowsCounters
  BY <1>3, <1>5 DEF ApplyScrape, ScrapeFails, Store
<1> QED
  BY <1>2, <1>4, <1>5 DEF Next, CheckStep

\* "unhealthy_threshold consecutive failures mark down, healthy_threshold consecutive
\* successes mark up", for every order of probes: the flag is what the newest results
\* say, and stays while they say nothing.
THEOREM FlagIsHistory == AuditSpec => FlagMatchesHistory
<1>1. AuditInit => IInv /\ Counted
  <2> SUFFICES ASSUME AuditInit PROVE IInv /\ Counted
    OBVIOUS
  <2>1. /\ recent = [b \in Backends |-> <<>>] /\ failures = [b \in Backends |-> 0]
        /\ successes = [b \in Backends |-> 0] /\ MaxStreak \in Nat
    BY Thresholds DEF AuditInit, Init
  <2>2. ASSUME NEW n \in 0 .. MaxStreak, NEW v \in BOOLEAN PROVE Streak(<<>>, v, n) <=> n <= 0
    BY <2>1 DEF Streak
  <2>3. <<>> \in Seq(BOOLEAN) /\ Len(<<>>) <= MaxStreak
    BY <2>1
  <2>4. CountsStreaks(<<>>, 0, 0)
    BY <2>2, <2>3 DEF CountsStreaks
  <2> QED
    BY <2>1, <2>3, <2>4, InitIInv DEF Counted, AuditInit
<1>2. IInv /\ Counted /\ [AuditNext]_auditVars => IInv' /\ Counted'
  BY AuditIsNext, NextIInv, NextCounted
<1>3. IInv /\ Counted' /\ [AuditNext]_auditVars =>
        \A b \in Backends :
          healthy'[b] <=>
            \/ Streak(recent'[b], TRUE, Effective(HealthyThreshold))
            \/ healthy[b] /\ ~Streak(recent'[b], FALSE, Effective(UnhealthyThreshold))
  <2> SUFFICES ASSUME IInv, Counted', [AuditNext]_auditVars, NEW b \in Backends
               PROVE  healthy'[b] <=>
                        \/ Streak(recent'[b], TRUE, Effective(HealthyThreshold))
                        \/ healthy[b] /\ ~Streak(recent'[b], FALSE, Effective(UnhealthyThreshold))
    OBVIOUS
  <2>1. \A n \in 0 .. MaxStreak :
          /\ Streak(recent'[b], FALSE, n) <=> n <= failures'[b]
          /\ Streak(recent'[b], TRUE, n) <=> n <= successes'[b]
    BY DEF Counted, CountsStreaks, Streak
  <2>2. Effective(HealthyThreshold) \in 0 .. MaxStreak /\ Effective(UnhealthyThreshold) \in 0 .. MaxStreak
    BY Thresholds
  <2>3. FlagFollowsCounters
    BY AuditIsNext, FlagStep
  <2> QED
    BY <2>1, <2>2, <2>3, Zenon DEF FlagFollowsCounters
<1> QED
  BY <1>1, <1>2, <1>3, PTL DEF AuditSpec, FlagMatchesHistory
=============================================================================
