------------------------------- MODULE AppProofs -------------------------------
(***************************************************************************)
(* Proofs about App: for any set of configuration files, what validate     *)
(* lets through starts soundly, and for any number of backends and scrapes *)
(* the answers of /metrics are recent.                                     *)
(***************************************************************************)
EXTENDS App, SequenceTheorems, SetFacts

-----------------------------------------------------------------------------
(* The configuration *)

\* What the start relies on in a configuration that validate accepted.
Accepted(c) ==
  /\ c.interval_secs \in 1 .. U64Max
  /\ c.enabled \in BOOLEAN
  /\ c.path.slash /\ ~c.path.special /\ c.path \notin OwnRoutes
  /\ c.backends \in Seq([url : AnyUrl, weight : Nat]) /\ c.backends # <<>>

LEMMA DefaultFacts ==
  /\ "interval_secs" \in DOMAIN Defaults /\ Defaults["interval_secs"] \in 0 .. U64Max
  /\ "enabled" \in DOMAIN Defaults /\ Defaults["enabled"] \in BOOLEAN
  /\ "backends" \notin DOMAIN Defaults
<1>1. U64Max \in Nat /\ 8080 <= U64Max
  BY ConfigAssumption
<1> QED
  BY <1>1 DEF Defaults

\* A file that parses has values of the right types.
LEMMA ParsedFacts ==
  ASSUME NEW f \in Files, Parses(f)
  PROVE  LET c == Parsed(f)
         IN  /\ c.interval_secs \in 0 .. U64Max
             /\ c.enabled \in BOOLEAN
             /\ c.backends \in Seq([url : AnyUrl, weight : Nat])
<1> DEFINE c == Parsed(f)
           n == Len(f.given.backends)
<1>1. \A key \in DOMAIN Defaults :
        c[key] = IF key \in DOMAIN f.given THEN f.given[key] ELSE Defaults[key]
  BY DefaultFacts DEF Parsed
<1>2. c["interval_secs"] \in 0 .. U64Max
  <2>1. "interval_secs" \notin OtherKeys /\ Limit("interval_secs") = U64Max
    BY DEF OtherKeys, Limit, U16Keys, U32Keys
  <2>2. "interval_secs" \in DOMAIN f.given => f.given["interval_secs"] \in 0 .. U64Max
    BY <2>1 DEF Parses
  <2> QED
    BY <1>1, <2>2, DefaultFacts
<1>3. c["enabled"] \in BOOLEAN
  <2>1. "enabled" \in DOMAIN f.given => f.given["enabled"] \in BOOLEAN
    BY FilesAssumption
  <2> QED
    BY <1>1, <2>1, DefaultFacts
<1>4. c.backends \in Seq([url : AnyUrl, weight : Nat])
  <2>1. n \in Nat /\ DOMAIN f.given.backends = 1 .. n
    BY FilesAssumption DEF Parses
  <2> DEFINE entry(i) == f.given.backends[i]
             back(i) == [url |-> entry(i).url,
                         weight |-> IF "weight" \in DOMAIN entry(i) THEN entry(i).weight ELSE 1]
  <2>2. c.backends = [i \in 1 .. n |-> back(i)]
    BY <2>1 DEF Parsed
  <2>3. ASSUME NEW i \in 1 .. n PROVE back(i) \in [url : AnyUrl, weight : Nat]
    <3>1. "url" \in DOMAIN entry(i) /\ ("weight" \in DOMAIN entry(i) => entry(i).weight \in Nat)
      BY <2>1, ConfigAssumption DEF Parses, EntryParses
    <3>2. entry(i).url \in AnyUrl
      BY <2>1, <3>1, FilesAssumption DEF Parses
    <3> QED
      BY <3>1, <3>2
  <2> HIDE DEF back, n, c
  <2>4. c.backends \in [1 .. n -> [url : AnyUrl, weight : Nat]]
    BY <2>2, <2>3
  <2> QED
    BY <2>1, <2>4, SeqDef
<1> QED
  BY <1>2, <1>3, <1>4

LEMMA ValidIsAccepted ==
  ASSUME NEW f \in Files, Parses(f), Valid(Parsed(f))
  PROVE  Accepted(Parsed(f))
<1> DEFINE c == Parsed(f)
<1>1. /\ c.interval_secs \in 0 .. U64Max /\ c.enabled \in BOOLEAN
      /\ c.backends \in Seq([url : AnyUrl, weight : Nat])
  BY ParsedFacts
<1>2. Valid(c)
  OBVIOUS
<1> HIDE DEF c
<1>3. c.interval_secs \in 1 .. U64Max
  BY <1>1, <1>2, ConfigAssumption DEF Valid, HealthCheckValid
<1>4. c.path.slash /\ ~c.path.special /\ c.path \notin OwnRoutes /\ c.backends # <<>>
  BY <1>2 DEF Valid, MetricsValid, BackendsValid
<1> QED
  BY <1>1, <1>3, <1>4 DEF Accepted, c

-----------------------------------------------------------------------------
(* The scrapes of /metrics *)

\* Here n is the number of backends, `of` gives the gauge of each cell, lv and ga are the
\* values and the gauges, h is a handler and sc has the handlers.
Versions == 0 .. MaxVersion

Record(n, of) ==
  [at : {"idle", "load", "set", "lock", "encode"}, cell : 0 .. n, loaded : Versions,
   todo : SUBSET {of[c] : c \in 0 .. n},
   began : [0 .. n -> Versions] \union {<<>>}, since : [0 .. n -> Versions] \union {<<>>}]

\* The cells whose gauges h has already set.
Passed(n, h) ==
  {c \in 0 .. n : h.at \in {"lock", "encode"} \/ (c > 0 /\ (h.cell = 0 \/ c < h.cell))}

Recent(ga, since, g) == ga[g].value >= since[ga[g].cell]

\* What a scrape holds is no older than its beginning, and the gauges it has set, or
\* others have overwritten since, are no older than the oldest scrape it met.
HandlerOK(n, of, h, lv, ga) ==
  h.at # "idle" =>
    /\ h.began \in [0 .. n -> Versions] /\ h.since \in [0 .. n -> Versions]
    /\ \A c \in 0 .. n : h.began[c] <= lv[c]
    /\ h.at = "set" => h.began[h.cell] <= h.loaded
    /\ \A c \in Passed(n, h) : Recent(ga, h.since, of[c])

\* The values g answers with at least were there when h began, or before.
Older(n, g, h) ==
  g.at # "idle" /\ h.at # "idle" => \A c \in 0 .. n : g.since[c] <= h.began[c]

CellTypes(n, of, lv, ga) ==
  /\ n \in Nat /\ of \in [0 .. n -> 0 .. n]
  /\ lv \in [0 .. n -> Versions]
  /\ ga \in [0 .. n -> [cell : 0 .. n, value : -1 .. MaxVersion]]

ScrapesOK(n, of, sc, lv, ga) ==
  /\ CellTypes(n, of, lv, ga)
  /\ sc \in [Scrapes -> Record(n, of)]
  /\ \A s \in Scrapes : HandlerOK(n, of, sc[s], lv, ga)
  /\ \A s, t \in Scrapes : Older(n, sc[s], sc[t])

\* One handler moves on.
Moved(n, of, sc, tc, s, h) ==
  /\ h \in Record(n, of) /\ tc \in [Scrapes -> Record(n, of)]
  /\ tc[s] = h /\ \A t \in Scrapes \ {s} : tc[t] = sc[t]

\* One gauge is set to the value v of cell d.
GaugeSet(n, ga, gb, g, d, v) ==
  /\ gb \in [0 .. n -> [cell : 0 .. n, value : -1 .. MaxVersion]]
  /\ gb[g].cell = d /\ gb[g].value = v
  /\ \A x \in 0 .. n : x # g => gb[x] = ga[x]

LEMMA MoveKeeps ==
  ASSUME NEW n, NEW of, NEW sc, NEW lv, NEW ga, ScrapesOK(n, of, sc, lv, ga),
         NEW s \in Scrapes, NEW tc, NEW h, Moved(n, of, sc, tc, s, h),
         HandlerOK(n, of, h, lv, ga), Older(n, h, h),
         \A t \in Scrapes \ {s} : Older(n, h, sc[t]) /\ Older(n, sc[t], h)
  PROVE  ScrapesOK(n, of, tc, lv, ga)
<1>1. \A t \in Scrapes : HandlerOK(n, of, tc[t], lv, ga)
  BY DEF ScrapesOK, Moved
<1>2. ASSUME NEW t \in Scrapes, NEW u \in Scrapes PROVE Older(n, tc[t], tc[u])
  <2>1. CASE t = s /\ u = s
    BY <2>1 DEF Moved
  <2>2. CASE t = s /\ u # s
    BY <2>2 DEF Moved
  <2>3. CASE t # s /\ u = s
    BY <2>3 DEF Moved
  <2>4. CASE t # s /\ u # s
    BY <2>4 DEF Moved, ScrapesOK
  <2> QED
    BY <2>1, <2>2, <2>3, <2>4
<1> QED
  BY <1>1, <1>2 DEF ScrapesOK, Moved

\* A handler that goes on with what it began with.
LEMMA GoOn ==
  ASSUME NEW n, NEW of, NEW sc, NEW lv, NEW ga, ScrapesOK(n, of, sc, lv, ga),
         NEW s \in Scrapes, NEW tc, NEW h, Moved(n, of, sc, tc, s, h),
         HandlerOK(n, of, h, lv, ga),
         h.at # "idle" => sc[s].at # "idle" /\ h.began = sc[s].began /\ h.since = sc[s].since
  PROVE  ScrapesOK(n, of, tc, lv, ga)
<1>1. \A t, u \in Scrapes : Older(n, sc[t], sc[u])
  BY DEF ScrapesOK
<1>2. Older(n, h, h)
  BY <1>1 DEF Older
<1>3. \A t \in Scrapes \ {s} : Older(n, h, sc[t]) /\ Older(n, sc[t], h)
  BY <1>1 DEF Older
<1> QED
  BY <1>2, <1>3, MoveKeeps

\* A value changes.
LEMMA ChangeKeeps ==
  ASSUME NEW n, NEW of, NEW sc, NEW lv, NEW ga, ScrapesOK(n, of, sc, lv, ga),
         NEW lw \in [0 .. n -> Versions], \A c \in 0 .. n : lv[c] <= lw[c]
  PROVE  ScrapesOK(n, of, sc, lw, ga)
<1>1. CellTypes(n, of, lw, ga)
  BY DEF ScrapesOK, CellTypes
<1>2. ASSUME NEW s \in Scrapes, sc[s].at # "idle", NEW c \in 0 .. n
      PROVE  sc[s].began[c] <= lw[c]
  <2>1. sc[s].began[c] <= lv[c] /\ sc[s].began[c] \in Versions
    BY <1>2 DEF ScrapesOK, HandlerOK
  <2>2. lv[c] \in Versions /\ lw[c] \in Versions /\ lv[c] <= lw[c]
    BY DEF ScrapesOK, CellTypes
  <2> QED
    BY <2>1, <2>2, ExporterAssumption DEF Versions
<1>3. \A s \in Scrapes : HandlerOK(n, of, sc[s], lw, ga)
  BY <1>2 DEF ScrapesOK, HandlerOK
<1> QED
  BY <1>1, <1>3 DEF ScrapesOK

\* A scrape begins.
LEMMA BeginKeeps ==
  ASSUME NEW n, NEW of, NEW sc, NEW lv, NEW ga, ScrapesOK(n, of, sc, lv, ga),
         NEW s \in Scrapes, NEW tc, NEW h, Moved(n, of, sc, tc, s, h), sc[s].at = "idle",
         h.at = "load", h.cell = 1, h.began = lv, h.since \in [0 .. n -> Versions],
         \A c \in 0 .. n : h.since[c] <= lv[c],
         \A t \in Scrapes : sc[t].at # "idle" => \A c \in 0 .. n : h.since[c] <= sc[t].began[c]
  PROVE  ScrapesOK(n, of, tc, lv, ga)
<1>1. lv \in [0 .. n -> Versions]
  BY DEF ScrapesOK, CellTypes
<1>2. Passed(n, h) = {}
  BY DEF Passed
<1>3. \A c \in 0 .. n : lv[c] <= lv[c]
  BY <1>1, ExporterAssumption DEF Versions
<1>4. HandlerOK(n, of, h, lv, ga)
  BY <1>1, <1>2, <1>3 DEF HandlerOK
<1>5. Older(n, h, h)
  BY DEF Older
<1>6. ASSUME NEW t \in Scrapes \ {s} PROVE Older(n, h, sc[t]) /\ Older(n, sc[t], h)
  <2>1. Older(n, h, sc[t])
    BY DEF Older
  <2>2. ASSUME sc[t].at # "idle", NEW c \in 0 .. n PROVE sc[t].since[c] <= lv[c]
    <3>1. sc[t].since[c] <= sc[t].began[c] /\ sc[t].began[c] <= lv[c]
      BY <2>2 DEF ScrapesOK, Older, HandlerOK
    <3>2. sc[t].since[c] \in Versions /\ sc[t].began[c] \in Versions /\ lv[c] \in Versions
      BY <1>1, <2>2 DEF ScrapesOK, HandlerOK
    <3> QED
      BY <3>1, <3>2, ExporterAssumption DEF Versions
  <2> QED
    BY <2>1, <2>2 DEF Older
<1> QED
  BY <1>4, <1>5, <1>6, MoveKeeps

\* A scrape sets a gauge.
LEMMA SetKeeps ==
  ASSUME NEW n, NEW of, NEW sc, NEW lv, NEW ga, ScrapesOK(n, of, sc, lv, ga),
         NEW s \in Scrapes, NEW tc, NEW h, Moved(n, of, sc, tc, s, h), sc[s].at = "set",
         h.at \in {"load", "lock"}, h.began = sc[s].began, h.since = sc[s].since,
         NEW d, d = sc[s].cell, Passed(n, h) \subseteq Passed(n, sc[s]) \union {d},
         NEW gb, GaugeSet(n, ga, gb, of[d], d, sc[s].loaded)
  PROVE  ScrapesOK(n, of, tc, lv, gb)
<1> DEFINE v == sc[s].loaded
<1>1. /\ n \in Nat /\ of \in [0 .. n -> 0 .. n] /\ sc[s] \in Record(n, of)
      /\ d \in 0 .. n /\ v \in Versions
      /\ sc[s].began \in [0 .. n -> Versions] /\ sc[s].began[d] <= v
  BY DEF ScrapesOK, CellTypes, HandlerOK, Record
<1> HIDE DEF v
\* The value set is recent for every scrape.
<1>2. ASSUME NEW t \in Scrapes, sc[t].at # "idle"
      PROVE  Recent(gb, sc[t].since, of[d]) /\ sc[t].since \in [0 .. n -> Versions]
  <2>1. sc[t].since[d] <= sc[s].began[d]
    BY <1>1, <1>2 DEF ScrapesOK, Older
  <2>2. sc[t].since \in [0 .. n -> Versions]
    BY <1>2 DEF ScrapesOK, HandlerOK
  <2>3. sc[t].since[d] \in Versions /\ sc[s].began[d] \in Versions
    BY <1>1, <2>2
  <2>4. sc[t].since[d] <= v
    <3>1. v \in Int /\ sc[t].since[d] \in Int /\ sc[s].began[d] \in Int
      <4>1. \A x \in Versions : x \in Int
        BY DEF Versions
      <4> QED
        BY <1>1, <2>3, <4>1
    <3>2. sc[s].began[d] <= v
      BY <1>1
    <3> QED
      BY <2>1, <3>1, <3>2
  <2>5. gb[of[d]].value = v /\ gb[of[d]].cell = d
    BY DEF v, GaugeSet
  <2>6. v >= sc[t].since[d]
    BY <1>1, <2>3, <2>4, ExporterAssumption DEF Versions
  <2> QED
    BY <2>2, <2>5, <2>6 DEF Recent
<1>3. ASSUME NEW t \in Scrapes, sc[t].at # "idle", NEW c \in 0 .. n, Recent(ga, sc[t].since, of[c])
      PROVE  Recent(gb, sc[t].since, of[c])
  <2>1. CASE of[c] = of[d]
    BY <1>2, <1>3, <2>1
  <2>2. CASE of[c] # of[d]
    <3>1. gb[of[c]] = ga[of[c]]
      BY <1>1, <2>2 DEF GaugeSet
    <3> QED
      BY <1>3, <3>1 DEF Recent
  <2> QED
    BY <2>1, <2>2
<1>4. ASSUME NEW t \in Scrapes PROVE HandlerOK(n, of, sc[t], lv, gb)
  <2>1. HandlerOK(n, of, sc[t], lv, ga)
    BY DEF ScrapesOK
  <2>2. ASSUME sc[t].at # "idle", NEW c \in Passed(n, sc[t])
        PROVE  Recent(gb, sc[t].since, of[c])
    <3>1. c \in 0 .. n
      BY DEF Passed
    <3>2. Recent(ga, sc[t].since, of[c])
      BY <2>1, <2>2 DEF HandlerOK
    <3> QED
      BY <1>3, <2>2, <3>1, <3>2
  <2> QED
    BY <2>1, <2>2 DEF HandlerOK
<1>5. ScrapesOK(n, of, sc, lv, gb)
  BY <1>4 DEF ScrapesOK, CellTypes, GaugeSet
<1>6. HandlerOK(n, of, h, lv, gb)
  <2>1. HandlerOK(n, of, sc[s], lv, gb)
    BY <1>4
  <2>2. ASSUME NEW c \in Passed(n, h) PROVE Recent(gb, h.since, of[c])
    <3>1. CASE c = d
      BY <1>2, <3>1
    <3>2. CASE c # d
      <4>1. c \in Passed(n, sc[s])
        BY <3>2
      <4> QED
        BY <2>1, <4>1 DEF HandlerOK
    <3> QED
      BY <3>1, <3>2
  <2> QED
    BY <2>1, <2>2 DEF HandlerOK
<1> QED
  BY <1>5, <1>6, GoOn

-----------------------------------------------------------------------------
(* The whole router *)

\* The gauges of the pool's cells.
Of == [c \in Cells |-> GaugeOf(c)]

Exported == ScrapesOK(Len(pool), Of, scrape, live, gauge)

\* The inductive invariant.
AppInv ==
  /\ phase \in {"load", "address", "build", "bind", "serving", "failed"}
  /\ phase = "load" => file \in Files
  /\ phase \in {"address", "build"} => Accepted(config)
  /\ health \in [at : {"none", "spawned", "running"}, interval : 0 .. U64Max]
  /\ health.at = "spawned" => health.interval # 0
  /\ \A p \in DOMAIN routes : Cardinality(routes[p]) = 1
  /\ pool \in Seq(AnyUrl) /\ \A i \in DOMAIN pool : pool[i].slashes = 0
  /\ phase \in {"bind", "serving"} => pool # <<>>
  /\ phase # "serving" /\ phase # "failed" => scrape = [s \in Scrapes |-> Idle]
  /\ Exported

OfGood ==
  /\ Len(pool) \in Nat /\ Cells = 0 .. Len(pool) /\ Of \in [Cells -> Cells]
  /\ \A c \in Cells : Of[c] = GaugeOf(c)

LEMMA OfFacts == pool \in Seq(AnyUrl) => OfGood
<1> SUFFICES ASSUME pool \in Seq(AnyUrl) PROVE OfGood
  OBVIOUS
<1>1. Len(pool) \in Nat /\ DOMAIN pool = 1 .. Len(pool) /\ Cells = 0 .. Len(pool)
  BY LenProperties DEF Cells
<1>2. ASSUME NEW c \in Cells PROVE GaugeOf(c) \in Cells
  <2>1. CASE c = InFlight
    BY <1>1, <2>1 DEF GaugeOf, InFlight
  <2>2. CASE c # InFlight
    <3> DEFINE Same == {i \in DOMAIN pool : pool[i] = pool[c]}
    <3>1. c \in DOMAIN pool
      BY <1>1, <2>2 DEF InFlight
    <3>2. Same \in SUBSET Nat /\ Same # {} /\ Same \in SUBSET (1 .. Len(pool))
      BY <1>1, <3>1
    <3>3. Min(Same) \in Same
      BY <3>2, MinFacts
    <3>4. GaugeOf(c) = Min(Same)
      BY <2>2 DEF GaugeOf
    <3> HIDE DEF Same
    <3>5. GaugeOf(c) \in 1 .. Len(pool)
      BY <3>2, <3>3, <3>4
    <3> QED
      BY <1>1, <3>5
  <2> QED
    BY <2>1, <2>2
<1> QED
  BY <1>1, <1>2 DEF Of, OfGood

\* Before the first scrape.
LEMMA AllIdle ==
  ASSUME NEW n, NEW of, NEW sc, NEW lv, NEW ga, CellTypes(n, of, lv, ga),
         sc = [s \in Scrapes |-> Idle]
  PROVE  ScrapesOK(n, of, sc, lv, ga)
<1>1. Idle \in Record(n, of) /\ Idle.at = "idle"
  BY ExporterAssumption DEF Idle, Record, Versions, CellTypes
<1>2. \A s \in Scrapes : sc[s] = Idle
  OBVIOUS
<1>3. \A s \in Scrapes : HandlerOK(n, of, sc[s], lv, ga)
  BY <1>1, <1>2 DEF HandlerOK
<1>4. \A s, t \in Scrapes : Older(n, sc[s], sc[t])
  BY <1>1, <1>2 DEF Older
<1> QED
  BY <1>1, <1>2, <1>3, <1>4 DEF ScrapesOK

LEMMA NewTypes ==
  ASSUME NEW n \in Nat
  PROVE  /\ [c \in 0 .. n |-> 0] \in [0 .. n -> Versions]
         /\ NewGauges(n) \in [0 .. n -> [cell : 0 .. n, value : -1 .. MaxVersion]]
  BY ExporterAssumption DEF Versions, NewGauges, InFlight, NotCreated

LEMMA AppInit == Init => AppInv
<1> SUFFICES ASSUME Init PROVE AppInv
  OBVIOUS
<1>1. /\ phase = "load" /\ file \in Files /\ health = NoTask /\ routes = None /\ pool = <<>>
      /\ live = [c \in {InFlight} |-> 0] /\ gauge = NewGauges(0)
      /\ scrape = [s \in Scrapes |-> Idle]
  BY DEF Init
<1>2. health \in [at : {"none", "spawned", "running"}, interval : 0 .. U64Max]
      /\ health.at = "none"
  BY <1>1, ConfigAssumption DEF NoTask
<1>3. DOMAIN routes = {}
  BY <1>1 DEF None
<1>4. pool \in Seq(AnyUrl) /\ Len(pool) = 0 /\ DOMAIN pool = {}
  BY <1>1, EmptySeq
<1>5. CellTypes(0, Of, live, gauge)
  <2>1. 0 .. 0 = {0}
    OBVIOUS
  <2>2. live = [c \in 0 .. 0 |-> 0]
    BY <1>1, <2>1 DEF InFlight
  <2> QED
    BY <1>1, <1>4, <2>2, OfFacts, NewTypes DEF CellTypes, OfGood
<1>6. Exported
  BY <1>1, <1>4, <1>5, AllIdle DEF Exported
<1> QED
  BY <1>1, <1>2, <1>3, <1>4, <1>6 DEF AppInv

\* Scrapes and gauges go on as they are while the pool stays.
LEMMA ExportedStays ==
  ASSUME Exported, UNCHANGED <<pool, exporterVars>>
  PROVE  Exported'
  BY DEF Exported, exporterVars, Of, Cells, GaugeOf

LEMMA StartupSteps ==
  ASSUME AppInv, LoadConfig \/ ListenAddr \/ BuildFails
  PROVE  AppInv'
<1>1. UNCHANGED <<health, routes, pool, exporterVars>>
  BY DEF LoadConfig, ListenAddr, BuildFails, Fail
<1>2. Exported'
  BY <1>1, ExportedStays DEF AppInv
<1>3. scrape' = scrape /\ phase \in {"load", "address", "build"}
  BY <1>1 DEF exporterVars, LoadConfig, ListenAddr, BuildFails
<1>4. phase' = "failed" \/ (phase' \in {"address", "build"} /\ Accepted(config'))
  <2>1. CASE LoadConfig
    BY <2>1, ValidIsAccepted DEF LoadConfig, Fail, AppInv
  <2>2. CASE ListenAddr
    BY <2>2 DEF ListenAddr, Fail, AppInv
  <2>3. CASE BuildFails
    BY <2>3 DEF BuildFails, Fail
  <2> QED
    BY <2>1, <2>2, <2>3
<1> QED
  BY <1>1, <1>2, <1>3, <1>4 DEF AppInv

\* The routes of an accepted configuration.
LEMMA RoutesSound ==
  ASSUME NEW c, Accepted(c), NEW p \in DOMAIN Routes(c)
  PROVE  Cardinality(Routes(c)[p]) = 1
<1>1. c.enabled \in BOOLEAN /\ c.path \notin OwnRoutes
  BY DEF Accepted
<1>2. p \in OwnRoutes \union (IF c.enabled THEN {c.path} ELSE {})
  BY DEF Routes
<1>3. \E x : Routes(c)[p] = {x}
  <2>1. CASE p \in OwnRoutes
    <3>1. ~(c.enabled /\ p = c.path)
      BY <1>1, <2>1
    <3>2. CASE p = Path("health")
      <4>1. Routes(c)[p] = {"health_handler"} \union {}
        BY <1>2, <3>1, <3>2 DEF Routes
      <4> QED
        BY <4>1
    <3>3. CASE p # Path("health")
      <4>1. Routes(c)[p] = {"proxy_handler"} \union {}
        BY <1>2, <2>1, <3>1, <3>3 DEF Routes
      <4> QED
        BY <4>1
    <3> QED
      BY <3>2, <3>3
  <2>2. CASE p \notin OwnRoutes
    <3>1. c.enabled /\ p = c.path
      BY <1>2, <2>2
    <3>2. p # Path("health")
      BY <2>2 DEF OwnRoutes
    <3>3. Routes(c)[p] = {} \union {"metrics_handler"}
      BY <1>2, <2>2, <3>1, <3>2 DEF Routes
    <3> QED
      BY <3>3
  <2> QED
    BY <2>1, <2>2
<1> QED
  BY <1>3, FS_Singleton

LEMMA BuildStep ==
  ASSUME AppInv, BuildApp
  PROVE  AppInv'
<1> DEFINE bs == config.backends
           n  == Len(bs)
<1>1. phase = "build" /\ Accepted(config) /\ scrape = [s \in Scrapes |-> Idle]
  BY DEF AppInv, BuildApp
<1>2. /\ bs \in Seq([url : AnyUrl, weight : Nat]) /\ bs # <<>>
      /\ n \in Nat \ {0} /\ DOMAIN bs = 1 .. n
  BY <1>1, EmptySeq, LenProperties DEF Accepted
<1>3. RoutePanics(config.path) = {FALSE}
  BY <1>1 DEF Accepted, RoutePanics, OwnRoutes
<1>4. /\ pool' = [i \in 1 .. n |-> NormalizedUrl(bs[i].url)]
      /\ health' = [at |-> "spawned", interval |-> config.interval_secs]
      /\ phase' = "bind" /\ routes' = Routes(config)
      /\ live' = [c \in 0 .. n |-> 0] /\ gauge' = NewGauges(n) /\ scrape' = scrape
  BY <1>2, <1>3 DEF BuildApp
<1>5. ASSUME NEW i \in 1 .. n
      PROVE  NormalizedUrl(bs[i].url) \in AnyUrl /\ NormalizedUrl(bs[i].url).slashes = 0
  <2>1. bs[i] \in [url : AnyUrl, weight : Nat]
    BY <1>2, ElementOfSeq
  <2>2. bs[i].url \in AnyUrl
    BY <2>1
  <2> QED
    BY <2>2 DEF AnyUrl, NormalizedUrl
<1> HIDE DEF bs, n
<1>6. /\ pool' \in Seq(AnyUrl) /\ Len(pool') = n /\ pool' # <<>>
      /\ \A i \in DOMAIN pool' : pool'[i].slashes = 0
  <2>1. pool' \in [1 .. n -> AnyUrl]
    BY <1>4, <1>5
  <2>2. pool' \in Seq(AnyUrl)
    BY <1>2, <2>1, SeqDef
  <2>3. DOMAIN pool' = 1 .. n /\ DOMAIN pool' = 1 .. Len(pool') /\ Len(pool') \in Nat
    BY <2>1, <2>2, LenProperties
  <2>4. Len(pool') = n
    BY <1>2, <2>3
  <2>5. pool' # <<>>
    BY <1>2, <2>4, EmptySeq
  <2> QED
    BY <1>4, <1>5, <2>2, <2>3, <2>4, <2>5
<1>7. Exported'
  <2>1. Of' \in [0 .. n -> 0 .. n]
    <3>1. (pool \in Seq(AnyUrl))' => OfGood'
      BY OfFacts, PTL
    <3> QED
      BY <1>6, <3>1 DEF OfGood
  <2>2. CellTypes(n, Of', live', gauge')
    BY <1>2, <1>4, <2>1, NewTypes DEF CellTypes
  <2>3. scrape' = [s \in Scrapes |-> Idle]
    BY <1>1, <1>4
  <2>4. ScrapesOK(n, Of', scrape', live', gauge')
    BY <2>2, <2>3, AllIdle
  <2> QED
    BY <1>6, <2>4 DEF Exported
<1>8. /\ health' \in [at : {"none", "spawned", "running"}, interval : 0 .. U64Max]
      /\ health'.interval # 0
  <2>1. config.interval_secs \in 0 .. U64Max /\ config.interval_secs # 0
    BY <1>1, ConfigAssumption DEF Accepted
  <2> QED
    BY <1>4, <2>1
<1>9. \A p \in DOMAIN routes' : Cardinality(routes'[p]) = 1
  BY <1>1, <1>4, RoutesSound
<1> QED
  BY <1>1, <1>4, <1>6, <1>7, <1>8, <1>9 DEF AppInv

-----------------------------------------------------------------------------
(* Serving *)

\* What the steps of a scrape find.
LEMMA ServingFacts ==
  ASSUME AppInv, phase = "serving"
  PROVE  /\ ScrapesOK(Len(pool), Of, scrape, live, gauge)
         /\ Len(pool) \in Nat \ {0} /\ Cells = 0 .. Len(pool)
         /\ Gauges = {Of[c] : c \in 0 .. Len(pool)}
         /\ \A c \in Cells : Of[c] = GaugeOf(c) /\ Of[c] \in 0 .. Len(pool)
<1>1. OfGood /\ pool \in Seq(AnyUrl) /\ pool # <<>>
  BY OfFacts DEF AppInv
<1>2. Len(pool) \in Nat \ {0}
  BY <1>1, EmptySeq
<1>3. Gauges = {Of[c] : c \in Cells}
  BY <1>1 DEF Gauges, OfGood
<1>4. \A c \in Cells : Of[c] = GaugeOf(c) /\ Of[c] \in Cells
  BY <1>1 DEF OfGood
<1> QED
  BY <1>1, <1>2, <1>3, <1>4 DEF AppInv, Exported, OfGood

LEMMA GoMoves ==
  ASSUME NEW n, NEW of, ScrapesOK(n, of, scrape, live, gauge),
         NEW s \in Scrapes, NEW h \in Record(n, of), Go(s, h)
  PROVE  Moved(n, of, scrape, scrape', s, h)
<1>1. scrape \in [Scrapes -> Record(n, of)]
  BY DEF ScrapesOK
<1>2. scrape' = [scrape EXCEPT ![s] = h]
  BY DEF Go
<1> QED
  BY <1>1, <1>2 DEF Moved

LEMMA ChangeStep ==
  ASSUME AppInv, phase = "serving", NEW cell \in Cells, Change(cell)
  PROVE  ScrapesOK(Len(pool), Of, scrape', live', gauge')
<1> DEFINE n == Len(pool)
           of == Of
           lw == live'
<1>1. ScrapesOK(n, of, scrape, live, gauge) /\ cell \in 0 .. n
  BY ServingFacts
<1>2. live \in [0 .. n -> Versions]
  BY <1>1 DEF ScrapesOK, CellTypes
<1>3. lw = [live EXCEPT ![cell] = live[cell] + 1] /\ live[cell] < MaxVersion
      /\ UNCHANGED <<gauge, scrape>>
  BY DEF Change
<1> HIDE DEF n, of, lw
<1>4. live[cell] \in Versions /\ live[cell] + 1 \in Versions
  BY <1>1, <1>2, <1>3, ExporterAssumption DEF Versions
<1>5. lw \in [0 .. n -> Versions]
  BY <1>2, <1>3, <1>4
<1>6. ASSUME NEW c \in 0 .. n PROVE live[c] <= lw[c]
  <2>1. live[c] \in Int /\ lw[c] \in Int
    BY <1>2, <1>5 DEF Versions
  <2>2. lw[c] = live[c] \/ lw[c] = live[c] + 1
    BY <1>1, <1>2, <1>3
  <2> QED
    BY <2>1, <2>2
<1>7. ScrapesOK(n, of, scrape, lw, gauge)
  BY <1>1, <1>5, <1>6, ChangeKeeps
<1> QED
  BY <1>3, <1>7 DEF n, of, lw

LEMMA BeginStep ==
  ASSUME AppInv, phase = "serving", NEW s \in Scrapes, Begin(s)
  PROVE  ScrapesOK(Len(pool), Of, scrape', live', gauge')
<1> DEFINE n == Len(pool)
           of == Of
           tc == scrape'
           Seen(c) == {live[c]} \union {scrape[t].began[c] : t \in Running}
           since == [c \in Cells |-> Min(Seen(c))]
           h == [Idle EXCEPT !.at = "load", !.cell = 1, !.began = live, !.since = since]
<1>1. /\ ScrapesOK(n, of, scrape, live, gauge) /\ n \in Nat \ {0} /\ Cells = 0 .. n
      /\ live \in [0 .. n -> Versions]
  BY ServingFacts DEF ScrapesOK, CellTypes
<1>2. scrape[s].at = "idle" /\ Go(s, h) /\ UNCHANGED <<live, gauge>>
  BY DEF Begin
<1>3. ASSUME NEW c \in 0 .. n
      PROVE  /\ Min(Seen(c)) \in Versions /\ Min(Seen(c)) <= live[c]
             /\ \A t \in Scrapes : scrape[t].at # "idle" => Min(Seen(c)) <= scrape[t].began[c]
  <2>1. \A t \in Running : t \in Scrapes /\ scrape[t].began \in [0 .. n -> Versions]
    BY <1>1 DEF ScrapesOK, HandlerOK, Running
  <2>2. Seen(c) \in SUBSET Versions /\ Seen(c) # {} /\ live[c] \in Seen(c)
    BY <1>1, <2>1
  <2>3. \A x \in Versions : x \in Nat
    BY DEF Versions
  <2>4. Min(Seen(c)) \in Seen(c) /\ \A y \in Seen(c) : Min(Seen(c)) <= y
    BY <2>2, <2>3, MinFacts
  <2>5. \A t \in Scrapes : scrape[t].at # "idle" => scrape[t].began[c] \in Seen(c)
    BY DEF Running
  <2> HIDE DEF Seen
  <2> QED
    BY <2>2, <2>4, <2>5
<1> HIDE DEF Seen
<1>4. /\ since \in [0 .. n -> Versions] /\ \A c \in 0 .. n : since[c] = Min(Seen(c))
  BY <1>1, <1>3
<1> HIDE DEF since
<1>5. /\ h.at = "load" /\ h.cell = 1 /\ h.began = live /\ h.since = since
      /\ h.loaded = 0 /\ h.todo = {}
  BY DEF Idle
<1>6. h \in Record(n, of)
  <2>1. 1 \in 0 .. n /\ 0 \in Versions
    BY <1>1, ExporterAssumption DEF Versions
  <2> QED
    BY <1>1, <1>4, <2>1 DEF Idle, Record
<1> HIDE DEF h, n, of
<1>7. Moved(n, of, scrape, tc, s, h)
  BY <1>1, <1>2, <1>6, GoMoves
<1> HIDE DEF tc
<1>8. ScrapesOK(n, of, tc, live, gauge)
  <2>1. \A c \in 0 .. n : h.since[c] <= live[c]
    BY <1>3, <1>4, <1>5
  <2>2. \A t \in Scrapes : scrape[t].at # "idle" =>
          \A c \in 0 .. n : h.since[c] <= scrape[t].began[c]
    BY <1>3, <1>4, <1>5
  <2>3. h.since \in [0 .. n -> Versions]
    BY <1>4, <1>5
  <2> QED
    BY <1>1, <1>2, <1>5, <1>7, <2>1, <2>2, <2>3, BeginKeeps
<1> QED
  BY <1>2, <1>8 DEF n, of, tc

LEMMA LoadStep ==
  ASSUME AppInv, phase = "serving", NEW s \in Scrapes, Load(s)
  PROVE  ScrapesOK(Len(pool), Of, scrape', live', gauge')
<1> DEFINE n == Len(pool)
           of == Of
           g == scrape[s]
           tc == scrape'
           v == live[g.cell]
           h == [g EXCEPT !.at = "set", !.loaded = v]
<1>1. /\ ScrapesOK(n, of, scrape, live, gauge) /\ live \in [0 .. n -> Versions]
      /\ g \in Record(n, of) /\ HandlerOK(n, of, g, live, gauge)
  BY ServingFacts DEF ScrapesOK, CellTypes
<1>2. g.at = "load" /\ Go(s, h) /\ UNCHANGED <<live, gauge>>
  BY DEF Load
<1>3. g.cell \in 0 .. n /\ v \in Versions
  BY <1>1 DEF Record
<1> HIDE DEF n, of, g
<1>4. /\ h.at = "set" /\ h.cell = g.cell /\ h.loaded = v
      /\ h.began = g.began /\ h.since = g.since /\ h \in Record(n, of)
  <2> HIDE DEF v
  <2> QED
    BY <1>1, <1>3 DEF Record
<1> HIDE DEF h
<1>5. Moved(n, of, scrape, tc, s, h)
  BY <1>1, <1>2, <1>4, GoMoves
<1>6. HandlerOK(n, of, h, live, gauge)
  <2>1. Passed(n, h) = Passed(n, g)
    BY <1>2, <1>4 DEF Passed
  <2>2. g.began[g.cell] <= v
    BY <1>1, <1>2, <1>3 DEF HandlerOK
  <2> QED
    BY <1>1, <1>2, <1>4, <2>1, <2>2 DEF HandlerOK
<1> HIDE DEF tc
<1>7. ScrapesOK(n, of, tc, live, gauge)
  BY <1>1, <1>2, <1>4, <1>5, <1>6, GoOn DEF g
<1> QED
  BY <1>2, <1>7 DEF n, of, tc

LEMMA SetStep ==
  ASSUME AppInv, phase = "serving", NEW s \in Scrapes, Set(s)
  PROVE  ScrapesOK(Len(pool), Of, scrape', live', gauge')
<1> DEFINE n == Len(pool)
           of == Of
           g == scrape[s]
           d == g.cell
           tc == scrape'
           gb == gauge'
           next == IF d = n THEN InFlight ELSE d + 1
           h == IF d = InFlight
                THEN [g EXCEPT !.at = "lock", !.todo = Gauges, !.loaded = 0]
                ELSE [g EXCEPT !.at = "load", !.cell = next, !.loaded = 0]
           new == [cell |-> d, value |-> g.loaded]
<1>1. /\ ScrapesOK(n, of, scrape, live, gauge) /\ n \in Nat \ {0}
      /\ gauge \in [0 .. n -> [cell : 0 .. n, value : -1 .. MaxVersion]]
      /\ g \in Record(n, of) /\ Gauges = {of[c] : c \in 0 .. n}
  BY ServingFacts DEF ScrapesOK, CellTypes
<1>2. d \in 0 .. n /\ g.loaded \in Versions
  BY <1>1 DEF Record
<1>3. GaugeOf(d) = of[d] /\ of[d] \in 0 .. n
  BY <1>2, ServingFacts
<1>4. g.at = "set" /\ Go(s, h) /\ live' = live /\ gb = [gauge EXCEPT ![of[d]] = new]
  BY <1>3 DEF Set
<1>5. new \in [cell : 0 .. n, value : -1 .. MaxVersion]
  BY <1>2, ExporterAssumption DEF Versions
<1> HIDE DEF new
<1>6. /\ gb \in [0 .. n -> [cell : 0 .. n, value : -1 .. MaxVersion]]
      /\ gb[of[d]] = new /\ \A x \in 0 .. n : x # of[d] => gb[x] = gauge[x]
  BY <1>1, <1>3, <1>4, <1>5
<1> HIDE DEF n, of, g, d, gb, next
<1>7. next \in 0 .. n /\ 0 \in Versions
  BY <1>1, <1>2, ExporterAssumption DEF next, InFlight, Versions
<1>8. /\ h \in Record(n, of) /\ h.began = g.began /\ h.since = g.since
      /\ d = 0 => h.at = "lock"
      /\ d # 0 => h.at = "load" /\ h.cell = next
  <2>1. CASE d = 0
    BY <1>1, <1>7, <2>1 DEF Record, InFlight
  <2>2. CASE d # 0
    BY <1>1, <1>7, <2>2 DEF Record, InFlight
  <2> QED
    BY <2>1, <2>2
<1> HIDE DEF h
<1>9. Passed(n, h) \subseteq Passed(n, g) \union {d}
  <2> SUFFICES ASSUME NEW c \in Passed(n, h), c # d PROVE c \in Passed(n, g)
    OBVIOUS
  <2>1. c \in 0 .. n
    BY DEF Passed
  <2>2. CASE d = 0
    BY <2>1, <2>2 DEF Passed, d
  <2>3. CASE d # 0 /\ d = n
    <3>1. h.at = "load" /\ h.cell = 0
      BY <1>8, <2>3 DEF next, InFlight
    <3>2. c > 0
      BY <3>1 DEF Passed
    <3>3. c < d
      BY <1>1, <2>1, <2>3
    <3> QED
      BY <2>1, <2>3, <3>2, <3>3 DEF Passed, d
  <2>4. CASE d # 0 /\ d # n
    <3>1. next = d + 1 /\ next # 0
      BY <1>2, <2>4 DEF next
    <3>2. c > 0 /\ c < d + 1
      BY <1>8, <2>4, <3>1 DEF Passed
    <3> QED
      <4>1. c > 0 /\ c < d
        BY <1>2, <2>1, <3>2
      <4> QED
        BY <2>1, <4>1 DEF Passed, d
  <2> QED
    BY <2>2, <2>3, <2>4
<1>10. Moved(n, of, scrape, tc, s, h)
  BY <1>1, <1>4, <1>8, GoMoves
<1> HIDE DEF tc
<1>11. ScrapesOK(n, of, tc, live, gb)
  <2>1. h.at \in {"load", "lock"}
    BY <1>8
  <2>2. g.at = "set" /\ d = scrape[s].cell /\ g = scrape[s]
    BY <1>4 DEF g, d
  <2>3. GaugeSet(n, gauge, gb, of[d], d, g.loaded)
    BY <1>6 DEF new, GaugeSet
  <2> QED
    BY <1>1, <1>8, <1>9, <1>10, <2>1, <2>2, <2>3, SetKeeps
<1> QED
  BY <1>4, <1>11 DEF n, of, tc, gb

LEMMA LockStep ==
  ASSUME AppInv, phase = "serving", NEW s \in Scrapes, Lock(s)
  PROVE  ScrapesOK(Len(pool), Of, scrape', live', gauge')
<1> DEFINE n == Len(pool)
           of == Of
           g == scrape[s]
           tc == scrape'
           h == [g EXCEPT !.at = "encode"]
<1>1. /\ ScrapesOK(n, of, scrape, live, gauge)
      /\ g \in Record(n, of) /\ HandlerOK(n, of, g, live, gauge)
  BY ServingFacts DEF ScrapesOK
<1>2. g.at = "lock" /\ Go(s, h) /\ UNCHANGED <<live, gauge>>
  BY DEF Lock
<1> HIDE DEF n, of, g
<1>3. /\ h.at = "encode" /\ h.cell = g.cell
      /\ h.began = g.began /\ h.since = g.since /\ h \in Record(n, of)
  BY <1>1 DEF Record
<1> HIDE DEF h
<1>4. Moved(n, of, scrape, tc, s, h)
  BY <1>1, <1>2, <1>3, GoMoves
<1>5. HandlerOK(n, of, h, live, gauge)
  <2>1. Passed(n, h) = Passed(n, g)
    BY <1>2, <1>3 DEF Passed
  <2> QED
    BY <1>1, <1>2, <1>3, <2>1 DEF HandlerOK
<1> HIDE DEF tc
<1>6. ScrapesOK(n, of, tc, live, gauge)
  BY <1>1, <1>2, <1>3, <1>4, <1>5, GoOn DEF g
<1> QED
  BY <1>2, <1>6 DEF n, of, tc

LEMMA EncodeStep ==
  ASSUME AppInv, phase = "serving", NEW s \in Scrapes, NEW x, Encode(s, x)
  PROVE  ScrapesOK(Len(pool), Of, scrape', live', gauge')
<1> DEFINE n == Len(pool)
           of == Of
           g == scrape[s]
           tc == scrape'
           h == IF x = InFlight THEN Idle ELSE [g EXCEPT !.todo = g.todo \ {x}]
<1>1. /\ ScrapesOK(n, of, scrape, live, gauge) /\ n \in Nat \ {0}
      /\ g \in Record(n, of) /\ HandlerOK(n, of, g, live, gauge)
  BY ServingFacts DEF ScrapesOK
<1>2. g.at = "encode" /\ Go(s, h) /\ UNCHANGED <<live, gauge>>
  BY DEF Encode
<1> HIDE DEF n, of, g
<1>3. /\ h \in Record(n, of)
      /\ h.at # "idle" => h.at = g.at /\ h.cell = g.cell /\ h.began = g.began /\ h.since = g.since
  <2>1. CASE x = InFlight
    <3>1. 0 \in Versions /\ 0 \in 0 .. n
      BY <1>1, ExporterAssumption DEF Versions
    <3> QED
      BY <2>1, <3>1 DEF Idle, Record
  <2>2. CASE x # InFlight
    BY <1>1, <2>2 DEF Record
  <2> QED
    BY <2>1, <2>2
<1> HIDE DEF h
<1>4. Moved(n, of, scrape, tc, s, h)
  BY <1>1, <1>2, <1>3, GoMoves
<1>5. HandlerOK(n, of, h, live, gauge)
  <2> SUFFICES ASSUME h.at # "idle" PROVE HandlerOK(n, of, h, live, gauge)
    BY DEF HandlerOK
  <2>1. Passed(n, h) = Passed(n, g)
    BY <1>3 DEF Passed
  <2> QED
    BY <1>1, <1>2, <1>3, <2>1 DEF HandlerOK
<1> HIDE DEF tc
<1>6. ScrapesOK(n, of, tc, live, gauge)
  BY <1>1, <1>2, <1>3, <1>4, <1>5, GoOn DEF g
<1> QED
  BY <1>2, <1>6 DEF n, of, tc

LEMMA ServeStep ==
  ASSUME AppInv, Serve
  PROVE  AppInv'
<1>1. phase = "serving" /\ UNCHANGED <<phase, file, config, health, routes, pool>>
  BY DEF Serve
<1>2. ScrapesOK(Len(pool), Of, scrape', live', gauge')
  <2>1. ASSUME NEW s \in Scrapes, ScrapeStep(s)
        PROVE  ScrapesOK(Len(pool), Of, scrape', live', gauge')
    BY <1>1, <2>1, BeginStep, LoadStep, SetStep, LockStep, EncodeStep DEF ScrapeStep
  <2> QED
    BY <1>1, <2>1, ChangeStep DEF Serve
<1>3. Of' = Of /\ Len(pool') = Len(pool)
  BY <1>1 DEF Of, Cells, GaugeOf
<1>4. Exported'
  BY <1>2, <1>3 DEF Exported
<1> QED
  BY <1>1, <1>4 DEF AppInv

LEMMA AppStep == AppInv /\ [Next]_appVars => AppInv'
<1> SUFFICES ASSUME AppInv, [Next]_appVars PROVE AppInv'
  OBVIOUS
<1>1. CASE Bind
  <2>1. /\ phase = "bind" /\ phase' \in {"serving", "failed"}
        /\ UNCHANGED <<file, config, health, routes, pool, exporterVars>>
    BY <1>1 DEF Bind
  <2>2. Exported'
    BY <2>1, ExportedStays DEF AppInv
  <2> QED
    BY <2>1, <2>2 DEF AppInv
<1>2. CASE HealthTaskRuns
  <2>1. /\ phase \in {"bind", "serving"} /\ health.at = "spawned"
        /\ health' = [at |-> IF health.interval = 0 THEN "dead" ELSE "running", interval |-> 0]
        /\ UNCHANGED <<phase, file, config, routes, pool, exporterVars>>
    BY <1>2 DEF HealthTaskRuns
  <2>2. Exported'
    BY <2>1, ExportedStays DEF AppInv
  <2>3. health' = [at |-> "running", interval |-> 0]
    BY <2>1 DEF AppInv
  <2>4. scrape' = scrape
    BY <2>1 DEF exporterVars
  <2>5. health' \in [at : {"none", "spawned", "running"}, interval : 0 .. U64Max]
        /\ health'.at # "spawned"
    BY <2>3, ConfigAssumption
  <2> QED
    BY <2>1, <2>2, <2>4, <2>5 DEF AppInv
<1>3. CASE UNCHANGED appVars
  <2>1. UNCHANGED <<phase, file, config, health, routes, pool, exporterVars>>
    BY <1>3 DEF appVars
  <2>2. Exported'
    BY <2>1, ExportedStays DEF AppInv
  <2>3. scrape' = scrape
    BY <2>1 DEF exporterVars
  <2> QED
    BY <2>1, <2>2, <2>3 DEF AppInv
<1>4. CASE Over
  BY <1>3, <1>4 DEF Over
<1> QED
  BY <1>1, <1>2, <1>3, <1>4, StartupSteps, BuildStep, ServeStep DEF Next

LEMMA AlwaysAppInv == Spec => []AppInv
  BY AppInit, AppStep, PTL DEF Spec

-----------------------------------------------------------------------------
\* Every reachable state is well-typed; urls have lost all their trailing slashes.
THEOREM TypeCorrect == Spec => []TypeOK
<1>1. ASSUME AppInv PROVE TypeOK
  <2> DEFINE n == Len(pool)
  <2>1. OfGood /\ ScrapesOK(n, Of, scrape, live, gauge)
    BY <1>1, OfFacts DEF AppInv, Exported
  <2>2. /\ live \in [0 .. n -> Versions] /\ scrape \in [Scrapes -> Record(n, Of)]
        /\ gauge \in [0 .. n -> [cell : 0 .. n, value : -1 .. MaxVersion]]
        /\ Cells = 0 .. n /\ Gauges = {Of[c] : c \in 0 .. n}
    BY <2>1 DEF ScrapesOK, CellTypes, OfGood, Gauges
  <2> HIDE DEF n
  <2>3. live \in [DOMAIN gauge -> 0 .. MaxVersion]
    BY <2>2 DEF Versions
  <2>4. gauge \in [DOMAIN live -> [cell : Cells, value : -1 .. MaxVersion]]
    BY <2>2
  <2>5. \A s \in Scrapes : scrape[s].cell \in Cells /\ scrape[s].todo \subseteq Gauges
    BY <2>2 DEF Record
  <2>6. /\ phase \in {"load", "address", "build", "bind", "serving", "failed", "panicked"}
        /\ health \in [at : {"none", "spawned", "running", "dead"}, interval : 0 .. U64Max]
        /\ \A i \in DOMAIN pool : pool[i].slashes = 0
    BY <1>1 DEF AppInv
  <2> QED
    BY <2>3, <2>4, <2>5, <2>6 DEF TypeOK
<1> QED
  BY <1>1, AlwaysAppInv, PTL

\* Whatever the file says, the start does not panic, the health task does not die behind
\* a router that serves, and no path has two handlers.
THEOREM AlwaysStartsSound == Spec => []StartsSound
<1>1. AppInv => StartsSound
  BY DEF AppInv, StartsSound
<1> QED
  BY <1>1, AlwaysAppInv, PTL

\* However many scrapes overlap and overwrite each other's gauges, what a scrape is
\* answered with is no older than the oldest scrape it met.
THEOREM ExportsAreRecent == Spec => ExportedIsRecent
<1>1. ASSUME AppInv, [Next]_appVars, NEW s \in Scrapes, scrape[s].at = "encode",
             NEW g \in scrape[s].todo \ scrape'[s].todo
      PROVE  gauge[g].value # NotCreated /\ gauge[g].value >= scrape[s].since[gauge[g].cell]
  <2> DEFINE n == Len(pool)
             h == scrape[s]
  <2>1. /\ h \in Record(n, Of) /\ HandlerOK(n, Of, h, live, gauge)
        /\ gauge \in [0 .. n -> [cell : 0 .. n, value : -1 .. MaxVersion]]
        /\ Of \in [0 .. n -> 0 .. n]
    BY <1>1 DEF AppInv, Exported, ScrapesOK, CellTypes
  <2>2. PICK c \in 0 .. n : g = Of[c]
    BY <1>1, <2>1 DEF Record
  <2>3. c \in Passed(n, h)
    BY <1>1 DEF Passed
  <2>4. gauge[g].value >= h.since[gauge[g].cell] /\ h.since \in [0 .. n -> Versions]
    BY <1>1, <2>1, <2>2, <2>3 DEF HandlerOK, Recent
  <2>5. gauge[g].cell \in 0 .. n /\ gauge[g].value \in -1 .. MaxVersion
    BY <2>1, <2>2
  <2>6. h.since[gauge[g].cell] \in Nat
    BY <2>4, <2>5 DEF Versions
  <2>7. gauge[g].value # -1
    BY <2>4, <2>5, <2>6
  <2> QED
    BY <2>4, <2>7 DEF NotCreated
<1>2. AppInv /\ [Next]_appVars =>
        [\A s \in Scrapes :
           scrape[s].at = "encode" =>
             \A g \in scrape[s].todo \ scrape'[s].todo :
               /\ gauge[g].value # NotCreated
               /\ gauge[g].value >= scrape[s].since[gauge[g].cell]]_<<pool, exporterVars>>
  BY <1>1
<1> QED
  BY <1>2, AlwaysAppInv, PTL DEF Spec, ExportedIsRecent
=============================================================================
