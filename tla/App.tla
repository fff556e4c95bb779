---------------------------------- MODULE App ----------------------------------
(***************************************************************************)
(* The router from its start (main.rs) over the wiring of its parts        *)
(* (app.rs, build_router of server.rs) to serving: the configuration file  *)
(* is read, parsed and validated, the parts are made from it, the health   *)
(* task is spawned, the listener bound.  The parts have modules of their   *)
(* own; of what runs then, only the health task's start and the /metrics   *)
(* endpoint (Exporter) are here.                                           *)
(***************************************************************************)
EXTENDS Config, Exporter, FiniteSets

CONSTANT Files    \* the configuration files the router may be started with

\* What a file gives is of the kind its key is for.
ASSUME FilesAssumption ==
  \A f \in Files :
    LET Gives(key, S) == key \in DOMAIN f.given => f.given[key] \in S
    IN  /\ Gives("enabled", BOOLEAN)
        /\ "backends" \in DOMAIN f.given =>
             /\ Len(f.given.backends) \in Nat
             /\ DOMAIN f.given.backends = 1 .. Len(f.given.backends)
             /\ \A i \in DOMAIN f.given.backends :
                  "url" \in DOMAIN f.given.backends[i] => f.given.backends[i].url \in AnyUrl

VARIABLES
  phase,     \* where main is
  file,      \* the file it is started with
  config,    \* RouterConfig
  health,    \* the health task
  routes     \* the router's paths, each with the handlers of GET

appVars == <<phase, file, config, health, routes, pool, exporterVars>>

None == [k \in {} |-> 0]

\* The health task, and the interval it was given.
NoTask == [at |-> "none", interval |-> 0]

Init ==
  /\ phase = "load"
  /\ file \in Files
  /\ config = None /\ health = NoTask /\ routes = None /\ pool = <<>>
  /\ live = [c \in {InFlight} |-> 0] /\ gauge = NewGauges(0)
  /\ scrape = [s \in Scrapes |-> Idle]

-----------------------------------------------------------------------------
(* main *)

Fail == phase' = "failed" /\ UNCHANGED <<config, health, routes, pool, exporterVars>>

\* RouterConfig::from_file
LoadConfig ==
  /\ phase = "load"
  /\ file' = None
  /\ IF Parses(file) /\ Valid(Parsed(file))
     THEN /\ phase' = "address" /\ config' = Parsed(file)
          /\ UNCHANGED <<health, routes, pool, exporterVars>>
     ELSE Fail

ListenAddr ==
  /\ phase = "address"
  /\ UNCHANGED file
  /\ IF ListenAddrParses(config)
     THEN phase' = "build" /\ UNCHANGED <<config, health, routes, pool, exporterVars>>
     ELSE Fail

\* axum's Router::route, whether it panics: a path must begin with '/', and no
\* method of a path may have two handlers; of the paths that hold a special
\* character some are patterns and some of those are refused (an unnamed
\* parameter, a wildcard that is not the last segment).
RoutePanics(path) ==
  CASE ~path.slash \/ path = Path("health") -> {TRUE}
    [] path.slash /\ path.special -> BOOLEAN
    [] OTHER -> {FALSE}

\* build_router.  The completion routes answer every method by a fallback, which
\* a handler of GET takes precedence over.
Routes(c) ==
  [p \in OwnRoutes \union (IF c.enabled THEN {c.path} ELSE {}) |->
     (CASE p = Path("health") -> {"health_handler"}
        [] p \in OwnRoutes \ {Path("health")} -> {"proxy_handler"}
        [] OTHER -> {})
     \union (IF c.enabled /\ p = c.path THEN {"metrics_handler"} ELSE {})]

\* build_app fails where the strategy's name is unknown or the client cannot be
\* built; the health task is spawned before the routes are made.
BuildFails ==
  /\ phase = "build"
  /\ UNCHANGED file
  /\ Fail

BuildApp ==
  /\ phase = "build" /\ config.strategy \in StrategyNames
  /\ pool' = [i \in DOMAIN config.backends |-> NormalizedUrl(config.backends[i].url)]
  /\ health' = [at |-> "spawned", interval |-> config.interval_secs]
  /\ \E panics \in RoutePanics(config.path) :
       IF config.enabled /\ panics
       THEN phase' = "panicked" /\ UNCHANGED <<config, routes, exporterVars>>
       ELSE /\ phase' = "bind"
            /\ config' = None
            /\ routes' = Routes(config)
            /\ live' = [c \in 0 .. Len(config.backends) |-> 0]
            /\ gauge' = NewGauges(Len(config.backends))
            /\ UNCHANGED scrape
  /\ UNCHANGED file

\* The address may be taken.
Bind ==
  /\ phase = "bind"
  /\ phase' \in {"serving", "failed"}
  /\ UNCHANGED <<file, config, health, routes, pool, exporterVars>>

-----------------------------------------------------------------------------
\* The health task sets up its ticker: tokio panics for a period of zero, which
\* ends the task and nothing else.
HealthTaskRuns ==
  /\ phase \in {"bind", "serving"} /\ health.at = "spawned"
  /\ health' = [at |-> IF health.interval = 0 THEN "dead" ELSE "running", interval |-> 0]
  /\ UNCHANGED <<phase, file, config, routes, pool, exporterVars>>

\* Where /metrics is answered.
MetricsRoutes == {p \in DOMAIN routes : "metrics_handler" \in routes[p]}

\* Requests for /metrics, if it is enabled, and the rest of the router's work.
Serve ==
  /\ phase = "serving"
  /\ \/ MetricsRoutes # {} /\ \E s \in Scrapes : ScrapeStep(s)
     \/ \E cell \in Cells : Change(cell)
  /\ UNCHANGED <<phase, file, config, health, routes, pool>>

\* main has returned an error, or panicked; without /metrics nothing but requests
\* is left to serve.
Over ==
  /\ phase \in {"failed", "panicked"} \/ (phase = "serving" /\ MetricsRoutes = {})
  /\ UNCHANGED appVars

Next ==
  \/ LoadConfig \/ ListenAddr \/ BuildFails \/ BuildApp \/ Bind
  \/ HealthTaskRuns \/ Serve \/ Over

Spec == Init /\ [][Next]_appVars

-----------------------------------------------------------------------------
(* Properties *)

\* The types; backends are known by urls without trailing slashes, however the
\* file writes them, so that `{url}{path}` never has two in a row.
TypeOK ==
  /\ phase \in {"load", "address", "build", "bind", "serving", "failed", "panicked"}
  /\ health \in [at : {"none", "spawned", "running", "dead"}, interval : 0 .. U64Max]
  /\ \A i \in DOMAIN pool : pool[i].slashes = 0
  /\ live \in [DOMAIN gauge -> 0 .. MaxVersion]
  /\ gauge \in [DOMAIN live -> [cell : Cells, value : -1 .. MaxVersion]]
  /\ \A s \in Scrapes : scrape[s].cell \in Cells /\ scrape[s].todo \subseteq Gauges

\* "Reject configs that would misbehave at runtime instead of failing at
\* startup" (validate): with no file does the start panic, the health task die
\* behind a router that goes on serving, or a path of the router get a second
\* handler.
StartsSound ==
  /\ phase # "panicked"
  /\ health.at # "dead"
  /\ \A p \in DOMAIN routes : Cardinality(routes[p]) = 1
================================================================================
