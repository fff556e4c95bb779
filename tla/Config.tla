-------------------------------- MODULE Config --------------------------------
(***************************************************************************)
(* The configuration file (router-core/src/config.rs): what deserializing  *)
(* makes of it, what `validate` accepts, and the small conversions of its  *)
(* values.  Sections are flattened to their keys; a text is a record of    *)
(* what the code looks at in it, and a number that does not fit its type   *)
(* stands for any value serde refuses there.                               *)
(***************************************************************************)
EXTENDS Integers, Sequences

CONSTANTS U16Max, U32Max, U64Max   \* the largest values of the number types

\* MAX_WINDOW_SECS
MaxWindowSecs == 3600

ASSUME ConfigAssumption ==
  /\ U16Max \in Nat /\ U32Max \in Nat /\ U64Max \in Nat
  /\ 8080 <= U16Max /\ U16Max <= U32Max /\ U32Max <= U64Max

\* A finite number, in tenths, or an infinity or NaN.
Float(tenths) == [finite |-> TRUE, tenths |-> tenths]
NotFinite     == [finite |-> FALSE, tenths |-> 0]

\* A path: its text after the leading '/', if it has one, and whether it holds
\* one of `: * { }`.
Path(name) == [slash |-> TRUE, name |-> name, special |-> FALSE]

\* The urls of backends, with the number of their trailing slashes.
AnyUrl == [http : BOOLEAN, printable : BOOLEAN, host : STRING, slashes : Nat]

\* The routes of build_router that are always there.
OwnRoutes == {Path("health"), Path("v1/completions"), Path("v1/chat/completions")}

\* STRATEGY_NAMES
StrategyNames == {"round_robin", "least_connections", "least_load",
                  "latency_aware", "prefix_cache"}

Defaults ==
  [host |-> "address", port |-> 8080,
   strategy |-> "round_robin", prefix_token_count |-> 256, alpha |-> Float(3),
   interval_secs |-> 5, unhealthy_threshold |-> 3, healthy_threshold |-> 2,
   failure_rate_threshold |-> Float(5), min_requests |-> 5, window_secs |-> 60,
   open_duration_secs |-> 30,
   max_in_flight |-> 1000, max_backend_queue_depth |-> 50,
   enabled |-> TRUE, path |-> Path("metrics"),
   connect_timeout_secs |-> 10, read_timeout_secs |-> 120]

U16Keys   == {"port"}
U32Keys   == {"unhealthy_threshold", "healthy_threshold"}
OtherKeys == {"host", "strategy", "alpha", "failure_rate_threshold", "enabled",
              "path", "backends"}

\* The largest value of a numeric key's type.
Limit(key) == CASE key \in U16Keys -> U16Max
                [] key \in U32Keys -> U32Max
                [] OTHER -> U64Max

-----------------------------------------------------------------------------
(* from_yaml *)

\* A backend of the file: its url, and its weight if it is given.
EntryParses(entry) ==
  /\ "url" \in DOMAIN entry
  /\ "weight" \in DOMAIN entry => entry.weight \in 0 .. U32Max

\* serde's derived Deserialize: no unknown key, the required ones there, and
\* every value of its type.
Parses(file) ==
  /\ file.readable /\ file.yaml
  /\ ~file.unknownKey
  /\ file.routing /\ "backends" \in DOMAIN file.given
  /\ \A key \in DOMAIN file.given \ OtherKeys : file.given[key] \in 0 .. Limit(key)
  /\ \A i \in DOMAIN file.given.backends : EntryParses(file.given.backends[i])

\* What is not given has its default.
Parsed(file) ==
  [key \in DOMAIN Defaults \union {"backends"} |->
     IF key = "backends"
     THEN [i \in DOMAIN file.given.backends |->
             LET entry == file.given.backends[i]
             IN  [url |-> entry.url,
                  weight |-> IF "weight" \in DOMAIN entry THEN entry.weight ELSE 1]]
     ELSE IF key \in DOMAIN file.given THEN file.given[key] ELSE Defaults[key]]

-----------------------------------------------------------------------------
(* validate *)

\* In (0, 1].
IsShare(f) == f.finite /\ f.tenths > 0 /\ f.tenths <= 10

RoutingValid(c) == IsShare(c.alpha) /\ c.strategy \in StrategyNames

\* Mutant of HealthCheckValid: the interval is not looked at.
HealthCheckUnchecked(c) == TRUE

HealthCheckValid(c) == c.interval_secs >= 1

BreakerValid(c) ==
  /\ IsShare(c.failure_rate_threshold)
  /\ c.window_secs >= 1 /\ c.window_secs <= MaxWindowSecs
  /\ c.min_requests >= 1

\* A literal path that no route of the router has.
MetricsValid(c) == c.path.slash /\ c.path \notin OwnRoutes /\ ~c.path.special

UpstreamValid(c) == c.connect_timeout_secs >= 1 /\ c.read_timeout_secs >= 1

BackendsValid(c) ==
  /\ c.backends # <<>>
  /\ \A i \in DOMAIN c.backends :
       /\ c.backends[i].weight >= 1
       /\ c.backends[i].url.http /\ c.backends[i].url.printable

Valid(c) ==
  /\ RoutingValid(c) /\ HealthCheckValid(c) /\ BreakerValid(c)
  /\ c.max_in_flight >= 1
  /\ MetricsValid(c) /\ UpstreamValid(c) /\ BackendsValid(c)

-----------------------------------------------------------------------------
\* Mutant of NormalizedUrl: only one slash is trimmed.
NormalizedUrlOnce(url) ==
  [url EXCEPT !.slashes = IF url.slashes > 0 THEN url.slashes - 1 ELSE 0]

\* normalized_url: all trailing slashes are trimmed.
NormalizedUrl(url) == [url EXCEPT !.slashes = 0]

\* listen_addr: only an IP address forms a socket address with the port.
ListenAddrParses(c) == c.host = "address"
=============================================================================
