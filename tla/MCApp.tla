--------------------------------- MODULE MCApp ---------------------------------
(***************************************************************************)
(* App for TLC: files that differ from the shortest one in at most two     *)
(* places, each with values inside, at and outside its limits.             *)
(***************************************************************************)
EXTENDS App, TLC

Url(host, slashes) == [http |-> TRUE, printable |-> TRUE, host |-> host, slashes |-> slashes]
Entry(url)         == [url |-> url]
Weighted(url, w)   == [url |-> url, weight |-> w]

Pools ==
  { <<Entry(Url("a", 0))>>,
    <<Entry(Url("a", 1)), Weighted(Url("b", 2), 2)>>,
    <<Entry(Url("a", 2)), Weighted(Url("a", 0), U32Max)>>,
    << >>,
    <<Weighted(Url("a", 0), 0)>>, <<Weighted(Url("a", 0), -1)>>, <<[weight |-> 1]>>,
    <<Entry(Url("a", 0)), Entry([Url("b", 0) EXCEPT !.http = FALSE])>>,
    <<Entry([Url("a", 0) EXCEPT !.printable = FALSE])>> }

Floats == {Float(1), Float(10), Float(0), Float(11), Float(-1), NotFinite}
Paths  == OwnRoutes \union {Path("stats"), [Path("stats") EXCEPT !.slash = FALSE],
                            [Path("stats") EXCEPT !.special = TRUE]}

\* The values that may be given for a key.
Values(key) ==
  CASE key \in {"alpha", "failure_rate_threshold"} -> Floats
    [] key = "host" -> {"name"}
    [] key = "strategy" -> StrategyNames \union {"roundrobin"}
    [] key = "enabled" -> {FALSE}
    [] key = "path" -> Paths
    [] key = "backends" -> Pools
    [] key = "window_secs" -> {0, 1, MaxWindowSecs, MaxWindowSecs + 1}
    [] OTHER -> {-1, 0, 1, Limit(key), Limit(key) + 1}

File(given) == [readable |-> TRUE, yaml |-> TRUE, unknownKey |-> FALSE,
                routing |-> TRUE, given |-> given]

Changes == UNION {{key :> v : v \in Values(key)} :
                    key \in DOMAIN Defaults \union {"backends"}}
Shortest == "backends" :> <<Entry(Url("a", 0))>>

MCFiles ==
  {File(c @@ d @@ Shortest) : c, d \in Changes}
    \union {[File(Shortest) EXCEPT ![flag] = ~@] :
              flag \in {"readable", "yaml", "unknownKey", "routing"}}
    \union {File(None)}
=============================================================================
