------------------------------ MODULE Strategies ------------------------------
(***************************************************************************)
(* A router has one strategy, which create_strategy (routing/mod.rs) makes *)
(* from the configured name and which stays.  The module runs the five of  *)
(* them, each as its own module describes it.                              *)
(***************************************************************************)
EXTENDS LatencyAware

CONSTANTS
  Handlers, Threads, Depths, MaxQueueDepth, WordSize,           \* LeastLoaded
  VNodes, Hashes, Chars, Space, PrefixCharLimit, Bodies         \* PrefixCache

ASSUME StrategiesAssumption ==
  /\ Depths \subseteq Nat /\ Depths # {}
  /\ Threads \in Nat \ {0} /\ MaxQueueDepth \in Nat /\ WordSize \in Nat \ {0}
  /\ IsFiniteSet(Handlers)
  /\ VNodes # {} /\ IsFiniteSet(VNodes) /\ Hashes \subseteq Nat
  /\ Space \in Chars /\ PrefixCharLimit \in Nat

VARIABLES
  strategy,                            \* AppState.strategy
  counter, cands, run,                 \* RoundRobin
  active, queueDepth, selecting, calm, \* LeastLoaded
  points, keyOf, looking               \* PrefixCache

RR == INSTANCE RoundRobin
LL == INSTANCE LeastLoaded WITH Requests <- Handlers, req <- selecting,
                                countDepth <- strategy = "least_load"
PC == INSTANCE PrefixCache WITH req <- looking

roundRobinVars  == <<counter, cands, run>>
leastLoadedVars == <<active, queueDepth, selecting, calm>>
prefixVars      == <<points, keyOf, looking>>
strategyVars    == <<strategy, roundRobinVars, leastLoadedVars, prefixVars, vars>>

\* STRATEGY_NAMES
StrategyNames == {"round_robin", "least_connections", "least_load",
                  "latency_aware", "prefix_cache"}

\* create_strategy builds a ring for prefix_cache only, and the depths only
\* matter to the strategies that look at them.
StrategyInit ==
  /\ strategy \in StrategyNames
  /\ Init /\ RR!Init /\ LL!Init
  /\ strategy \notin {"least_connections", "least_load"} =>
       \A b \in Backends : queueDepth[b] = Min(Depths)
  /\ IF strategy = "prefix_cache" THEN PC!Init
     ELSE points = <<>> /\ keyOf = <<>> /\ looking = <<>>

\* The configured strategy's select, and what its state meets meanwhile.
StrategyNext ==
  /\ strategy' = strategy
  /\ \/ /\ strategy = "round_robin"
        /\ RR!Next
        /\ UNCHANGED <<leastLoadedVars, prefixVars, vars>>
     \/ /\ strategy \in {"least_connections", "least_load"}
        /\ LL!Next
        /\ UNCHANGED <<roundRobinVars, prefixVars, vars>>
     \/ /\ strategy = "latency_aware"
        /\ Next
        /\ UNCHANGED <<roundRobinVars, leastLoadedVars, prefixVars>>
     \/ /\ strategy = "prefix_cache"
        /\ PC!Next
        /\ UNCHANGED <<roundRobinVars, leastLoadedVars, vars>>

StrategySpec == StrategyInit /\ [][StrategyNext]_strategyVars

-----------------------------------------------------------------------------
\* Round robin: "each gets `weight` slots", exactly, in every turn.
ExactShares == RR!ExactShares

\* Round robin: where the counter wraps, two turns still hold everyone's share.
SharesAcrossWrap == RR!SharesAcrossWrap

\* Least connections and least load: handlers that select at the same time
\* overload a backend by no more than the number of threads.
Leveled == LL!Leveled

\* Prefix cache: "Only keys from the removed backend may move".
OnlyLostKeysMove == strategy = "prefix_cache" => PC!OnlyLostKeysMove

\* Prefix cache: as long as a candidate is left, select returns one.
AlwaysSelects == strategy = "prefix_cache" => PC!AlwaysSelects
=============================================================================
