------------------------------- MODULE Weights -------------------------------
(***************************************************************************)
(* The weighted rotation that round_robin.rs defines and latency_aware.rs  *)
(* falls back on: each backend owns as many consecutive slots as its       *)
(* weight, in the order of the pool.                                       *)
(***************************************************************************)
EXTENDS Integers, FiniteSets, FiniteSetsExt

CONSTANTS
  Backends,    \* the indices of the backends in the pool
  Weight,      \* their configured weights
  CounterSize  \* the ticket counter wraps here: 2^64 in the program

ASSUME WeightsAssumption ==
  /\ Backends \subseteq Nat /\ Backends # {} /\ IsFiniteSet(Backends)
  /\ Weight \in [Backends -> Nat]
  /\ CounterSize \in Nat \ {0}

Share(b) == Max({Weight[b], 1})

Shares == [b \in Backends |-> Share(b)]

TotalWeight(routable) == MapThenSumSet(LAMBDA b : Shares[b], routable)

\* A turn is shorter than the counter: the weights are u32, the counter 64 bits wide.
ASSUME CounterAssumption == TotalWeight(Backends) <= CounterSize

\* The slots of the backends before b.
Before(b, routable) == TotalWeight({c \in routable : c < b})

\* Mutant of WeightedPick: the comparison includes the next backend's first slot.
WeightedPickWide(slot, routable) ==
  Min({b \in routable : slot <= Before(b, routable) + Share(b)})

\* weighted_pick: the owner of the slot.
WeightedPick(slot, routable) ==
  Min({b \in routable : slot < Before(b, routable) + Share(b)})

\* Mutant of FetchAdd: the counter stays at its largest value.
FetchAddSaturating(counter) == Min({counter + 1, CounterSize - 1})

\* Mutant of FetchAdd: the counter never wraps.
FetchAddUnbounded(counter) == counter + 1

\* fetch_add wraps around.
FetchAdd(counter) == (counter + 1) % CounterSize
=============================================================================
