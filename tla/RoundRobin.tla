------------------------------ MODULE RoundRobin ------------------------------
(***************************************************************************)
(* Weighted round robin (routing/round_robin.rs).  Taking a ticket is one  *)
(* atomic step, and what follows depends on the ticket and the caller's    *)
(* own candidates only, so a select is one step however many handlers run. *)
(* The candidates change when backends come and go and when a refused      *)
(* request asks again without the backend that refused it.                 *)
(***************************************************************************)
EXTENDS Weights, Sequences, SequencesExt

VARIABLES
  counter,   \* RoundRobin.counter
  cands,     \* the candidates of the latest request
  run        \* history: the tickets and picks since the candidates changed

vars == <<counter, cands, run>>

\* The rotation never needs a longer memory than this.
Memory == 2 * TotalWeight(Backends) - 1

Init ==
  /\ counter = 0
  /\ cands = Backends
  /\ run = <<>>

Select ==
  LET total == TotalWeight(cands)
      pick  == [ticket |-> counter, backend |-> WeightedPick(counter % total, cands)]
      kept  == IF Len(run) < Memory THEN run ELSE Tail(run)
  IN  /\ total # 0
      /\ counter' = FetchAdd(counter)
      /\ run' = Append(kept, pick)
      /\ UNCHANGED cands

\* The next request has other candidates; without any, select returns None and
\* takes no ticket.
Change(routable) ==
  /\ routable # cands
  /\ cands' = routable
  /\ run' = <<>>
  /\ UNCHANGED counter

Next == Select \/ \E routable \in SUBSET Backends : Change(routable)

Spec == Init /\ [][Next]_vars

-----------------------------------------------------------------------------
\* The n latest picks, and how many of them went to b.
Latest(n) == SubSeq(run, Len(run) - n + 1, Len(run))
Picks(b, picks) == Cardinality({i \in DOMAIN picks : picks[i].backend = b})

Wrapped(picks) == \E i \in 1 .. Len(picks) - 1 : picks[i + 1].ticket < picks[i].ticket

\* "each gets `weight` slots": as long as the candidates stay, any TotalWeight
\* requests in a row are shared out exactly by weight, wherever the counter
\* stood when they became the candidates.
ExactShares ==
  LET total == TotalWeight(cands)
  IN  Len(run) >= total /\ ~Wrapped(Latest(total)) =>
        \A b \in cands : Picks(b, Latest(total)) = Share(b)

\* Where the counter wraps, the rotation starts over in the middle of a turn.
\* Nobody is left out for long: two turns, less one request, hold everyone's
\* share.
SharesAcrossWrap ==
  LET turns == 2 * TotalWeight(cands) - 1
  IN  cands # {} /\ Len(run) >= turns =>
        \A b \in cands : Picks(b, Latest(turns)) >= Share(b)
=============================================================================
