------------------------------ MODULE HealthFeed ------------------------------
(***************************************************************************)
(* What the request path may assume about the health checker: the flag and *)
(* the queue depth it publishes for each backend, without streaks, rounds  *)
(* and scrapes.  Health implements it; Router runs against it.             *)
(***************************************************************************)
CONSTANTS
  Backends,
  Depths      \* the queue depths a backend may report

ASSUME DepthAssumption == 0 \in Depths

VARIABLES
  healthy,     \* Backend.healthy
  queueDepth   \* Backend.queue_depth

feedVars == <<healthy, queueDepth>>

FeedInit ==
  /\ healthy = [b \in Backends |-> TRUE]
  /\ queueDepth = [b \in Backends |-> 0]

\* A health probe passed: the backend may be marked up, nothing else changes.
MarkUp(b) ==
  /\ ~healthy[b]
  /\ healthy' = [healthy EXCEPT ![b] = TRUE]
  /\ UNCHANGED queueDepth

\* A health probe failed and left the backend marked down: what was scraped
\* from it is forgotten in the same step.
MarkDown(b) ==
  /\ healthy' = [healthy EXCEPT ![b] = FALSE]
  /\ queueDepth' = [queueDepth EXCEPT ![b] = 0]

\* A scrape ended: the backend's depth is what it reported, or 0.
Report(b, depth) ==
  /\ queueDepth' = [queueDepth EXCEPT ![b] = depth]
  /\ UNCHANGED healthy

FeedStep ==
  \E b \in Backends :
    \/ MarkUp(b)
    \/ MarkDown(b)
    \/ \E d \in Depths : Report(b, d)

FeedSpec == FeedInit /\ [][FeedStep]_feedVars
=============================================================================
