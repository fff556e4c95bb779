------------------------------ MODULE LeastLoaded ------------------------------
(***************************************************************************)
(* Least-connections and least-load routing (routing/least_connections.rs, *)
(* routing/least_load.rs).  A handler reads the loads of its candidates    *)
(* one by one, and the connection is counted later, in                     *)
(* RequestAccounting::start, so several handlers may flock to the backend  *)
(* that was the least loaded one.  Nothing in between is awaited: no more  *)
(* handlers are selecting at a time than the runtime has threads.  All     *)
(* backends are healthy and closed here; Router has the others.            *)
(***************************************************************************)
EXTENDS Integers, FiniteSets, FiniteSetsExt

CONSTANTS
  Backends,       \* the indices of the backends in the pool
  Requests,
  Threads,        \* worker threads of the runtime
  Depths,         \* the queue depths that are scraped
  MaxQueueDepth,  \* backpressure.max_backend_queue_depth
  WordSize        \* sums of loads wrap here: 2^64 in a release build

VARIABLES
  countDepth,  \* least_load, which counts the scraped queue depths, too
  active,      \* Backend.active_connections
  queueDepth,  \* Backend.queue_depth
  req,         \* the handlers
  calm         \* history: since the router was last idle no request has ended
               \* and no depth has changed

vars == <<countDepth, active, queueDepth, req, calm>>

NoBackend == -1

Idle == [at |-> "idle", todo |-> {}, best |-> NoBackend, least |-> 0]

Init ==
  /\ countDepth \in BOOLEAN
  /\ active = [b \in Backends |-> 0]
  /\ queueDepth \in [Backends -> Depths]
  /\ req = [r \in Requests |-> Idle]
  /\ calm = TRUE

\* BackendPool::routable's soft limit.
Candidates ==
  LET under == {b \in Backends : queueDepth[b] <= MaxQueueDepth}
  IN  IF under = {} THEN Backends ELSE under

Selecting == {r \in Requests : req[r].at \in {"read", "start"}}

Begin(r) ==
  /\ req[r].at = "idle" /\ Cardinality(Selecting) < Threads
  /\ req' = [req EXCEPT ![r] = [Idle EXCEPT !.at = "read", !.todo = Candidates]]
  /\ UNCHANGED <<countDepth, active, queueDepth, calm>>

\* Mutant of LoadOf: the depth is forgotten.
LoadOfConnections(b) == active[b]

\* The key of min_by_key.
LoadOf(b) == IF countDepth THEN (active[b] + queueDepth[b]) % WordSize ELSE active[b]

\* One step of min_by_key, which keeps the first of equal ones.  The two loads of
\* least_load are one step; they differ only if the depth changes in between.
Read(r) ==
  LET h == req[r]
      b == Min(h.todo)
      better == h.best = NoBackend \/ LoadOf(b) < h.least
  IN  /\ h.at = "read" /\ h.todo # {}
      /\ req' = [req EXCEPT ![r] =
           [at    |-> IF h.todo = {b} THEN "start" ELSE "read",
            todo  |-> h.todo \ {b},
            best  |-> IF better THEN b ELSE h.best,
            least |-> IF better THEN LoadOf(b) ELSE h.least]]
      /\ UNCHANGED <<countDepth, active, queueDepth, calm>>

\* record_request_start
Start(r) ==
  /\ req[r].at = "start"
  /\ active' = [active EXCEPT ![req[r].best] = @ + 1]
  /\ req' = [req EXCEPT ![r] = [Idle EXCEPT !.at = "running", !.best = req[r].best]]
  /\ UNCHANGED <<countDepth, queueDepth, calm>>

IdleRouter(reqs) == \A r \in Requests : reqs[r].at = "idle"

\* record_request_end
End(r) ==
  /\ req[r].at = "running"
  /\ active' = [active EXCEPT ![req[r].best] = @ - 1]
  /\ req' = [req EXCEPT ![r] = Idle]
  /\ calm' = IdleRouter(req')
  /\ UNCHANGED <<countDepth, queueDepth>>

\* The health checker stores another depth.
Scrape(b, depth) ==
  /\ depth # queueDepth[b]
  /\ queueDepth' = [queueDepth EXCEPT ![b] = depth]
  /\ calm' = IdleRouter(req)
  /\ UNCHANGED <<countDepth, active, req>>

Next ==
  \/ \E r \in Requests : Begin(r) \/ Read(r) \/ Start(r) \/ End(r)
  \/ \E b \in Backends, depth \in Depths : Scrape(b, depth)

Spec == Init /\ [][Next]_vars

-----------------------------------------------------------------------------
\* What a backend really has to do, as far as the strategy means to count it.
TrueLoad(b) == active[b] + IF countDepth THEN queueDepth[b] ELSE 0

\* The herd is bounded: while requests only come in and depths stay, a backend
\* that was given a request is never ahead of another candidate by more than
\* the number of threads that can select at once.
Leveled ==
  calm => \A b, c \in Candidates :
            active[b] > 0 => TrueLoad(b) <= TrueLoad(c) + Threads

-----------------------------------------------------------------------------
(* What the documentation says and the code does otherwise *)

\* "Like least-connections, but also counts the requests the backend itself
\* reports as waiting" (least_load.rs): a request that selects with nobody else
\* around is started where connections and waiting requests are fewest.
LeastLoadChosen ==
  [][ \A r \in Requests :
        calm /\ req[r].at = "start" /\ req'[r].at = "running" =>
          \A c \in Candidates : TrueLoad(req[r].best) <= TrueLoad(c) ]_vars
=============================================================================
