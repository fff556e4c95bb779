------------------------------ MODULE RouterAudit ------------------------------
(***************************************************************************)
(* Router with a history variable: for each request that is selecting its  *)
(* backend, what was true of the backends all the time since it began.     *)
(* Selection reads health flags, breakers and queue depths one by one      *)
(* while they change; the properties say what it can be blamed for.        *)
(***************************************************************************)
EXTENDS Router

VARIABLE held

auditVars == <<clock, healthy, queueDepth, breaker, active, ewma, inFlight,
               requestsTotal, rejected, req, held>>

Selecting == {"scan", "ask", "filter", "select"}

\* What holds of the backends in the current state.
Now == [steady |-> {b \in Backends : healthy[b] /\ breaker[b].state = "Closed"},
        low    |-> {b \in Backends : queueDepth[b] <= MaxQueueDepth},
        high   |-> {b \in Backends : queueDepth[b] > MaxQueueDepth},
        down   |-> {b \in Backends : ~healthy[b]}]

Nothing == [steady |-> {}, low |-> {}, high |-> {}, down |-> {}]

Both(x, y) == [k \in DOMAIN x |-> x[k] \intersect y[k]]

AuditInit == Init /\ held = [r \in Requests |-> Nothing]

AuditNext ==
  /\ Next
  /\ held' = [r \in Requests |->
       IF req'[r].at \notin Selecting THEN Nothing
       ELSE IF req[r].at \in Selecting THEN Both(held[r], Now') ELSE Now']

AuditSpec == AuditInit /\ [][AuditNext]_auditVars

-----------------------------------------------------------------------------
\* Some backend was healthy and closed during the whole selection, and under
\* the queue limit, or else every backend was over it.
HadABackend(r) ==
  \E b \in held[r].steady : b \in held[r].low \/ held[r].high = Backends

\* Selection answers 503 only for a reason: not while some backend was healthy,
\* closed and under the queue limit all along, and, the limit being soft, not
\* because all backends are over it.
No503WithoutReason ==
  [][ \A r \in Requests :
        rejected'["no_routable_backend"] > rejected["no_routable_backend"]
          /\ req[r].at = "select" /\ req'[r].at = "release"
            => ~HadABackend(r) ]_auditVars

\* A request is not sent to a backend that was marked down during the whole
\* selection, nor to one that was over the queue limit all along while another
\* steady backend stayed under it.
NoBadChoice ==
  [][ \A r \in Requests :
        req[r].at = "select" /\ req'[r].at = "start" =>
          /\ req'[r].backend \notin held[r].down
          /\ req'[r].backend \in held[r].high
               => held[r].steady \intersect held[r].low = {} ]_auditVars
=============================================================================
