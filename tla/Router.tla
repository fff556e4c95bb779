-------------------------------- MODULE Router --------------------------------
(***************************************************************************)
(* The life of requests in the router: proxy_handler and select_backend    *)
(* (server.rs), BackendPool::routable (backend.rs), the permits            *)
(* (backpressure.rs), forward_request (proxy.rs), RequestAccounting and    *)
(* AccountedStream (accounting.rs), over one circuit breaker per backend   *)
(* (Breaker) and the health checker's flags (HealthFeed).                  *)
(*                                                                         *)
(* The handlers run on several threads: every access to a shared atomic or *)
(* to a breaker is a step of its own, so that what the routable scan saw   *)
(* may be outdated when a backend is chosen.  A client can go away only    *)
(* where the handler or the response body is awaited.  The instant a       *)
(* breaker call samples is the clock of its step; samples that reach the   *)
(* lock late are the subject of CircuitBreaker.  The strategy may pick any *)
(* candidate.  Latencies are left out: `ewma` only says whether a backend  *)
(* has a latency estimate.                                                 *)
(***************************************************************************)
EXTENDS Breaker, HealthFeed

CONSTANTS
  Requests,         \* the requests that may arrive
  MaxInFlight,      \* backpressure.max_in_flight
  MaxQueueDepth,    \* backpressure.max_backend_queue_depth
  Answers,          \* the status classes the backends answer with
  MaxClock          \* bound: the last instant of the modelled clock

Statuses == {"2xx", "4xx", "5xx"}

ASSUME RouterAssumption ==
  /\ Backends \subseteq Nat /\ Backends # {} /\ IsFiniteSet(Backends)
  /\ Depths \subseteq Nat
  /\ MaxInFlight \in Nat \ {0}
  /\ MaxQueueDepth \in Nat
  /\ Answers \subseteq Statuses
  /\ MaxClock \in Nat

VARIABLES
  clock,
  breaker,         \* Backend.breaker
  active,          \* Backend.active_connections
  ewma,            \* Backend.ewma_latency_us # 0
  inFlight,        \* BackpressureController.in_flight
  requestsTotal,   \* router_requests_total, per backend and status label
  rejected,        \* router_rejected_requests_total, per reason
  req              \* the handler of each request

vars == <<clock, healthy, queueDepth, breaker, active, ewma, inFlight,
          requestsTotal, rejected, req>>

Reasons  == {"backpressure", "body_too_large", "bad_body", "no_routable_backend"}
Failed   == {"transport_error", "stream_error"}
Outcome  == Failed \union {"completed", "client_disconnect"}
Labels   == Statuses \union Failed \union {"client_disconnect"}

Location == {"new", "body", "scan", "ask", "filter", "select", "start", "sent",
             "buffering", "headers", "streaming", "end", "verdict", "count",
             "release", "replying", "done"}

NoBackend == -1

Handler == [at      : Location,
            todo    : SUBSET Backends,    \* still to be looked at by routable()
            avail   : SUBSET Backends,    \* routable()'s `available`
            cands   : SUBSET Backends,    \* `under_limit`, then `candidates`
            backend : Backends \union {NoBackend},
            adm     : Admission \union {NoAdmission},
            status  : Statuses \union {"none"},
            sse     : BOOLEAN,            \* text/event-stream response
            done    : BOOLEAN,            \* AccountedStream.done_seen
            reading : BOOLEAN,            \* the client takes what a stream sends
            outcome : Outcome,
            reply   : {"none", "full", "aborted"}]   \* what is left to do at the end:
                              \* send a buffered response, or nothing, with the
                              \* client gone before its request was complete

Arriving == [at |-> "new", todo |-> {}, avail |-> {}, cands |-> {},
             backend |-> NoBackend, adm |-> NoAdmission, status |-> "none",
             sse |-> FALSE, done |-> FALSE, reading |-> TRUE,
             outcome |-> "client_disconnect", reply |-> "none"]

Init ==
  /\ clock = 0
  /\ FeedInit
  /\ breaker = [b \in Backends |-> New(0)]
  /\ active = [b \in Backends |-> 0]
  /\ ewma = [b \in Backends |-> FALSE]
  /\ inFlight = 0
  /\ requestsTotal = [series \in Backends \X Labels |-> 0]
  /\ rejected = [k \in Reasons |-> 0]
  /\ req = [r \in Requests |-> Arriving]

-----------------------------------------------------------------------------
(* Handler steps: At is the guard, Go the handler's next state. *)

At(r, at) == req[r].at = at

Go(r, h) == req' = [req EXCEPT ![r] = h]

Reject(reason) == rejected' = [rejected EXCEPT ![reason] = @ + 1]

Metrics == <<requestsTotal, rejected>>
Pool    == <<healthy, queueDepth, breaker, active, ewma>>

-----------------------------------------------------------------------------
(* Admission *)

\* Mutant of Acquire: one request too many.
AcquireOneMore(r) ==
  /\ At(r, "new") /\ inFlight <= MaxInFlight
  /\ inFlight' = inFlight + 1
  /\ Go(r, [req[r] EXCEPT !.at = "body"])
  /\ UNCHANGED <<clock, Pool, Metrics>>

\* try_acquire succeeds; the upload of the request's body is awaited.
Acquire(r) ==
  /\ At(r, "new") /\ inFlight < MaxInFlight
  /\ inFlight' = inFlight + 1
  /\ Go(r, [req[r] EXCEPT !.at = "body"])
  /\ UNCHANGED <<clock, Pool, Metrics>>

\* At capacity: 429.
RejectAtCapacity(r) ==
  /\ At(r, "new") /\ inFlight >= MaxInFlight
  /\ Reject("backpressure")
  /\ Go(r, [req[r] EXCEPT !.at = "done"])
  /\ UNCHANGED <<clock, Pool, inFlight, requestsTotal>>

BodyRead(r) ==
  /\ At(r, "body")
  /\ Go(r, [req[r] EXCEPT !.at = "scan", !.todo = Backends])
  /\ UNCHANGED <<clock, Pool, inFlight, Metrics>>

\* Mutant of BodyFails: an early return forgets the permit.
BodyFailsLeaky(r, reason) ==
  /\ At(r, "body")
  /\ Reject(reason)
  /\ Go(r, [req[r] EXCEPT !.at = "done"])
  /\ UNCHANGED <<clock, Pool, inFlight, requestsTotal>>

\* 413 or 400.
BodyFails(r, reason) ==
  /\ At(r, "body")
  /\ Reject(reason)
  /\ Go(r, [req[r] EXCEPT !.at = "release"])
  /\ UNCHANGED <<clock, Pool, inFlight, requestsTotal>>

-----------------------------------------------------------------------------
(* Selection *)

\* The handler looked at backend b and found it routable or not; after the last
\* one it goes on with what is available.
Looked(r, b, routable) ==
  LET avail == IF routable THEN req[r].avail \union {b} ELSE req[r].avail
      rest  == req[r].todo \ {b}
  IN  IF rest = {}
      THEN Go(r, [req[r] EXCEPT !.at = "filter", !.avail = avail, !.todo = avail])
      ELSE Go(r, [req[r] EXCEPT !.at = "scan", !.avail = avail, !.todo = rest])

\* Mutant of Scan: the health flag is not read.
ScanBreakerOnly(r) ==
  /\ At(r, "scan")
  /\ Go(r, [req[r] EXCEPT !.at = "ask"])
  /\ UNCHANGED <<clock, Pool, inFlight, Metrics>>

\* One backend of `available`: Backend::is_routable reads the health flag and,
\* only if it is set, goes on to ask the breaker.
Scan(r) ==
  LET b == Min(req[r].todo)
  IN  /\ At(r, "scan")
      /\ IF healthy[b] THEN Go(r, [req[r] EXCEPT !.at = "ask"])
                       ELSE Looked(r, b, FALSE)
      /\ UNCHANGED <<clock, Pool, inFlight, Metrics>>

\* CircuitBreaker::is_routable, by which an open breaker may become half-open.
Ask(r) ==
  LET b  == Min(req[r].todo)
      in == Refresh(breaker[b], clock)
  IN  /\ At(r, "ask")
      /\ breaker' = [breaker EXCEPT ![b] = in]
      /\ Looked(r, b, Routable(in))
      /\ UNCHANGED <<clock, healthy, queueDepth, active, ewma, inFlight, Metrics>>

\* One backend of `under_limit`.
Filter(r) ==
  LET b == Min(req[r].todo)
  IN  /\ At(r, "filter") /\ req[r].todo # {}
      /\ Go(r, [req[r] EXCEPT !.todo = @ \ {b},
                              !.cands = IF queueDepth[b] <= MaxQueueDepth
                                        THEN @ \union {b} ELSE @])
      /\ UNCHANGED <<clock, Pool, inFlight, Metrics>>

\* Mutant of Candidates: the queue limit is a hard one.
CandidatesHard(r) ==
  /\ At(r, "filter") /\ req[r].todo = {}
  /\ Go(r, [req[r] EXCEPT !.at = "select", !.avail = {}])
  /\ UNCHANGED <<clock, Pool, inFlight, Metrics>>

\* The soft limit: without a backend under it, all available ones stay.
Candidates(r) ==
  /\ At(r, "filter") /\ req[r].todo = {}
  /\ Go(r, [req[r] EXCEPT !.at = "select", !.avail = {},
                          !.cands = IF @ = {} THEN req[r].avail ELSE @])
  /\ UNCHANGED <<clock, Pool, inFlight, Metrics>>

\* Mutant of Choose: a refusal is forgotten, and the backend asked again.
ChooseAgain(r, b) ==
  LET in == Refresh(breaker[b], clock)
  IN  /\ At(r, "select") /\ b \in req[r].cands
      /\ breaker' = [breaker EXCEPT ![b] = TryBegin(@, clock)]
      /\ IF Admit(in) = NoAdmission
         THEN UNCHANGED req
         ELSE Go(r, [req[r] EXCEPT !.at = "start", !.cands = {},
                                   !.backend = b, !.adm = Admit(in)])
      /\ UNCHANGED <<clock, healthy, queueDepth, active, ewma, inFlight, Metrics>>

\* The strategy picks a candidate and try_begin claims it; a refusal drops it
\* from the candidates.
Choose(r, b) ==
  LET in == Refresh(breaker[b], clock)
  IN  /\ At(r, "select") /\ b \in req[r].cands
      /\ breaker' = [breaker EXCEPT ![b] = TryBegin(@, clock)]
      /\ IF Admit(in) = NoAdmission
         THEN Go(r, [req[r] EXCEPT !.cands = @ \ {b}])
         ELSE Go(r, [req[r] EXCEPT !.at = "start", !.cands = {},
                                   !.backend = b, !.adm = Admit(in)])
      /\ UNCHANGED <<clock, healthy, queueDepth, active, ewma, inFlight, Metrics>>

\* No candidate is left: 503.
RejectNoRoutable(r) ==
  /\ At(r, "select") /\ req[r].cands = {}
  /\ Reject("no_routable_backend")
  /\ Go(r, [req[r] EXCEPT !.at = "release"])
  /\ UNCHANGED <<clock, Pool, inFlight, requestsTotal>>

-----------------------------------------------------------------------------
(* Forwarding *)

\* RequestAccounting::start, and the request goes out.
Start(r) ==
  /\ At(r, "start")
  /\ active' = [active EXCEPT ![req[r].backend] = @ + 1]
  /\ Go(r, [req[r] EXCEPT !.at = "sent"])
  /\ UNCHANGED <<clock, healthy, queueDepth, breaker, ewma, inFlight, Metrics>>

\* The accounting ends with this outcome (finish, or a drop without it).
End(r, outcome) ==
  /\ Go(r, [req[r] EXCEPT !.at = "end", !.outcome = outcome, !.done = FALSE,
                          !.reading = TRUE])
  /\ UNCHANGED <<clock, Pool, inFlight, Metrics>>

\* Response headers: an event stream is passed on, any other body is read to
\* its end first.
HeadersArrive(r, status, sse) ==
  /\ At(r, "sent")
  /\ Go(r, [req[r] EXCEPT !.at = IF sse THEN "headers" ELSE "buffering",
                          !.status = status, !.sse = sse])
  /\ UNCHANGED <<clock, Pool, inFlight, Metrics>>

\* ForwardError::Connect, 502: no connection, a reset, or the read timeout.
ConnectFails(r) == At(r, "sent") /\ End(r, "transport_error")

BufferComplete(r) ==
  /\ At(r, "buffering")
  /\ Go(r, [req[r] EXCEPT !.at = "headers"])
  /\ UNCHANGED <<clock, Pool, inFlight, Metrics>>

\* ForwardError::Body, 502.
BufferFails(r) == At(r, "buffering") /\ End(r, "stream_error")

\* Mutant of IntoResponse: the probe's admission is kept after it was resolved.
IntoResponseKeeps(r) ==
  LET h == req[r]
      b == h.backend
      resolve == h.adm = "Probe" /\ h.status = "2xx"
  IN  /\ At(r, "headers")
      /\ breaker' = [breaker EXCEPT
                       ![b] = IF resolve THEN RecordSuccess(@, "Probe", clock) ELSE @]
      /\ Go(r, [h EXCEPT !.at = IF h.sse THEN "streaming" ELSE "end",
                         !.outcome = IF h.sse THEN @ ELSE "completed",
                         !.reply = IF h.sse THEN "none" ELSE "full"])
      /\ UNCHANGED <<clock, healthy, queueDepth, active, ewma, inFlight, Metrics>>

\* into_response: a 2xx resolves the probe, then a buffered response finishes
\* the accounting and a stream keeps it.
IntoResponse(r) ==
  LET h == req[r]
      b == h.backend
      resolve == h.adm = "Probe" /\ h.status = "2xx"
  IN  /\ At(r, "headers")
      /\ breaker' = [breaker EXCEPT
                       ![b] = IF resolve THEN RecordSuccess(@, "Probe", clock) ELSE @]
      /\ Go(r, [h EXCEPT !.at = IF h.sse THEN "streaming" ELSE "end",
                         !.adm = IF resolve THEN "Normal" ELSE @,
                         !.outcome = IF h.sse THEN @ ELSE "completed",
                         !.reply = IF h.sse THEN "none" ELSE "full"])
      /\ UNCHANGED <<clock, healthy, queueDepth, active, ewma, inFlight, Metrics>>

\* The body of a stream is polled only while the client takes what was sent:
\* hyper stops polling where the connection takes no more.
Polled(r) == At(r, "streaming") /\ req[r].reading

\* The client stops reading a stream without leaving, and may read on later.
StopsReading(r) ==
  /\ At(r, "streaming") /\ req[r].reading
  /\ Go(r, [req[r] EXCEPT !.reading = FALSE])
  /\ UNCHANGED <<clock, Pool, inFlight, Metrics>>

ReadsOn(r) ==
  /\ At(r, "streaming") /\ ~req[r].reading
  /\ Go(r, [req[r] EXCEPT !.reading = TRUE])
  /\ UNCHANGED <<clock, Pool, inFlight, Metrics>>

\* A chunk passes; `done` says whether contains_done finds the end marker in it.
Chunk(r, done) ==
  /\ Polled(r)
  /\ Go(r, [req[r] EXCEPT !.done = done])
  /\ UNCHANGED <<clock, Pool, inFlight, Metrics>>

StreamEnds(r) == Polled(r) /\ End(r, "completed")

\* The backend's body breaks, or the read timeout ends the wait for its bytes.
StreamFails(r) == Polled(r) /\ End(r, "stream_error")

\* Mutant of ClientLeaves: the guard's first field is forgotten, the accounting
\* of a request on its way is not ended where it was started.
ClientLeavesEarly(r) ==
  \/ /\ At(r, "body")
     /\ Go(r, [req[r] EXCEPT !.at = "release", !.reply = "aborted"])
     /\ UNCHANGED <<clock, Pool, inFlight, Metrics>>
  \/ /\ req[r].at \in {"sent", "buffering", "streaming"}
     /\ Go(r, [req[r] EXCEPT !.at = "verdict", !.done = FALSE, !.reading = TRUE])
     /\ UNCHANGED <<clock, Pool, inFlight, Metrics>>

\* The client disconnects: the handler's future, or the body, is dropped.  A
\* stream whose last chunk carried the end marker counts as completed.
ClientLeaves(r) ==
  \/ /\ At(r, "body")
     /\ Go(r, [req[r] EXCEPT !.at = "release", !.reply = "aborted"])
     /\ UNCHANGED <<clock, Pool, inFlight, Metrics>>
  \/ /\ req[r].at \in {"sent", "buffering"}
     /\ End(r, "client_disconnect")
  \/ /\ At(r, "streaming")
     /\ End(r, IF req[r].done THEN "completed" ELSE "client_disconnect")

-----------------------------------------------------------------------------
(* Accounting: the drop of RequestAccounting, then of its permit *)

\* Mutant of RequestEnd: every completed response feeds the estimate.
RequestEndAny(r) ==
  LET h == req[r]
  IN  /\ At(r, "end")
      /\ active' = [active EXCEPT ![h.backend] = @ - 1]
      /\ ewma' = [ewma EXCEPT ![h.backend] = @ \/ h.outcome = "completed"]
      /\ Go(r, [h EXCEPT !.at = "verdict"])
      /\ UNCHANGED <<clock, healthy, queueDepth, breaker, inFlight, Metrics>>

\* record_request_end, and the latency estimate of a successful request.
RequestEnd(r) ==
  LET h == req[r]
  IN  /\ At(r, "end")
      /\ active' = [active EXCEPT ![h.backend] = @ - 1]
      /\ ewma' = [ewma EXCEPT
                    ![h.backend] = @ \/ (h.outcome = "completed" /\ h.status = "2xx")]
      /\ Go(r, [h EXCEPT !.at = "verdict"])
      /\ UNCHANGED <<clock, healthy, queueDepth, breaker, inFlight, Metrics>>

\* Outcome::is_backend_failure; 4xx is the client's doing.
IsBackendFailure(h) ==
  \/ h.outcome = "completed" /\ h.status = "5xx"
  \/ h.outcome \in Failed

\* Mutant of Judged: a request without a verdict leaves its probe behind.
JudgedLeaky(h, in) ==
  CASE h.outcome = "client_disconnect" -> in
    [] IsBackendFailure(h) -> RecordFailure(in, h.adm, clock)
    [] OTHER -> RecordSuccess(in, h.adm, clock)

\* What the request's outcome makes of its breaker.
Judged(h, in) ==
  CASE h.outcome = "client_disconnect" -> Abandon(in, h.adm)
    [] IsBackendFailure(h) -> RecordFailure(in, h.adm, clock)
    [] OTHER -> RecordSuccess(in, h.adm, clock)

Verdict(r) ==
  LET h == req[r]
  IN  /\ At(r, "verdict")
      /\ breaker' = [breaker EXCEPT ![h.backend] = Judged(h, @)]
      /\ Go(r, [h EXCEPT !.at = "count", !.adm = NoAdmission])
      /\ UNCHANGED <<clock, healthy, queueDepth, active, ewma, inFlight, Metrics>>

\* Outcome::status_label
StatusLabel(h) == IF h.outcome = "completed" THEN h.status ELSE h.outcome

\* Mutant of Count: an interrupted stream is not counted.
CountCompleted(r) ==
  LET h == req[r]
  IN  /\ At(r, "count")
      /\ requestsTotal' =
           IF h.outcome = "client_disconnect" THEN requestsTotal
           ELSE [requestsTotal EXCEPT ![<<h.backend, StatusLabel(h)>>] = @ + 1]
      /\ Go(r, [h EXCEPT !.at = "release"])
      /\ UNCHANGED <<clock, Pool, inFlight, rejected>>

Count(r) ==
  LET h == req[r]
  IN  /\ At(r, "count")
      /\ requestsTotal' = [requestsTotal EXCEPT ![<<h.backend, StatusLabel(h)>>] = @ + 1]
      /\ Go(r, [h EXCEPT !.at = "release"])
      /\ UNCHANGED <<clock, Pool, inFlight, rejected>>

\* Mutant of Release: both the accounting and the handler give the permit back.
ReleaseTwice(r) ==
  /\ At(r, "release")
  /\ inFlight' = inFlight - 2
  /\ Go(r, [Arriving EXCEPT !.at = IF req[r].reply = "full" THEN "replying" ELSE "done",
                            !.reply = req[r].reply])
  /\ UNCHANGED <<clock, Pool, Metrics>>

\* The permit is dropped.  Only then is a buffered response handed over to be
\* sent; a stream has been sent by now.
Release(r) ==
  /\ At(r, "release")
  /\ inFlight' = inFlight - 1
  /\ Go(r, [Arriving EXCEPT !.at = IF req[r].reply = "full" THEN "replying" ELSE "done",
                            !.reply = req[r].reply])
  /\ UNCHANGED <<clock, Pool, Metrics>>

\* The buffered response reaches the client, or the client is gone.
Replied(r) ==
  /\ At(r, "replying")
  /\ Go(r, [req[r] EXCEPT !.at = "done"])
  /\ UNCHANGED <<clock, Pool, inFlight, Metrics>>

-----------------------------------------------------------------------------
(* The rest of the router *)

Tick ==
  /\ clock < MaxClock
  /\ clock' = clock + 1
  /\ UNCHANGED <<Pool, inFlight, Metrics, req>>

\* metrics_handler reads CircuitBreaker::state, which refreshes the breaker.
ReadState(b) ==
  /\ breaker' = [breaker EXCEPT ![b] = Refresh(@, clock)]
  /\ UNCHANGED <<clock, healthy, queueDepth, active, ewma, inFlight, Metrics, req>>

HealthCheck ==
  /\ FeedStep
  /\ UNCHANGED <<clock, breaker, active, ewma, inFlight, Metrics, req>>

\* What a handler does without waiting for anybody.
Proceed(r) ==
  \/ Scan(r) \/ Ask(r) \/ Filter(r) \/ Candidates(r)
  \/ \E b \in Backends : Choose(r, b)
  \/ RejectNoRoutable(r) \/ Start(r) \/ IntoResponse(r)
  \/ RequestEnd(r) \/ Verdict(r) \/ Count(r) \/ Release(r)

\* What ends the handler's own waits for a backend.
Answered(r) ==
  \/ \E status \in Answers, sse \in BOOLEAN : HeadersArrive(r, status, sse)
  \/ ConnectFails(r) \/ BufferComplete(r) \/ BufferFails(r)

\* What ends a stream, as its body is polled.
StreamOver(r) == StreamEnds(r) \/ StreamFails(r)

\* What only the client decides.
ClientStep(r) ==
  \/ Acquire(r) \/ RejectAtCapacity(r)
  \/ BodyRead(r)
  \/ \E reason \in {"body_too_large", "bad_body"} : BodyFails(r, reason)
  \/ StopsReading(r) \/ ReadsOn(r)
  \/ ClientLeaves(r) \/ Replied(r)

RequestStep(r) ==
  \/ ClientStep(r) \/ Proceed(r) \/ Answered(r) \/ StreamOver(r)
  \/ \E done \in BOOLEAN : Chunk(r, done)

Next ==
  \/ \E r \in Requests : RequestStep(r)
  \/ Tick
  \/ \E b \in Backends : ReadState(b)
  \/ HealthCheck

Spec == Init /\ [][Next]_vars

\* A handler that can run is run.  The upstream client's connect and read
\* timeouts end every wait of a handler for headers and for the next bytes of a
\* body.  A stream that is polled again and again ends: the read timeout stands
\* between two chunks, and a backend generates finitely many tokens.  Nothing is
\* assumed about clients: an upload may hang forever, and so may the reading of
\* a stream, which is not polled then and has no timeout running.
Fairness ==
  \A r \in Requests :
    WF_vars(Proceed(r)) /\ WF_vars(Answered(r)) /\ SF_vars(StreamOver(r))

FairSpec == Spec /\ Fairness

-----------------------------------------------------------------------------
(* Properties *)

TypeOK ==
  /\ clock \in 0 .. MaxClock
  /\ healthy \in [Backends -> BOOLEAN]
  /\ queueDepth \in [Backends -> Depths]
  /\ breaker \in [Backends -> Inner]
  /\ active \in [Backends -> Nat]
  /\ ewma \in [Backends -> BOOLEAN]
  /\ inFlight \in Nat
  /\ requestsTotal \in [Backends \X Labels -> Nat]
  /\ rejected \in [Reasons -> Nat]
  /\ req \in [Requests -> Handler]

\* Where a request holds its permit.
HoldsPermit(r) == req[r].at \notin {"new", "replying", "done"}

\* "every early return and every finished stream releases exactly once": the
\* in-flight counter is the number of permits that exist, and never exceeds
\* the budget.
PermitsExact ==
  /\ inFlight = Cardinality({r \in Requests : HoldsPermit(r)})
  /\ inFlight <= MaxInFlight

\* Where a request is one of its backend's active connections.
IsActive(r) ==
  req[r].at \in {"sent", "buffering", "headers", "streaming", "end"}

\* Each backend's connection counter, which least-connections routing trusts,
\* is the number of requests the router has under way there, on every path a
\* request can end on; all of them fit in the in-flight budget.
ActiveExact ==
  /\ \A b \in Backends :
       active[b] = Cardinality({r \in Requests : IsActive(r) /\ req[r].backend = b})
  /\ MapThenSumSet(LAMBDA b : active[b], Backends) <= inFlight

\* The requests that hold backend b's probe.
Probing(b) == {r \in Requests : req[r].backend = b /\ req[r].adm = "Probe"}

\* A backend's probe is out exactly while one live request holds it: no path
\* through forwarding, streaming, disconnecting and dropping leaks the probe
\* or releases another request's.
ProbeAccounted ==
  \A b \in Backends :
    /\ breaker[b].probeInFlight <=> Probing(b) # {}
    /\ Cardinality(Probing(b)) <= 1
    /\ breaker[b].probeInFlight => breaker[b].state = "HalfOpen"

\* Every request that is over was counted exactly once, as rejected or under
\* the outcome of the backend it was sent to; only a client that left during
\* its own upload is in no counter.
EachCountedOnce ==
  LET over     == {r \in Requests : req[r].at \in {"release", "replying", "done"}}
      aborted  == {r \in over : req[r].reply = "aborted"}
      answered == MapThenSumSet(LAMBDA series : requestsTotal[series], Backends \X Labels)
      refused  == MapThenSumSet(LAMBDA k : rejected[k], Reasons)
  IN  Cardinality(over \ aborted) = answered + refused

\* A request that completed with a 2xx and is not counted yet.
Succeeding(r) ==
  /\ req[r].at \in {"verdict", "count"}
  /\ req[r].outcome = "completed" /\ req[r].status = "2xx"

\* A backend has a latency estimate exactly if a request to it completed with a
\* 2xx: "a backend that fails fast must not look fast".
EstimateFromSuccess ==
  \A b \in Backends :
    ewma[b] <=> \/ requestsTotal[<<b, "2xx">>] > 0
                \/ \E r \in Requests : req[r].backend = b /\ Succeeding(r)

\* A stream whose client does not read it, nor leaves.
Stalled(r) == At(r, "streaming") /\ ~req[r].reading

\* Once its body is uploaded, a request comes to its end and gives its permit
\* back, unless its client stops reading a stream for good.
EveryRequestEnds ==
  \A r \in Requests :
    \/ At(r, "scan") ~> req[r].at \in {"replying", "done"}
    \/ <>[]Stalled(r)

\* A backend's probe comes back, so that a half-open backend does not stay
\* unroutable, unless the probe was answered by an event stream that is no 2xx
\* and whose client stopped reading it for good: the 2xx of any other stream
\* resolves the probe at its headers.
ProbeComesBack ==
  \A b \in Backends :
    \/ breaker[b].probeInFlight ~> ~breaker[b].probeInFlight
    \/ \E r \in Requests :
         <>[](Stalled(r) /\ r \in Probing(b) /\ req[r].status # "2xx")

\* The budget is exhausted for good only by clients: again and again there is a
\* free permit, unless in the end every permit is held by an upload that hangs
\* or a stream nobody reads.
BudgetRecovers ==
  \/ []<>(inFlight < MaxInFlight)
  \/ <>[](Cardinality({r \in Requests : At(r, "body") \/ Stalled(r)}) = MaxInFlight)

-----------------------------------------------------------------------------
(* What the documentation says and the code does otherwise *)

\* "The permit is released when the response body ends, not when headers are
\* sent" (README): no response is still being sent without its permit.
PermitCoversReply ==
  \A r \in Requests : At(r, "replying") => HoldsPermit(r)

\* "a probe counts as a success as soon as the backend answers 2xx headers"
\* (README): a probe that got them does not re-open the circuit any more.
AnsweredProbePasses ==
  [][ \A r \in Requests :
        (req[r].adm = "Probe" /\ req[r].status = "2xx") =>
           breaker'[req[r].backend].state # "Open" ]_vars
=============================================================================
