------------------------------ MODULE RouterProofs ------------------------------
(***************************************************************************)
(* Proofs about Router for any number of requests and backends, any budget *)
(* and any breaker configuration: permits, connections, probes, counters   *)
(* and estimates are what the requests under way and over make of them.    *)
(***************************************************************************)
EXTENDS Router, BreakerFacts, SetFacts

-----------------------------------------------------------------------------
(* The inductive invariant *)

\* Where a handler holds an admission of its backend's breaker.
Admitted == {"start", "sent", "buffering", "headers", "streaming", "end", "verdict"}

\* What the fields of a handler say of each other.
FieldsAgree(h) ==
  /\ h.at \in Admitted <=> h.adm # NoAdmission
  /\ h.at \in Admitted \union {"count"} => h.backend \in Backends
  /\ h.at \in {"scan", "ask"} => h.todo # {}
  /\ h.at \in {"buffering", "headers", "streaming"} => h.status # "none"
  /\ h.at \in {"end", "verdict", "count"} /\ h.outcome = "completed" => h.status # "none"
  /\ h.reply = "aborted" => h.at \in {"release", "done"}

\* A handler with a permit, with a connection, that is over and in a counter,
\* and that is about to count a success.
Holding(h)    == h.at \notin {"new", "replying", "done"}
Connecting(h) == h.at \in {"sent", "buffering", "headers", "streaming", "end"}
Ended(h)      == h.at \in {"release", "replying", "done"} /\ h.reply # "aborted"
Succeeded(h)  == h.at \in {"verdict", "count"} /\ h.outcome = "completed" /\ h.status = "2xx"

Holders        == {r \in Requests : Holding(req[r])}
Connected      == {r \in Requests : Connecting(req[r])}
ConnectedTo(b) == {r \in Requests : Connecting(req[r]) /\ req[r].backend = b}
Over           == {r \in Requests : Ended(req[r])}

HandlersAgree == \A r \in Requests : FieldsAgree(req[r])

Permits ==
  /\ IsFiniteSet(Holders) /\ inFlight = Cardinality(Holders)
  /\ inFlight <= MaxInFlight

Connections ==
  /\ \A b \in Backends : active[b] = Cardinality(ConnectedTo(b))
  /\ SumOf(active, Backends) = Cardinality(Connected)

Probes ==
  \A b \in Backends :
    /\ breaker[b].probeInFlight <=> Probing(b) # {}
    /\ \A r, s \in Probing(b) : r = s
    /\ breaker[b].probeInFlight => breaker[b].state = "HalfOpen"

Series == Backends \X Labels

Counters ==
  /\ IsFiniteSet(Over)
  /\ Cardinality(Over) = SumOf(requestsTotal, Series) + SumOf(rejected, Reasons)

Estimates ==
  \A b \in Backends :
    ewma[b] <=> \/ requestsTotal[<<b, "2xx">>] > 0
                \/ \E r \in Requests : req[r].backend = b /\ Succeeded(req[r])

IInv == /\ TypeOK /\ HandlersAgree
        /\ Permits /\ Connections /\ Probes /\ Counters /\ Estimates

-----------------------------------------------------------------------------
(* What keeps each part of it *)

LEMMA PermitsKept ==
  ASSUME Permits, inFlight' = inFlight,
         \A q \in Requests : Holding(req'[q]) <=> Holding(req[q])
  PROVE  Permits'
<1>1. Holders' = Holders
  BY DEF Holders
<1> QED
  BY <1>1 DEF Permits

LEMMA ConnectionsKept ==
  ASSUME Connections, active' = active,
         \A q \in Requests : /\ Connecting(req'[q]) <=> Connecting(req[q])
                             /\ Connecting(req[q]) => req'[q].backend = req[q].backend
  PROVE  Connections'
<1>1. Connected' = Connected /\ \A b \in Backends : ConnectedTo(b)' = ConnectedTo(b)
  BY DEF Connected, ConnectedTo
<1> QED
  BY <1>1 DEF Connections

LEMMA ProbesKept ==
  ASSUME Probes,
         \A q \in Requests : /\ req'[q].adm = "Probe" <=> req[q].adm = "Probe"
                             /\ req[q].adm = "Probe" => req'[q].backend = req[q].backend,
         \A b \in Backends :
           /\ breaker'[b].probeInFlight = breaker[b].probeInFlight
           /\ breaker[b].probeInFlight => breaker'[b].state = "HalfOpen"
  PROVE  Probes'
<1>1. \A b \in Backends : Probing(b)' = Probing(b)
  BY DEF Probing
<1> QED
  BY <1>1 DEF Probes

LEMMA CountersKept ==
  ASSUME Counters, UNCHANGED Metrics,
         \A q \in Requests : Ended(req'[q]) <=> Ended(req[q])
  PROVE  Counters'
<1>1. Over' = Over
  BY DEF Over
<1> QED
  BY <1>1 DEF Counters, Metrics

LEMMA EstimatesKept ==
  ASSUME Estimates, UNCHANGED <<ewma, requestsTotal>>,
         \A q \in Requests : /\ Succeeded(req'[q]) <=> Succeeded(req[q])
                             /\ Succeeded(req[q]) => req'[q].backend = req[q].backend
  PROVE  Estimates'
<1>1. ewma' = ewma /\ requestsTotal' = requestsTotal
  OBVIOUS
<1>2. ASSUME NEW b \in Backends
      PROVE  (\E q \in Requests : req[q].backend = b /\ Succeeded(req[q]))
               <=> (\E q \in Requests : req'[q].backend = b /\ Succeeded(req'[q]))
  OBVIOUS
<1>3. ASSUME NEW b \in Backends
      PROVE  ewma'[b] <=> \/ requestsTotal'[<<b, "2xx">>] > 0
                          \/ \E q \in Requests : req'[q].backend = b /\ Succeeded(req'[q])
  <2>1. ewma[b] <=> \/ requestsTotal[<<b, "2xx">>] > 0
                    \/ \E q \in Requests : req[q].backend = b /\ Succeeded(req[q])
    BY DEF Estimates
  <2> QED
    BY <1>1, <1>2, <2>1, Zenon
<1> QED
  BY <1>3 DEF Estimates

\* A handler that moves leaves the others where they are.
LEMMA Moves ==
  ASSUME TypeOK, NEW r \in Requests, NEW h \in Handler, Go(r, h)
  PROVE  /\ req' \in [Requests -> Handler]
         /\ \A q \in Requests : req'[q] = IF q = r THEN h ELSE req[q]
  BY DEF TypeOK, Go

\* The parts of the invariant do not tell h and g apart.
Alike(h, g) ==
  /\ Holding(h) <=> Holding(g)
  /\ Connecting(h) <=> Connecting(g)
  /\ Ended(h) <=> Ended(g)
  /\ Succeeded(h) <=> Succeeded(g)
  /\ h.adm = g.adm
  /\ Connecting(g) \/ Succeeded(g) \/ g.adm = "Probe" => h.backend = g.backend

\* The breakers are at most refreshed.
BreakersKept ==
  /\ breaker' \in [Backends -> Inner]
  /\ \A b \in Backends :
       /\ breaker'[b].probeInFlight = breaker[b].probeInFlight
       /\ breaker[b].probeInFlight => breaker'[b].state = "HalfOpen"

\* A step of one handler that touches nothing the invariant counts.
LEMMA QuietStep ==
  ASSUME IInv, NEW r \in Requests, NEW h \in Handler, Go(r, h),
         FieldsAgree(h), Alike(h, req[r]), BreakersKept,
         UNCHANGED <<clock, healthy, queueDepth, active, ewma, inFlight, Metrics>>
  PROVE  IInv'
<1>1. /\ req' \in [Requests -> Handler]
      /\ \A q \in Requests : req'[q] = IF q = r THEN h ELSE req[q]
  BY Moves DEF IInv
<1>2. TypeOK'
  BY <1>1 DEF IInv, TypeOK, BreakersKept, Metrics
<1>3. HandlersAgree'
  BY <1>1 DEF IInv, HandlersAgree, FieldsAgree
<1>4. Permits'
  BY <1>1, PermitsKept DEF IInv, Alike
<1>5. Connections'
  BY <1>1, ConnectionsKept DEF IInv, Alike
<1>6. Probes'
  BY <1>1, ProbesKept DEF IInv, Alike, BreakersKept
<1>7. Counters'
  BY <1>1, CountersKept DEF IInv, Alike
<1>8. Estimates'
  BY <1>1, EstimatesKept DEF IInv, Alike, Metrics
<1> QED
  BY <1>2, <1>3, <1>4, <1>5, <1>6, <1>7, <1>8 DEF IInv

-----------------------------------------------------------------------------
(* The steps that are quiet *)

LEMMA BreakersSame == ASSUME IInv, breaker' = breaker PROVE BreakersKept
  BY DEF IInv, TypeOK, Probes, BreakersKept

LEMMA BreakerRefreshed ==
  ASSUME IInv, NEW b \in Backends, NEW in, in = breaker[b] \/ in = Refresh(breaker[b], clock),
         breaker' = [breaker EXCEPT ![b] = in]
  PROVE  BreakersKept
<1>1. clock \in Nat /\ breaker \in [Backends -> Inner] /\ breaker[b] \in Inner
  BY DEF IInv, TypeOK
<1>2. /\ in \in Inner
      /\ in.probeInFlight = breaker[b].probeInFlight
      /\ breaker[b].probeInFlight => in.state = "HalfOpen"
  BY <1>1, RefreshFacts DEF IInv, Probes
<1> QED
  BY <1>1, <1>2 DEF BreakersKept, IInv, Probes

\* The client, the backend or the handler itself moves the request on.
LEMMA WaitingStep ==
  ASSUME IInv, NEW r \in Requests,
         \/ BodyRead(r) \/ StopsReading(r) \/ ReadsOn(r) \/ ClientLeaves(r) \/ Replied(r)
         \/ Filter(r) \/ Candidates(r) \/ Answered(r) \/ StreamOver(r)
         \/ \E done \in BOOLEAN : Chunk(r, done)
  PROVE  IInv'
<1> USE DEF Holding, Connecting, Ended, Succeeded, Alike, FieldsAgree, Admitted, NoAdmission
<1>1. req[r] \in Handler /\ FieldsAgree(req[r])
  BY DEF IInv, TypeOK, HandlersAgree
<1>2. ASSUME breaker' = breaker,
             UNCHANGED <<clock, healthy, queueDepth, active, ewma, inFlight, Metrics>>,
             NEW h \in Handler, Go(r, h), FieldsAgree(h), Alike(h, req[r])
      PROVE  IInv'
  BY <1>2, BreakersSame, QuietStep
<1>3. CASE BodyRead(r)
  <2> DEFINE h == [req[r] EXCEPT !.at = "scan", !.todo = Backends]
  <2>1. h \in Handler /\ FieldsAgree(h) /\ Alike(h, req[r])
    BY <1>1, <1>3, RouterAssumption DEF BodyRead, At, Handler, Location
  <2> QED
    BY <2>1, <1>2, <1>3 DEF BodyRead, Pool
<1>4. CASE Replied(r)
  <2> DEFINE h == [req[r] EXCEPT !.at = "done"]
  <2>1. h \in Handler /\ FieldsAgree(h) /\ Alike(h, req[r])
    BY <1>1, <1>4 DEF Replied, At, Handler, Location
  <2> QED
    BY <2>1, <1>2, <1>4 DEF Replied, Pool
<1>5. CASE Filter(r)
  <2> DEFINE b == Min(req[r].todo)
             h == [req[r] EXCEPT !.todo = @ \ {b},
                                 !.cands = IF queueDepth[b] <= MaxQueueDepth
                                           THEN @ \union {b} ELSE @]
  <2>1. b \in Backends
    BY <1>1, <1>5, MinFacts, RouterAssumption DEF Filter, Handler
  <2>2. h \in Handler /\ FieldsAgree(h) /\ Alike(h, req[r])
    BY <1>1, <1>5, <2>1 DEF Filter, At, Handler, Location
  <2> QED
    BY <2>2, <1>2, <1>5 DEF Filter, Pool
<1>6. CASE Candidates(r)
  <2> DEFINE h == [req[r] EXCEPT !.at = "select", !.avail = {},
                                 !.cands = IF @ = {} THEN req[r].avail ELSE @]
  <2>1. h \in Handler /\ FieldsAgree(h) /\ Alike(h, req[r])
    BY <1>1, <1>6, ZenonT(60) DEF Candidates, At, Handler, Location
  <2> QED
    BY <2>1, <1>2, <1>6 DEF Candidates, Pool
<1>7. ASSUME NEW done \in BOOLEAN, Chunk(r, done)
      PROVE  IInv'
  <2> DEFINE h == [req[r] EXCEPT !.done = done]
  <2>1. h \in Handler /\ FieldsAgree(h) /\ Alike(h, req[r])
    BY <1>1, <1>7 DEF Handler
  <2> QED
    BY <2>1, <1>2, <1>7 DEF Chunk, Pool
<1>8. ASSUME NEW outcome \in Outcome, End(r, outcome),
             \/ outcome = "completed" /\ req[r].at = "streaming"
             \/ outcome # "completed" /\ req[r].at \in {"sent", "buffering", "streaming"}
      PROVE  IInv'
  <2> DEFINE h == [req[r] EXCEPT !.at = "end", !.outcome = outcome, !.done = FALSE,
                                 !.reading = TRUE]
  <2>1. h \in Handler /\ FieldsAgree(h) /\ Alike(h, req[r])
    BY <1>1, <1>8, ZenonT(60) DEF Handler, Location
  <2> QED
    BY <2>1, <1>2, <1>8 DEF End, Pool
<1>9. CASE ClientLeaves(r)
  <2>1. CASE /\ At(r, "body")
             /\ Go(r, [req[r] EXCEPT !.at = "release", !.reply = "aborted"])
             /\ UNCHANGED <<clock, Pool, inFlight, Metrics>>
    <3> DEFINE h == [req[r] EXCEPT !.at = "release", !.reply = "aborted"]
    <3>1. h \in Handler /\ FieldsAgree(h) /\ Alike(h, req[r])
      BY <1>1, <2>1 DEF At, Handler, Location
    <3> QED
      BY <3>1, <1>2, <2>1 DEF Pool
  <2>2. CASE req[r].at \in {"sent", "buffering"} /\ End(r, "client_disconnect")
    BY <2>2, <1>8 DEF Outcome
  <2>3. CASE /\ At(r, "streaming")
             /\ End(r, IF req[r].done THEN "completed" ELSE "client_disconnect")
    BY <2>3, <1>8 DEF Outcome, At
  <2> QED
    BY <1>9, <2>1, <2>2, <2>3 DEF ClientLeaves
<1>10. CASE Answered(r)
  <2>1. ASSUME NEW status \in Answers, NEW sse \in BOOLEAN, HeadersArrive(r, status, sse)
        PROVE  IInv'
    <3> DEFINE h == [req[r] EXCEPT !.at = IF sse THEN "headers" ELSE "buffering",
                                   !.status = status, !.sse = sse]
    <3>0. status \in Statuses
      BY RouterAssumption
    <3>1. h \in Handler /\ FieldsAgree(h) /\ Alike(h, req[r])
      BY <1>1, <2>1, <3>0, ZenonT(60) DEF HeadersArrive, At, Handler, Location, Statuses
    <3> QED
      BY <3>1, <1>2, <2>1 DEF HeadersArrive, Pool
  <2>2. CASE BufferComplete(r)
    <3> DEFINE h == [req[r] EXCEPT !.at = "headers"]
    <3>1. h \in Handler /\ FieldsAgree(h) /\ Alike(h, req[r])
      BY <1>1, <2>2 DEF BufferComplete, At, Handler, Location
    <3> QED
      BY <3>1, <1>2, <2>2 DEF BufferComplete, Pool
  <2>3. CASE ConnectFails(r) \/ BufferFails(r)
    BY <2>3, <1>8 DEF ConnectFails, BufferFails, Outcome, Failed, At
  <2> QED
    BY <1>10, <2>1, <2>2, <2>3 DEF Answered
<1>11. ASSUME StopsReading(r) \/ ReadsOn(r)
       PROVE  IInv'
  <2>1. PICK on \in BOOLEAN : /\ Go(r, [req[r] EXCEPT !.reading = on])
                             /\ UNCHANGED <<clock, Pool, inFlight, Metrics>>
    BY <1>11 DEF StopsReading, ReadsOn
  <2> DEFINE h == [req[r] EXCEPT !.reading = on]
  <2>2. h \in Handler /\ FieldsAgree(h) /\ Alike(h, req[r])
    BY <1>1 DEF Handler
  <2> QED
    BY <2>1, <2>2, <1>2 DEF Pool
<1>12. CASE StreamOver(r)
  BY <1>12, <1>8 DEF StreamOver, StreamEnds, StreamFails, Polled, Outcome, Failed, At
<1> QED
  BY <1>3, <1>4, <1>5, <1>6, <1>7, <1>9, <1>10, <1>11, <1>12

\* A backend is looked at: its flag, then its breaker, which may become
\* half-open by that.
LEMMA ScanStep ==
  ASSUME IInv, NEW r \in Requests, Scan(r) \/ Ask(r)
  PROVE  IInv'
<1> USE DEF Holding, Connecting, Ended, Succeeded, Alike, FieldsAgree, Admitted, NoAdmission
<1> DEFINE b == Min(req[r].todo)
<1>1. req[r] \in Handler /\ FieldsAgree(req[r]) /\ req[r].at \in {"scan", "ask"}
  BY DEF IInv, TypeOK, HandlersAgree, Scan, Ask, At
<1>2. b \in Backends
  BY <1>1, MinFacts, RouterAssumption DEF Handler
<1>3. BreakersKept
  <2>1. CASE Scan(r)
    BY <2>1, BreakersSame DEF Scan, Pool
  <2>2. CASE Ask(r)
    BY <1>2, <2>2, BreakerRefreshed DEF Ask
  <2> QED
    BY <2>1, <2>2
<1>4. UNCHANGED <<clock, healthy, queueDepth, active, ewma, inFlight, Metrics>>
  BY DEF Scan, Ask, Pool
<1>5. ASSUME NEW ok \in BOOLEAN, Looked(r, b, ok) PROVE IInv'
  <2> DEFINE avail == IF ok THEN req[r].avail \union {b} ELSE req[r].avail
             rest  == req[r].todo \ {b}
             h == IF rest = {}
                  THEN [req[r] EXCEPT !.at = "filter", !.avail = avail, !.todo = avail]
                  ELSE [req[r] EXCEPT !.at = "scan", !.avail = avail, !.todo = rest]
  <2>1. avail \in SUBSET Backends /\ rest \in SUBSET Backends
    BY <1>1, <1>2 DEF Handler
  <2>2. h \in Handler /\ FieldsAgree(h) /\ Alike(h, req[r])
    <3> HIDE DEF avail, rest
    <3> QED
      BY <1>1, <2>1, ZenonT(60) DEF Handler, Location
  <2>3. Go(r, h)
    BY <1>5 DEF Looked
  <2> HIDE DEF h
  <2> QED
    BY <1>3, <1>4, <2>2, <2>3, QuietStep
<1>6. ASSUME Go(r, [req[r] EXCEPT !.at = "ask"]) PROVE IInv'
  <2> DEFINE h == [req[r] EXCEPT !.at = "ask"]
  <2>1. h \in Handler /\ FieldsAgree(h) /\ Alike(h, req[r])
    BY <1>1 DEF Handler, Location
  <2> HIDE DEF h
  <2>2. Go(r, h)
    BY <1>6 DEF h
  <2> QED
    BY <1>3, <1>4, <2>1, <2>2, QuietStep
<1>7. CASE Scan(r)
  BY <1>5, <1>6, <1>7 DEF Scan
<1>8. CASE Ask(r)
  <2> DEFINE ok == Routable(Refresh(breaker[b], clock))
  <2>1. ok \in BOOLEAN /\ Looked(r, b, ok)
    BY <1>8 DEF Ask, Routable
  <2> HIDE DEF ok
  <2> QED
    BY <1>5, <2>1
<1> QED
  BY <1>7, <1>8

-----------------------------------------------------------------------------
(* What moves each part of it: one permit, one connection, one probe, one count *)

OthersStay(r) == \A q \in Requests \ {r} : req'[q] = req[q]

LEMMA PermitTaken ==
  ASSUME Permits, NEW r \in Requests, OthersStay(r), ~Holding(req[r]), Holding(req'[r]),
         inFlight < MaxInFlight, inFlight' = inFlight + 1
  PROVE  Permits'
<1>1. Holders' = Holders \union {r} /\ r \notin Holders
  BY DEF Holders, OthersStay
<1>2. IsFiniteSet(Holders') /\ Cardinality(Holders') = Cardinality(Holders) + 1
  BY <1>1, FS_AddElement DEF Permits
<1>3. inFlight \in Nat
  BY FS_CardinalityType DEF Permits
<1> QED
  BY <1>2, <1>3, RouterAssumption DEF Permits

LEMMA PermitReturned ==
  ASSUME Permits, NEW r \in Requests, OthersStay(r), Holding(req[r]), ~Holding(req'[r]),
         inFlight' = inFlight - 1
  PROVE  Permits' /\ inFlight' \in Nat
<1>1. Holders' = Holders \ {r} /\ r \in Holders
  BY DEF Holders, OthersStay
<1>2. IsFiniteSet(Holders') /\ Cardinality(Holders') = Cardinality(Holders) - 1
  BY <1>1, FS_RemoveElement DEF Permits
<1>3. inFlight \in Nat /\ Cardinality(Holders') \in Nat
  BY <1>2, FS_CardinalityType DEF Permits
<1> QED
  BY <1>2, <1>3, RouterAssumption DEF Permits

\* The connections are among the requests with a permit, hence finitely many.
LEMMA ConnectedFinite ==
  ASSUME Permits
  PROVE  /\ IsFiniteSet(Connected) /\ Cardinality(Connected) <= inFlight
         /\ \A b \in Backends : IsFiniteSet(ConnectedTo(b))
<1>1. Connected \in SUBSET Holders /\ \A b \in Backends : ConnectedTo(b) \in SUBSET Holders
  BY DEF Connected, ConnectedTo, Holders, Connecting, Holding
<1> QED
  BY <1>1, FS_Subset DEF Permits

\* One connection counter changes.
ActiveSet(b, n) == active' = [active EXCEPT ![b] = n]

LEMMA ConnectionOpened ==
  ASSUME TypeOK, Permits, Connections, NEW r \in Requests, OthersStay(r), NEW b \in Backends,
         ~Connecting(req[r]), Connecting(req'[r]), req'[r].backend = b,
         ActiveSet(b, active[b] + 1)
  PROVE  Connections' /\ active' \in [Backends -> Nat]
<1>1. /\ Connected' = Connected \union {r} /\ r \notin Connected
      /\ ConnectedTo(b)' = ConnectedTo(b) \union {r} /\ r \notin ConnectedTo(b)
      /\ \A c \in Backends \ {b} : ConnectedTo(c)' = ConnectedTo(c)
  BY DEF Connected, ConnectedTo, OthersStay
<1>2. /\ Cardinality(Connected') = Cardinality(Connected) + 1
      /\ Cardinality(ConnectedTo(b)') = Cardinality(ConnectedTo(b)) + 1
  BY <1>1, ConnectedFinite, FS_AddElement
<1>3. /\ active \in [Backends -> Nat] /\ active' \in [Backends -> Nat]
      /\ active'[b] = active[b] + 1 /\ \A c \in Backends \ {b} : active'[c] = active[c]
  BY DEF TypeOK, ActiveSet
<1>4. SumOf(active', Backends) = SumOf(active, Backends) + 1
  BY <1>3, CountedIn, RouterAssumption, ZenonT(60)
<1>5. \A c \in Backends : active'[c] = Cardinality(ConnectedTo(c)')
  BY <1>1, <1>2, <1>3 DEF Connections
<1> QED
  BY <1>2, <1>3, <1>4, <1>5 DEF Connections

LEMMA ConnectionClosed ==
  ASSUME TypeOK, Permits, Connections, NEW r \in Requests, OthersStay(r), NEW b \in Backends,
         Connecting(req[r]), ~Connecting(req'[r]), req[r].backend = b,
         ActiveSet(b, active[b] - 1)
  PROVE  Connections' /\ active' \in [Backends -> Nat]
<1>1. /\ Connected' = Connected \ {r} /\ r \in Connected
      /\ ConnectedTo(b)' = ConnectedTo(b) \ {r} /\ r \in ConnectedTo(b)
      /\ \A c \in Backends \ {b} : ConnectedTo(c)' = ConnectedTo(c)
  BY DEF Connected, ConnectedTo, OthersStay
<1>2. /\ Cardinality(Connected') = Cardinality(Connected) - 1
      /\ IsFiniteSet(ConnectedTo(b)')
      /\ Cardinality(ConnectedTo(b)') = Cardinality(ConnectedTo(b)) - 1
  <2>1. IsFiniteSet(Connected) /\ IsFiniteSet(ConnectedTo(b))
    BY ConnectedFinite
  <2>2. Cardinality(Connected') = Cardinality(Connected) - 1
    BY <1>1, <2>1, OneLess
  <2>3. Cardinality(ConnectedTo(b)') = Cardinality(ConnectedTo(b)) - 1
    BY <1>1, <2>1, OneLess
  <2>4. IsFiniteSet(ConnectedTo(b)')
    BY <1>1, <2>1, FS_Subset
  <2> QED
    BY <2>2, <2>3, <2>4
<1>3. active[b] - 1 \in Nat
  BY <1>2, FS_CardinalityType DEF Connections
<1>4. /\ active \in [Backends -> Nat] /\ active' \in [Backends -> Nat]
      /\ active'[b] = active[b] - 1 /\ \A c \in Backends \ {b} : active'[c] = active[c]
  BY <1>3 DEF TypeOK, ActiveSet
<1>5. /\ SumOf(active, Backends) = SumOf(active', Backends) + 1
      /\ SumOf(active', Backends) \in Nat
  <2>1. /\ active \in [Backends -> Nat] /\ active' \in [Backends -> Nat]
        /\ active[b] = active'[b] + 1
        /\ \A c \in Backends \ {b} : active[c] = active'[c]
    BY <1>4
  <2>2. IsFiniteSet(Backends)
    BY RouterAssumption
  <2> QED
    BY <2>1, <2>2, CountedIn
<1>6. active'[b] = Cardinality(ConnectedTo(b)')
  BY <1>2, <1>4 DEF Connections
<1>7. \A c \in Backends \ {b} : active'[c] = Cardinality(ConnectedTo(c)')
  BY <1>1, <1>4 DEF Connections
<1> QED
  BY <1>2, <1>4, <1>5, <1>6, <1>7 DEF Connections

\* One breaker changes.
BreakerSet(b, in) ==
  /\ in \in Inner
  /\ breaker' = [breaker EXCEPT ![b] = in]

LEMMA ProbeTaken ==
  ASSUME TypeOK, Probes, NEW r \in Requests, OthersStay(r), NEW b \in Backends, NEW in,
         BreakerSet(b, in), ~breaker[b].probeInFlight,
         in.probeInFlight = TRUE, in.state = "HalfOpen",
         req[r].adm # "Probe", req'[r].adm = "Probe", req'[r].backend = b
  PROVE  Probes'
<1>1. Probing(b) = {}
  BY DEF Probes
<1>2. Probing(b)' = {r} /\ \A c \in Backends \ {b} : Probing(c)' = Probing(c)
  BY <1>1 DEF Probing, OthersStay
<1>3. breaker'[b] = in /\ \A c \in Backends \ {b} : breaker'[c] = breaker[c]
  BY DEF BreakerSet, TypeOK
<1> QED
  BY <1>2, <1>3 DEF Probes

LEMMA ProbeReturned ==
  ASSUME TypeOK, Probes, NEW r \in Requests, OthersStay(r), NEW b \in Backends, NEW in,
         BreakerSet(b, in), in.probeInFlight = FALSE,
         req[r].adm = "Probe", req[r].backend = b, req'[r].adm # "Probe"
  PROVE  Probes'
<1>1. r \in Probing(b) /\ \A q \in Probing(b) : q = r
  BY DEF Probes, Probing
<1>2. Probing(b)' = {} /\ \A c \in Backends \ {b} : Probing(c)' = Probing(c)
  BY <1>1 DEF Probing, OthersStay
<1>3. breaker'[b] = in /\ \A c \in Backends \ {b} : breaker'[c] = breaker[c]
  BY DEF BreakerSet, TypeOK
<1> QED
  BY <1>2, <1>3 DEF Probes

LEMMA ProbeElsewhere ==
  ASSUME TypeOK, Probes, NEW r \in Requests, OthersStay(r), NEW b \in Backends, NEW in,
         BreakerSet(b, in), in.probeInFlight = breaker[b].probeInFlight,
         breaker[b].probeInFlight => in.state = "HalfOpen",
         req[r].adm # "Probe", req'[r].adm # "Probe"
  PROVE  Probes'
<1>1. breaker'[b] = in /\ \A c \in Backends \ {b} : breaker'[c] = breaker[c]
  BY DEF BreakerSet, TypeOK
<1>2. \A c \in Backends : /\ breaker'[c].probeInFlight = breaker[c].probeInFlight
                          /\ breaker[c].probeInFlight => breaker'[c].state = "HalfOpen"
  BY <1>1 DEF Probes
<1>3. \A q \in Requests : /\ req'[q].adm = "Probe" <=> req[q].adm = "Probe"
                          /\ req[q].adm = "Probe" => req'[q].backend = req[q].backend
  BY DEF OthersStay
<1> QED
  BY <1>2, <1>3, ProbesKept

LEMMA SeriesFinite == IsFiniteSet(Series) /\ IsFiniteSet(Reasons)
<1>1. /\ Labels = {"2xx"} \union {"4xx"} \union {"5xx"} \union {"transport_error"}
                    \union {"stream_error"} \union {"client_disconnect"}
      /\ Reasons = {"backpressure"} \union {"body_too_large"} \union {"bad_body"}
                    \union {"no_routable_backend"}
  BY DEF Labels, Reasons, Statuses, Failed
<1>2. IsFiniteSet(Labels) /\ IsFiniteSet(Reasons)
  BY <1>1, FS_Singleton, FS_Union
<1> QED
  BY <1>2, FS_Product, RouterAssumption DEF Series

LEMMA OverGrows ==
  ASSUME Counters, NEW r \in Requests, OthersStay(r), ~Ended(req[r]), Ended(req'[r])
  PROVE  IsFiniteSet(Over') /\ Cardinality(Over') = Cardinality(Over) + 1
<1>1. Over' = Over \union {r} /\ r \notin Over
  BY DEF Over, OthersStay
<1> QED
  BY <1>1, FS_AddElement DEF Counters

-----------------------------------------------------------------------------
(* The steps that count *)

\* What every step of one handler keeps, whatever it counts.
LEMMA HandlerStep ==
  ASSUME IInv, NEW r \in Requests, NEW h \in Handler, Go(r, h), FieldsAgree(h)
  PROVE  /\ req' \in [Requests -> Handler] /\ req'[r] = h /\ OthersStay(r)
         /\ HandlersAgree'
         /\ clock \in Nat /\ req[r] \in Handler /\ FieldsAgree(req[r])
         /\ \A q \in Requests : req'[q] = IF q = r THEN h ELSE req[q]
<1>1. /\ req' \in [Requests -> Handler]
      /\ \A q \in Requests : req'[q] = IF q = r THEN h ELSE req[q]
  BY Moves DEF IInv
<1>2. HandlersAgree'
  BY <1>1 DEF IInv, HandlersAgree, FieldsAgree
<1> QED
  BY <1>1, <1>2 DEF OthersStay, IInv, TypeOK, HandlersAgree

\* A request is taken in.
LEMMA AcquireStep ==
  ASSUME IInv, NEW r \in Requests, Acquire(r)
  PROVE  IInv'
<1> USE DEF Holding, Connecting, Ended, Succeeded, FieldsAgree, Admitted, NoAdmission
<1> DEFINE h == [req[r] EXCEPT !.at = "body"]
<1>1. req[r] \in Handler /\ FieldsAgree(req[r]) /\ req[r].at = "new" /\ Go(r, h)
  BY DEF IInv, TypeOK, HandlersAgree, Acquire, At
<1>2. h \in Handler /\ FieldsAgree(h) /\ h.at = "body" /\ h.adm = req[r].adm
  BY <1>1 DEF Handler, Location
<1> HIDE DEF h
<1>3. /\ req' \in [Requests -> Handler] /\ req'[r] = h /\ OthersStay(r) /\ HandlersAgree'
      /\ \A q \in Requests : req'[q] = IF q = r THEN h ELSE req[q]
  BY <1>1, <1>2, HandlerStep
<1>4. TypeOK'
  BY <1>3 DEF Acquire, IInv, TypeOK, Pool, Metrics
<1>5. Permits'
  BY <1>1, <1>2, <1>3, PermitTaken DEF Acquire, IInv
<1>6. Connections'
  BY <1>1, <1>2, <1>3, ConnectionsKept DEF Acquire, IInv, Pool
<1>7. BreakersKept
  BY BreakersSame DEF Acquire, Pool
<1>8. Probes'
  BY <1>1, <1>2, <1>3, <1>7, ProbesKept DEF IInv, BreakersKept
<1>9. Counters'
  BY <1>1, <1>2, <1>3, CountersKept DEF Acquire, IInv
<1>10. Estimates'
  BY <1>1, <1>2, <1>3, EstimatesKept DEF Acquire, IInv, Pool, Metrics
<1> QED
  BY <1>3, <1>4, <1>5, <1>6, <1>8, <1>9, <1>10 DEF IInv

\* A request is refused: at capacity, for its body, or for want of a backend.
LEMMA RejectStep ==
  ASSUME IInv, NEW r \in Requests,
         \/ RejectAtCapacity(r) \/ RejectNoRoutable(r)
         \/ \E reason \in {"body_too_large", "bad_body"} : BodyFails(r, reason)
  PROVE  IInv'
<1> USE DEF Holding, Connecting, Ended, Succeeded, FieldsAgree, Admitted, NoAdmission
<1>1. PICK reason \in Reasons, to \in {"release", "done"} :
        /\ Reject(reason)
        /\ Go(r, [req[r] EXCEPT !.at = to])
        /\ to = "done" <=> req[r].at = "new"
        /\ req[r].at \in {"new", "body", "select"}
        /\ UNCHANGED <<clock, Pool, inFlight, requestsTotal>>
  BY DEF RejectAtCapacity, RejectNoRoutable, BodyFails, Reasons, At
<1> DEFINE h == [req[r] EXCEPT !.at = to]
<1>2. req[r] \in Handler /\ FieldsAgree(req[r]) /\ Go(r, h)
  BY <1>1 DEF IInv, TypeOK, HandlersAgree
<1>3. /\ h \in Handler /\ FieldsAgree(h) /\ h.adm = req[r].adm
      /\ Holding(h) <=> Holding(req[r])
      /\ ~Connecting(h) /\ ~Connecting(req[r])
      /\ ~Succeeded(h) /\ ~Succeeded(req[r])
      /\ Ended(h) /\ ~Ended(req[r]) /\ req[r].adm # "Probe"
  BY <1>1, <1>2 DEF Handler, Location
<1> HIDE DEF h, Holding, Connecting, Ended, Succeeded, FieldsAgree
<1>4. /\ req' \in [Requests -> Handler] /\ req'[r] = h /\ OthersStay(r) /\ HandlersAgree'
      /\ \A q \in Requests : req'[q] = IF q = r THEN h ELSE req[q]
  BY <1>2, <1>3, HandlerStep
<1>5. /\ rejected \in [Reasons -> Nat] /\ rejected' \in [Reasons -> Nat]
      /\ rejected'[reason] = rejected[reason] + 1
      /\ \A k \in Reasons \ {reason} : rejected'[k] = rejected[k]
  BY <1>1 DEF Reject, IInv, TypeOK
<1>6. TypeOK'
  BY <1>1, <1>4, <1>5 DEF IInv, TypeOK, Pool
<1>7. Permits'
  BY <1>1, <1>3, <1>4, PermitsKept DEF IInv
<1>8. Connections'
  BY <1>1, <1>3, <1>4, ConnectionsKept DEF IInv, Pool
<1>9. BreakersKept
  BY <1>1, BreakersSame DEF Pool
<1>10. Probes'
  BY <1>3, <1>4, <1>9, ProbesKept DEF IInv, BreakersKept
<1>11. Counters'
  <2>1. IsFiniteSet(Over') /\ Cardinality(Over') = Cardinality(Over) + 1
    BY <1>3, <1>4, OverGrows DEF IInv
  <2>2. SumOf(rejected', Reasons) = SumOf(rejected, Reasons) + 1 /\ SumOf(rejected, Reasons) \in Nat
    BY <1>5, SeriesFinite, CountedIn
  <2>3. SumOf(requestsTotal, Series) \in Nat
    BY SeriesFinite, SumNat DEF IInv, TypeOK, Series
  <2> QED
    BY <1>1, <2>1, <2>2, <2>3 DEF IInv, Counters
<1>12. Estimates'
  BY <1>1, <1>3, <1>4, EstimatesKept DEF IInv, Pool
<1> QED
  BY <1>4, <1>6, <1>7, <1>8, <1>10, <1>11, <1>12 DEF IInv

\* A candidate is claimed, or refuses.
LEMMA ChooseStep ==
  ASSUME IInv, NEW r \in Requests, NEW b \in Backends, Choose(r, b)
  PROVE  IInv'
<1> USE DEF Holding, Connecting, Ended, Succeeded, FieldsAgree, Admitted
<1> DEFINE adm == Admit(Refresh(breaker[b], clock))
           in  == TryBegin(breaker[b], clock)
           h   == IF adm = NoAdmission THEN [req[r] EXCEPT !.cands = @ \ {b}]
                  ELSE [req[r] EXCEPT !.at = "start", !.cands = {}, !.backend = b, !.adm = adm]
<1>1. /\ req[r] \in Handler /\ FieldsAgree(req[r]) /\ req[r].at = "select" /\ Go(r, h)
      /\ clock \in Nat /\ breaker[b] \in Inner /\ breaker' = [breaker EXCEPT ![b] = in]
      /\ UNCHANGED <<clock, healthy, queueDepth, active, ewma, inFlight, Metrics>>
  BY DEF IInv, TypeOK, HandlersAgree, Choose, At
<1>2. /\ in \in Inner /\ adm \in Admission \union {NoAdmission}
      /\ breaker[b].probeInFlight => in.state = "HalfOpen"
      /\ adm = "Probe" => /\ ~breaker[b].probeInFlight
                          /\ in.probeInFlight = TRUE /\ in.state = "HalfOpen"
      /\ adm # "Probe" => in.probeInFlight = breaker[b].probeInFlight
  <2>1. breaker[b].probeInFlight => Refresh(breaker[b], clock).state = "HalfOpen"
    BY <1>1, RefreshFacts DEF IInv, Probes
  <2> QED
    BY <1>1, <2>1, TryBeginFacts
<1> HIDE DEF adm, in
<1>3. /\ h \in Handler /\ FieldsAgree(h) /\ h.adm = adm
      /\ adm # NoAdmission => h.backend = b
      /\ Holding(h) /\ Holding(req[r])
      /\ ~Connecting(h) /\ ~Connecting(req[r])
      /\ ~Succeeded(h) /\ ~Succeeded(req[r])
      /\ ~Ended(h) /\ ~Ended(req[r]) /\ req[r].adm = NoAdmission
  BY <1>1, <1>2, ZenonT(60) DEF Handler, Location, Admission, NoAdmission
<1> HIDE DEF h, Holding, Connecting, Ended, Succeeded, FieldsAgree
<1>4. /\ req' \in [Requests -> Handler] /\ req'[r] = h /\ OthersStay(r) /\ HandlersAgree'
      /\ \A q \in Requests : req'[q] = IF q = r THEN h ELSE req[q]
  BY <1>1, <1>3, HandlerStep
<1>5. BreakerSet(b, in)
  BY <1>1, <1>2 DEF BreakerSet
<1>6. TypeOK'
  BY <1>1, <1>2, <1>4 DEF IInv, TypeOK, Metrics
<1>7. Permits'
  BY <1>1, <1>3, <1>4, PermitsKept DEF IInv
<1>8. Connections'
  BY <1>1, <1>3, <1>4, ConnectionsKept DEF IInv
<1>9. Probes'
  <2>1. CASE adm = "Probe"
    BY <2>1, <1>2, <1>3, <1>4, <1>5, ProbeTaken DEF IInv, NoAdmission
  <2>2. CASE adm # "Probe"
    BY <2>2, <1>2, <1>3, <1>4, <1>5, ProbeElsewhere DEF IInv, NoAdmission
  <2> QED
    BY <2>1, <2>2
<1>10. Counters'
  BY <1>1, <1>3, <1>4, CountersKept DEF IInv
<1>11. Estimates'
  BY <1>1, <1>3, <1>4, EstimatesKept DEF IInv, Metrics
<1> QED
  BY <1>4, <1>6, <1>7, <1>8, <1>9, <1>10, <1>11 DEF IInv

\* The request goes out.
LEMMA StartStep ==
  ASSUME IInv, NEW r \in Requests, Start(r)
  PROVE  IInv'
<1> USE DEF Holding, Connecting, Ended, Succeeded, FieldsAgree, Admitted
<1> DEFINE b == req[r].backend
           h == [req[r] EXCEPT !.at = "sent"]
<1>1. /\ req[r] \in Handler /\ FieldsAgree(req[r]) /\ req[r].at = "start" /\ Go(r, h)
      /\ ActiveSet(b, active[b] + 1) /\ b \in Backends
      /\ UNCHANGED <<clock, healthy, queueDepth, breaker, ewma, inFlight, Metrics>>
  BY DEF IInv, TypeOK, HandlersAgree, Start, At, ActiveSet
<1>3. /\ h \in Handler /\ FieldsAgree(h) /\ h.adm = req[r].adm /\ h.backend = b
      /\ Holding(h) /\ Holding(req[r])
      /\ Connecting(h) /\ ~Connecting(req[r])
      /\ ~Succeeded(h) /\ ~Succeeded(req[r])
      /\ ~Ended(h) /\ ~Ended(req[r])
  BY <1>1 DEF Handler, Location
<1> HIDE DEF h, Holding, Connecting, Ended, Succeeded, FieldsAgree
<1>4. /\ req' \in [Requests -> Handler] /\ req'[r] = h /\ OthersStay(r) /\ HandlersAgree'
      /\ \A q \in Requests : req'[q] = IF q = r THEN h ELSE req[q]
  BY <1>1, <1>3, HandlerStep
<1>5. Connections' /\ active' \in [Backends -> Nat]
  BY <1>1, <1>3, <1>4, ConnectionOpened DEF IInv
<1>6. TypeOK'
  BY <1>1, <1>4, <1>5 DEF IInv, TypeOK, Metrics
<1>7. Permits'
  BY <1>1, <1>3, <1>4, PermitsKept DEF IInv
<1>8. BreakersKept
  BY <1>1, BreakersSame
<1>9. Probes'
  BY <1>3, <1>4, <1>8, ProbesKept DEF IInv, BreakersKept
<1>10. Counters'
  BY <1>1, <1>3, <1>4, CountersKept DEF IInv
<1>11. Estimates'
  BY <1>1, <1>3, <1>4, EstimatesKept DEF IInv, Metrics
<1> QED
  BY <1>4, <1>5, <1>6, <1>7, <1>9, <1>10, <1>11 DEF IInv

\* A probe's breaker is half-open, and stays so when it is refreshed.
LEMMA ProbeIsOut ==
  ASSUME IInv, NEW r \in Requests, NEW b \in Backends, req[r].backend = b, req[r].adm = "Probe"
  PROVE  breaker[b].state = "HalfOpen" /\ Refresh(breaker[b], clock).state = "HalfOpen"
<1>1. r \in Probing(b)
  BY DEF Probing
<1>2. breaker[b] \in Inner /\ clock \in Nat /\ breaker[b].state = "HalfOpen"
  BY <1>1 DEF IInv, TypeOK, Probes
<1> QED
  BY <1>2, RefreshFacts

LEMMA HalfOpenRefreshed ==
  ASSUME IInv, NEW b \in Backends, breaker[b].probeInFlight
  PROVE  Refresh(breaker[b], clock).state = "HalfOpen"
<1>1. breaker[b] \in Inner /\ clock \in Nat /\ breaker[b].state = "HalfOpen"
  BY DEF IInv, TypeOK, Probes
<1> QED
  BY <1>1, RefreshFacts

\* The response's headers are there, and its body unless it is streamed.
LEMMA IntoResponseStep ==
  ASSUME IInv, NEW r \in Requests, IntoResponse(r)
  PROVE  IInv'
<1> USE DEF Holding, Connecting, Ended, Succeeded, FieldsAgree, Admitted
<1> DEFINE b == req[r].backend
           resolve == req[r].adm = "Probe" /\ req[r].status = "2xx"
           in == IF resolve THEN RecordSuccess(breaker[b], "Probe", clock) ELSE breaker[b]
           h == [req[r] EXCEPT !.at = IF req[r].sse THEN "streaming" ELSE "end",
                               !.adm = IF resolve THEN "Normal" ELSE @,
                               !.outcome = IF req[r].sse THEN @ ELSE "completed",
                               !.reply = IF req[r].sse THEN "none" ELSE "full"]
<1>1. /\ req[r] \in Handler /\ FieldsAgree(req[r]) /\ req[r].at = "headers" /\ Go(r, h)
      /\ b \in Backends /\ clock \in Nat /\ breaker[b] \in Inner
      /\ breaker' = [breaker EXCEPT ![b] = in]
      /\ UNCHANGED <<clock, healthy, queueDepth, active, ewma, inFlight, Metrics>>
  BY DEF IInv, TypeOK, HandlersAgree, IntoResponse, At
<1>2. /\ in \in Inner
      /\ resolve => in.probeInFlight = FALSE
      /\ ~resolve => in = breaker[b]
  BY <1>1, ProbeIsOut, ProbeSuccess, ZenonT(60)
<1>3. /\ h \in Handler /\ FieldsAgree(h) /\ h.backend = b
      /\ h.adm = IF resolve THEN "Normal" ELSE req[r].adm
      /\ Holding(h) /\ Holding(req[r])
      /\ Connecting(h) /\ Connecting(req[r])
      /\ ~Succeeded(h) /\ ~Succeeded(req[r])
      /\ ~Ended(h) /\ ~Ended(req[r])
  BY <1>1, ZenonT(60) DEF Handler, Location, Admission, NoAdmission, Outcome
<1> HIDE DEF h, in, Holding, Connecting, Ended, Succeeded, FieldsAgree
<1>4. /\ req' \in [Requests -> Handler] /\ req'[r] = h /\ OthersStay(r) /\ HandlersAgree'
      /\ \A q \in Requests : req'[q] = IF q = r THEN h ELSE req[q]
  BY <1>1, <1>3, HandlerStep
<1>5. BreakerSet(b, in)
  BY <1>1, <1>2 DEF BreakerSet
<1>6. TypeOK'
  BY <1>1, <1>2, <1>4 DEF IInv, TypeOK, Metrics
<1>7. Permits'
  BY <1>1, <1>3, <1>4, PermitsKept DEF IInv
<1>8. Connections'
  BY <1>1, <1>3, <1>4, ConnectionsKept DEF IInv
<1>9. Probes'
  <2>1. CASE resolve
    BY <2>1, <1>1, <1>2, <1>3, <1>4, <1>5, ProbeReturned DEF IInv
  <2>2. CASE ~resolve
    <3>1. breaker' = breaker
      BY <2>2, <1>1, <1>2 DEF IInv, TypeOK
    <3> QED
      BY <2>2, <3>1, <1>3, <1>4, BreakersSame, ProbesKept DEF IInv, BreakersKept
  <2> QED
    BY <2>1, <2>2
<1>10. Counters'
  BY <1>1, <1>3, <1>4, CountersKept DEF IInv
<1>11. Estimates'
  BY <1>1, <1>3, <1>4, EstimatesKept DEF IInv, Metrics
<1> QED
  BY <1>4, <1>6, <1>7, <1>8, <1>9, <1>10, <1>11 DEF IInv

\* The connection ends; a success makes an estimate.
LEMMA RequestEndStep ==
  ASSUME IInv, NEW r \in Requests, RequestEnd(r)
  PROVE  IInv'
<1> USE DEF Holding, Connecting, Ended, Succeeded, FieldsAgree, Admitted
<1> DEFINE b == req[r].backend
           good == req[r].outcome = "completed" /\ req[r].status = "2xx"
           h == [req[r] EXCEPT !.at = "verdict"]
<1>1. /\ req[r] \in Handler /\ FieldsAgree(req[r]) /\ req[r].at = "end" /\ Go(r, h)
      /\ ActiveSet(b, active[b] - 1) /\ b \in Backends
      /\ ewma' = [ewma EXCEPT ![b] = @ \/ good]
      /\ UNCHANGED <<clock, healthy, queueDepth, breaker, inFlight, Metrics>>
  BY DEF IInv, TypeOK, HandlersAgree, RequestEnd, At, ActiveSet
<1>3. /\ h \in Handler /\ FieldsAgree(h) /\ h.adm = req[r].adm /\ h.backend = b
      /\ Holding(h) /\ Holding(req[r])
      /\ ~Connecting(h) /\ Connecting(req[r])
      /\ Succeeded(h) <=> good
      /\ ~Succeeded(req[r])
      /\ ~Ended(h) /\ ~Ended(req[r])
  BY <1>1 DEF Handler, Location
<1> HIDE DEF h, Holding, Connecting, Ended, Succeeded, FieldsAgree, good
<1>4. /\ req' \in [Requests -> Handler] /\ req'[r] = h /\ OthersStay(r) /\ HandlersAgree'
      /\ \A q \in Requests : req'[q] = IF q = r THEN h ELSE req[q]
  BY <1>1, <1>3, HandlerStep
<1>5. Connections' /\ active' \in [Backends -> Nat]
  BY <1>1, <1>3, <1>4, ConnectionClosed DEF IInv
<1>6. /\ ewma' \in [Backends -> BOOLEAN]
      /\ ewma'[b] <=> ewma[b] \/ good
      /\ \A c \in Backends \ {b} : ewma'[c] = ewma[c]
  BY <1>1 DEF IInv, TypeOK
<1>7. TypeOK'
  BY <1>1, <1>4, <1>5, <1>6 DEF IInv, TypeOK, Metrics
<1>8. Permits'
  BY <1>1, <1>3, <1>4, PermitsKept DEF IInv
<1>9. BreakersKept
  BY <1>1, BreakersSame
<1>10. Probes'
  BY <1>3, <1>4, <1>9, ProbesKept DEF IInv, BreakersKept
<1>11. Counters'
  BY <1>1, <1>3, <1>4, CountersKept DEF IInv
<1>12. Estimates'
  <2>1. ASSUME NEW c \in Backends
        PROVE  (\E q \in Requests : req'[q].backend = c /\ Succeeded(req'[q]))
                 <=> \/ \E q \in Requests : req[q].backend = c /\ Succeeded(req[q])
                     \/ c = b /\ good
    BY <1>3, <1>4
  <2>2. requestsTotal' = requestsTotal
    BY <1>1 DEF Metrics
  <2>3. ASSUME NEW c \in Backends
        PROVE  ewma'[c] <=> ewma[c] \/ (c = b /\ good)
    BY <1>6
  <2> QED
    BY <2>1, <2>2, <2>3 DEF IInv, Estimates
<1> QED
  BY <1>4, <1>5, <1>7, <1>8, <1>10, <1>11, <1>12 DEF IInv

\* The breaker learns how the request ended.
LEMMA VerdictStep ==
  ASSUME IInv, NEW r \in Requests, Verdict(r)
  PROVE  IInv'
<1> USE DEF Holding, Connecting, Ended, Succeeded, FieldsAgree, Admitted
<1> DEFINE b == req[r].backend
           a == req[r].adm
           in == Judged(req[r], breaker[b])
           h == [req[r] EXCEPT !.at = "count", !.adm = NoAdmission]
<1>1. /\ req[r] \in Handler /\ FieldsAgree(req[r]) /\ req[r].at = "verdict" /\ Go(r, h)
      /\ b \in Backends /\ clock \in Nat /\ breaker[b] \in Inner
      /\ breaker' = [breaker EXCEPT ![b] = in]
      /\ UNCHANGED <<clock, healthy, queueDepth, active, ewma, inFlight, Metrics>>
  BY DEF IInv, TypeOK, HandlersAgree, Verdict, At
<1>2. a \in Admission
  BY <1>1 DEF Handler, NoAdmission
<1>3. /\ h \in Handler /\ FieldsAgree(h) /\ h.backend = b /\ h.adm = NoAdmission
      /\ Holding(h) /\ Holding(req[r])
      /\ ~Connecting(h) /\ ~Connecting(req[r])
      /\ Succeeded(h) <=> Succeeded(req[r])
      /\ ~Ended(h) /\ ~Ended(req[r])
  BY <1>1 DEF Handler, Location
<1> HIDE DEF h, Holding, Connecting, Ended, Succeeded, FieldsAgree
<1>4. /\ req' \in [Requests -> Handler] /\ req'[r] = h /\ OthersStay(r) /\ HandlersAgree'
      /\ \A q \in Requests : req'[q] = IF q = r THEN h ELSE req[q]
  BY <1>1, <1>3, HandlerStep
<1>5. \/ in = Abandon(breaker[b], a)
      \/ in = RecordFailure(breaker[b], a, clock)
      \/ in = RecordSuccess(breaker[b], a, clock)
  BY DEF Judged
<1> HIDE DEF in, a, b
<1>6. /\ in \in Inner
      /\ a = "Probe" => in.probeInFlight = FALSE
      /\ a # "Probe" => /\ in.probeInFlight = breaker[b].probeInFlight
                        /\ breaker[b].probeInFlight => in.state = "HalfOpen"
  <2>1. /\ a = "Probe" \/ breaker[b].probeInFlight =>
             breaker[b].state = "HalfOpen" /\ Refresh(breaker[b], clock).state = "HalfOpen"
    BY <1>1, ProbeIsOut, HalfOpenRefreshed DEF IInv, Probes, a, b
  <2>2. CASE in = Abandon(breaker[b], a)
    BY <1>1, <1>2, <2>1, <2>2, AbandonFacts
  <2>3. CASE in = RecordFailure(breaker[b], a, clock)
    <3>1. CASE a = "Probe"
      BY <1>1, <2>1, <2>3, <3>1, ProbeFailure
    <3>2. CASE a # "Probe"
      BY <1>1, <1>2, <2>1, <2>3, <3>2, PlainFailure
    <3> QED
      BY <3>1, <3>2
  <2>4. CASE in = RecordSuccess(breaker[b], a, clock)
    <3>1. CASE a = "Probe"
      BY <1>1, <2>1, <2>4, <3>1, ProbeSuccess
    <3>2. CASE a # "Probe"
      BY <1>1, <1>2, <2>1, <2>4, <3>2, PlainSuccess
    <3> QED
      BY <3>1, <3>2
  <2> QED
    BY <1>5, <2>2, <2>3, <2>4
<1>7. BreakerSet(b, in)
  BY <1>1, <1>6 DEF BreakerSet
<1>8. Probes'
  <2>1. CASE a = "Probe"
    BY <2>1, <1>1, <1>3, <1>4, <1>6, <1>7, ProbeReturned DEF IInv, NoAdmission, a, b
  <2>2. CASE a # "Probe"
    BY <2>2, <1>1, <1>3, <1>4, <1>6, <1>7, ProbeElsewhere DEF IInv, NoAdmission, a
  <2> QED
    BY <2>1, <2>2
<1>9. TypeOK'
  BY <1>1, <1>4, <1>6 DEF IInv, TypeOK, Metrics
<1>10. Permits'
  BY <1>1, <1>3, <1>4, PermitsKept DEF IInv
<1>11. Connections'
  BY <1>1, <1>3, <1>4, ConnectionsKept DEF IInv
<1>12. Counters'
  BY <1>1, <1>3, <1>4, CountersKept DEF IInv
<1>13. Estimates'
  BY <1>1, <1>3, <1>4, EstimatesKept DEF IInv, Metrics, b
<1> QED
  BY <1>4, <1>8, <1>9, <1>10, <1>11, <1>12, <1>13 DEF IInv

\* The request is counted under its backend and its outcome.
LEMMA CountStep ==
  ASSUME IInv, NEW r \in Requests, Count(r)
  PROVE  IInv'
<1> USE DEF Holding, Connecting, Ended, Succeeded, FieldsAgree, Admitted
<1> DEFINE b == req[r].backend
           label == StatusLabel(req[r])
           e == <<b, label>>
           h == [req[r] EXCEPT !.at = "release"]
<1>1. /\ req[r] \in Handler /\ FieldsAgree(req[r]) /\ req[r].at = "count" /\ Go(r, h)
      /\ b \in Backends
      /\ requestsTotal' = [requestsTotal EXCEPT ![e] = @ + 1]
      /\ UNCHANGED <<clock, Pool, inFlight, rejected>>
  BY DEF IInv, TypeOK, HandlersAgree, Count, At
<1>2. label \in Labels /\ (label = "2xx" <=> Succeeded(req[r]))
  BY <1>1 DEF Handler, StatusLabel, Labels, Statuses, Outcome, Failed
<1>3. /\ h \in Handler /\ FieldsAgree(h) /\ h.adm = req[r].adm /\ h.backend = b
      /\ Holding(h) /\ Holding(req[r])
      /\ ~Connecting(h) /\ ~Connecting(req[r])
      /\ ~Succeeded(h)
      /\ Ended(h) /\ ~Ended(req[r])
  BY <1>1 DEF Handler, Location
<1> HIDE DEF h, label, Holding, Connecting, Ended, Succeeded, FieldsAgree
<1>4. /\ req' \in [Requests -> Handler] /\ req'[r] = h /\ OthersStay(r) /\ HandlersAgree'
      /\ \A q \in Requests : req'[q] = IF q = r THEN h ELSE req[q]
  BY <1>1, <1>3, HandlerStep
<1>5. /\ requestsTotal \in [Series -> Nat] /\ requestsTotal' \in [Series -> Nat]
      /\ e \in Series /\ requestsTotal'[e] = requestsTotal[e] + 1
      /\ \A x \in Series \ {e} : requestsTotal'[x] = requestsTotal[x]
  <2>1. requestsTotal \in [Series -> Nat] /\ e \in Series
    BY <1>1, <1>2 DEF IInv, TypeOK, Series
  <2> HIDE DEF e
  <2> QED
    BY <1>1, <2>1
<1>6. TypeOK'
  BY <1>1, <1>4, <1>5 DEF IInv, TypeOK, Pool, Series
<1>7. Permits'
  BY <1>1, <1>3, <1>4, PermitsKept DEF IInv
<1>8. Connections'
  BY <1>1, <1>3, <1>4, ConnectionsKept DEF IInv, Pool
<1>9. BreakersKept
  BY <1>1, BreakersSame DEF Pool
<1>10. Probes'
  BY <1>3, <1>4, <1>9, ProbesKept DEF IInv, BreakersKept
<1>11. Counters'
  <2>1. IsFiniteSet(Over') /\ Cardinality(Over') = Cardinality(Over) + 1
    BY <1>3, <1>4, OverGrows DEF IInv
  <2>2. /\ SumOf(requestsTotal', Series) = SumOf(requestsTotal, Series) + 1
        /\ SumOf(requestsTotal, Series) \in Nat
    <3> HIDE DEF e
    <3> QED
      BY <1>5, SeriesFinite, CountedIn
  <2>3. SumOf(rejected, Reasons) \in Nat
    BY SeriesFinite, SumNat DEF IInv, TypeOK
  <2> QED
    BY <1>1, <2>1, <2>2, <2>3 DEF IInv, Counters
<1>12. Estimates'
  <2>1. ASSUME NEW c \in Backends
        PROVE  (requestsTotal'[<<c, "2xx">>] > 0)
                 <=> requestsTotal[<<c, "2xx">>] > 0 \/ (c = b /\ Succeeded(req[r]))
    <3>1. <<c, "2xx">> \in Series /\ requestsTotal[<<c, "2xx">>] \in Nat
      BY <1>5 DEF Series, Labels, Statuses
    <3>2. (<<c, "2xx">> = e) <=> (c = b /\ Succeeded(req[r]))
      BY <1>2
    <3> HIDE DEF e
    <3> QED
      BY <1>5, <3>1, <3>2
  <2>2. ASSUME NEW c \in Backends
        PROVE  (\E q \in Requests : req[q].backend = c /\ Succeeded(req[q]))
                 <=> \/ \E q \in Requests : req'[q].backend = c /\ Succeeded(req'[q])
                     \/ c = b /\ Succeeded(req[r])
    BY <1>3, <1>4
  <2>3. ewma' = ewma
    BY <1>1 DEF Pool
  <2> QED
    BY <2>1, <2>2, <2>3 DEF IInv, Estimates
<1> QED
  BY <1>4, <1>6, <1>7, <1>8, <1>10, <1>11, <1>12 DEF IInv

\* The permit comes back.
LEMMA ReleaseStep ==
  ASSUME IInv, NEW r \in Requests, Release(r)
  PROVE  IInv'
<1> USE DEF Holding, Connecting, Ended, Succeeded, FieldsAgree, Admitted, NoAdmission
<1> DEFINE h == [Arriving EXCEPT !.at = IF req[r].reply = "full" THEN "replying" ELSE "done",
                                 !.reply = req[r].reply]
<1>1. /\ req[r] \in Handler /\ FieldsAgree(req[r]) /\ req[r].at = "release" /\ Go(r, h)
      /\ inFlight' = inFlight - 1
      /\ UNCHANGED <<clock, Pool, Metrics>>
  BY DEF IInv, TypeOK, HandlersAgree, Release, At
<1>3. /\ h \in Handler /\ FieldsAgree(h) /\ h.adm = NoAdmission /\ req[r].adm = NoAdmission
      /\ ~Holding(h) /\ Holding(req[r])
      /\ ~Connecting(h) /\ ~Connecting(req[r])
      /\ ~Succeeded(h) /\ ~Succeeded(req[r])
      /\ Ended(h) <=> Ended(req[r])
  <2> DEFINE to == IF req[r].reply = "full" THEN "replying" ELSE "done"
             re == req[r].reply
  <2>1. PICK g \in Handler : g = Arriving
    BY DEF Arriving, Handler, Location, Outcome
  <2>2. g.adm = NoAdmission
    BY <2>1 DEF Arriving
  <2>3. to \in Location /\ re \in {"none", "full", "aborted"}
    BY <1>1 DEF Handler, Location
  <2>4. h = [g EXCEPT !.at = to, !.reply = re]
    BY <2>1
  <2> HIDE DEF h, to, re
  <2>5. h \in Handler /\ h.adm = NoAdmission /\ h.reply = re /\ h.at = to
    BY <2>2, <2>3, <2>4 DEF Handler
  <2> QED
    BY <1>1, <2>5 DEF to, re
<1> HIDE DEF h, Holding, Connecting, Ended, Succeeded, FieldsAgree
<1>4. /\ req' \in [Requests -> Handler] /\ req'[r] = h /\ OthersStay(r) /\ HandlersAgree'
      /\ \A q \in Requests : req'[q] = IF q = r THEN h ELSE req[q]
  BY <1>1, <1>3, HandlerStep
<1>5. Permits' /\ inFlight' \in Nat
  BY <1>1, <1>3, <1>4, PermitReturned DEF IInv
<1>6. TypeOK'
  BY <1>1, <1>4, <1>5 DEF IInv, TypeOK, Pool, Metrics
<1>7. Connections'
  BY <1>1, <1>3, <1>4, ConnectionsKept DEF IInv, Pool
<1>8. BreakersKept
  BY <1>1, BreakersSame DEF Pool
<1>9. Probes'
  BY <1>3, <1>4, <1>8, ProbesKept DEF IInv, BreakersKept
<1>10. Counters'
  BY <1>1, <1>3, <1>4, CountersKept DEF IInv
<1>11. Estimates'
  BY <1>1, <1>3, <1>4, EstimatesKept DEF IInv, Pool, Metrics
<1> QED
  BY <1>4, <1>5, <1>6, <1>7, <1>9, <1>10, <1>11 DEF IInv

\* No handler moves: time passes, breaker states are read, health is checked, or
\* nothing happens.
LEMMA OtherStep ==
  ASSUME IInv,
         \/ Tick \/ HealthCheck \/ UNCHANGED vars
         \/ \E b \in Backends : ReadState(b)
  PROVE  IInv'
<1>1. UNCHANGED <<active, ewma, inFlight, Metrics, req>>
  BY DEF Tick, HealthCheck, vars, ReadState, Pool, Metrics
<1>2. BreakersKept
  <2>1. ASSUME NEW b \in Backends, ReadState(b)
        PROVE  BreakersKept
    BY <2>1, BreakerRefreshed DEF ReadState
  <2>2. CASE Tick \/ HealthCheck \/ UNCHANGED vars
    BY <2>2, BreakersSame DEF Tick, HealthCheck, vars, Pool
  <2> QED
    BY <2>1, <2>2
<1>3. clock' \in 0 .. MaxClock
  BY RouterAssumption DEF IInv, TypeOK, Tick, HealthCheck, vars, ReadState
<1>4. healthy' \in [Backends -> BOOLEAN] /\ queueDepth' \in [Backends -> Depths]
  <2>1. CASE FeedStep
    <3>1. healthy \in [Backends -> BOOLEAN] /\ queueDepth \in [Backends -> Depths]
      BY DEF IInv, TypeOK
    <3>2. PICK b \in Backends : MarkUp(b) \/ MarkDown(b) \/ \E d \in Depths : Report(b, d)
      BY <2>1 DEF FeedStep
    <3> QED
      BY <3>1, <3>2, DepthAssumption DEF MarkUp, MarkDown, Report
  <2>2. CASE UNCHANGED <<healthy, queueDepth>>
    BY <2>2 DEF IInv, TypeOK
  <2> QED
    BY <2>1, <2>2 DEF Tick, HealthCheck, vars, ReadState, Pool
<1>5. TypeOK'
  BY <1>1, <1>2, <1>3, <1>4 DEF IInv, TypeOK, BreakersKept, Metrics
<1>6. HandlersAgree'
  BY <1>1 DEF IInv, HandlersAgree
<1>7. Permits'
  BY <1>1, PermitsKept DEF IInv
<1>8. Connections'
  BY <1>1, ConnectionsKept DEF IInv
<1>9. Probes'
  BY <1>1, <1>2, ProbesKept DEF IInv, BreakersKept
<1>10. Counters'
  BY <1>1, CountersKept DEF IInv
<1>11. Estimates'
  BY <1>1, EstimatesKept DEF IInv, Metrics
<1> QED
  BY <1>5, <1>6, <1>7, <1>8, <1>9, <1>10, <1>11 DEF IInv

-----------------------------------------------------------------------------
(* The theorems *)

LEMMA InitIInv == Init => IInv
<1> SUFFICES ASSUME Init PROVE IInv
  OBVIOUS
<1>1. Arriving \in Handler
  BY DEF Arriving, Handler, Location, Outcome
<1>2. TypeOK
  BY <1>1, NewType, RouterAssumption, DepthAssumption DEF Init, FeedInit, TypeOK
<1>3. \A r \in Requests : req[r] = Arriving
  BY DEF Init
<1>4. Arriving.at = "new" /\ Arriving.adm = NoAdmission /\ Arriving.reply = "none"
  BY DEF Arriving
<1>5. HandlersAgree
  BY <1>3, <1>4 DEF HandlersAgree, FieldsAgree, Admitted
<1>6. Holders = {} /\ Connected = {} /\ Over = {} /\ \A b \in Backends : ConnectedTo(b) = {}
  BY <1>3, <1>4 DEF Holders, Connected, ConnectedTo, Over, Holding, Connecting, Ended
<1>7. Permits
  BY <1>6, FS_EmptySet, RouterAssumption DEF Permits, Init
<1>8. Connections
  BY <1>6, FS_EmptySet, SumZero, RouterAssumption DEF Connections, Init
<1>9. Probes
  <2>1. \A b \in Backends : Probing(b) = {}
    BY <1>3, <1>4 DEF Probing, NoAdmission
  <2>2. \A b \in Backends : breaker[b].probeInFlight = FALSE
    BY DEF Init, New
  <2> QED
    BY <2>1, <2>2 DEF Probes
<1>10. Counters
  <2>1. SumOf(requestsTotal, Series) = 0
    BY SeriesFinite, SumZero DEF Init, Series
  <2>2. SumOf(rejected, Reasons) = 0
    BY SeriesFinite, SumZero DEF Init
  <2> QED
    BY <1>6, <2>1, <2>2, FS_EmptySet DEF Counters
<1>11. Estimates
  <2>1. \A b \in Backends : ~(requestsTotal[<<b, "2xx">>] > 0)
    <3>1. \A b \in Backends : <<b, "2xx">> \in Backends \X Labels
      BY DEF Labels, Statuses
    <3>2. \A series \in Backends \X Labels : requestsTotal[series] = 0
      BY DEF Init
    <3>3. ASSUME NEW b \in Backends PROVE requestsTotal[<<b, "2xx">>] = 0
      BY <3>1, <3>2, Zenon
    <3> QED
      <4>1. ~(0 > 0)
        OBVIOUS
      <4> QED
        BY <3>3, <4>1, Zenon
  <2>2. \A b \in Backends : ~ewma[b]
    BY DEF Init
  <2>3. \A r \in Requests : ~Succeeded(req[r])
    BY <1>3, <1>4 DEF Succeeded
  <2> QED
    BY <2>1, <2>2, <2>3, Zenon DEF Estimates
<1> QED
  BY <1>2, <1>5, <1>7, <1>8, <1>9, <1>10, <1>11 DEF IInv

LEMMA NextIInv == IInv /\ [Next]_vars => IInv'
<1> SUFFICES ASSUME IInv, [Next]_vars PROVE IInv'
  OBVIOUS
<1>1. ASSUME NEW r \in Requests, ClientStep(r) PROVE IInv'
  BY <1>1, AcquireStep, RejectStep, WaitingStep DEF ClientStep
<1>2. ASSUME NEW r \in Requests, Proceed(r) PROVE IInv'
  BY <1>2, ScanStep, WaitingStep, ChooseStep, RejectStep, StartStep, IntoResponseStep,
     RequestEndStep, VerdictStep, CountStep, ReleaseStep DEF Proceed
<1>3. ASSUME NEW r \in Requests,
             Answered(r) \/ StreamOver(r) \/ \E done \in BOOLEAN : Chunk(r, done)
      PROVE  IInv'
  BY <1>3, WaitingStep
<1> QED
  BY <1>1, <1>2, <1>3, OtherStep DEF Next, RequestStep

LEMMA AlwaysIInv == Spec => []IInv
  BY InitIInv, NextIInv, PTL DEF Spec

\* Type correctness: no counter goes below zero, and every handler's fields stay
\* in their types, on every path through the request's life.
THEOREM TypeCorrect == Spec => []TypeOK
<1>1. IInv => TypeOK
  BY DEF IInv
<1> QED
  BY <1>1, AlwaysIInv, PTL

\* However many requests arrive and whatever they end in, in_flight is the number
\* of permits that exist and never exceeds max_in_flight.
THEOREM PermitsAreExact == Spec => []PermitsExact
<1>1. IInv => PermitsExact
  <2>1. {r \in Requests : HoldsPermit(r)} = Holders
    BY DEF Holders, HoldsPermit, Holding
  <2> QED
    BY <2>1 DEF IInv, Permits, PermitsExact
<1> QED
  BY <1>1, AlwaysIInv, PTL

\* Each backend's active_connections is the number of requests under way there,
\* and all of them together fit in the in-flight budget.
THEOREM ConnectionsAreExact == Spec => []ActiveExact
<1>1. ASSUME IInv PROVE ActiveExact
  <2>1. \A b \in Backends :
          {r \in Requests : IsActive(r) /\ req[r].backend = b} = ConnectedTo(b)
    BY DEF ConnectedTo, IsActive, Connecting
  <2>2. MapThenSumSet(LAMBDA b : active[b], Backends) = SumOf(active, Backends)
    BY SumIsMapThenSum
  <2>3. SumOf(active, Backends) <= inFlight
    BY <1>1, ConnectedFinite DEF IInv, Connections
  <2> QED
    BY <1>1, <2>1, <2>2, <2>3 DEF IInv, Connections, ActiveExact
<1> QED
  BY <1>1, AlwaysIInv, PTL

\* A backend's probe_in_flight is set exactly while one live request holds the
\* probe, however forwarding, streaming, disconnecting and dropping interleave.
THEOREM ProbesAreAccounted == Spec => []ProbeAccounted
<1>1. ASSUME IInv PROVE ProbeAccounted
  <2>1. ASSUME NEW b \in Backends
        PROVE  Cardinality(Probing(b)) <= 1
    <3>1. Probing(b) = {} \/ \E r : Probing(b) = {r}
      BY <1>1 DEF IInv, Probes
    <3> QED
      <4>1. CASE Probing(b) = {}
        BY <4>1, FS_EmptySet
      <4>2. ASSUME NEW r, Probing(b) = {r} PROVE Cardinality(Probing(b)) = 1
        BY <4>2, FS_Singleton
      <4> QED
        BY <3>1, <4>1, <4>2
  <2> QED
    BY <1>1, <2>1 DEF IInv, Probes, ProbeAccounted
<1> QED
  BY <1>1, AlwaysIInv, PTL

\* Every request that is over is in exactly one counter, router_requests_total or
\* router_rejected_requests_total, unless its client left during the upload.
THEOREM CountedExactlyOnce == Spec => []EachCountedOnce
<1>1. ASSUME IInv PROVE EachCountedOnce
  <2> DEFINE over == {r \in Requests : req[r].at \in {"release", "replying", "done"}}
             aborted == {r \in over : req[r].reply = "aborted"}
  <2>1. over \ aborted = Over
    BY DEF Over, Ended
  <2>2. /\ MapThenSumSet(LAMBDA series : requestsTotal[series], Backends \X Labels)
             = SumOf(requestsTotal, Series)
        /\ MapThenSumSet(LAMBDA k : rejected[k], Reasons) = SumOf(rejected, Reasons)
    BY SumIsMapThenSum DEF Series
  <2> QED
    BY <1>1, <2>1, <2>2 DEF IInv, Counters, EachCountedOnce
<1> QED
  BY <1>1, AlwaysIInv, PTL

\* A backend has a latency estimate exactly if one of its requests completed with
\* a 2xx: failures and disconnects never feed it, and no success is lost.
THEOREM EstimatesFromSuccess == Spec => []EstimateFromSuccess
<1>1. ASSUME IInv PROVE EstimateFromSuccess
  <2>1. \A r \in Requests : Succeeding(r) <=> Succeeded(req[r])
    BY DEF Succeeding, Succeeded
  <2> QED
    BY <1>1, <2>1 DEF IInv, Estimates, EstimateFromSuccess
<1> QED
  BY <1>1, AlwaysIInv, PTL
=============================================================================
