---------------------------- MODULE SelectionProofs ----------------------------
(***************************************************************************)
(* Proofs about RouterAudit: what the selection of a backend can be blamed *)
(* for, although it reads flags, breakers and depths one by one while they *)
(* change.                                                                 *)
(***************************************************************************)
EXTENDS RouterAudit, RouterProofs

-----------------------------------------------------------------------------
(* The inductive invariant *)

Facts == [steady : SUBSET Backends, low : SUBSET Backends,
          high : SUBSET Backends, down : SUBSET Backends]

\* k holds no more than m.
Less(k, m) ==
  /\ k.steady \subseteq m.steady /\ k.low \subseteq m.low
  /\ k.high \subseteq m.high /\ k.down \subseteq m.down

\* What the sets of a handler are worth, given the facts k that held since its
\* selection began: no steady backend was lost, no dead one was kept, and the
\* limit was ignored only for want of a steady backend under it.
Sound(h, k) ==
  /\ h.at \in {"new", "body"} => h.avail = {} /\ h.cands = {}
  /\ h.at \in {"scan", "ask"} =>
       /\ h.cands = {}
       /\ k.steady \subseteq h.todo \union h.avail
       /\ h.avail \intersect k.down = {}
  /\ h.at = "ask" => Min(h.todo) \notin k.down
  /\ h.at = "filter" =>
       /\ k.steady \subseteq h.avail
       /\ h.avail \intersect k.down = {}
       /\ h.cands \subseteq h.avail /\ h.todo \subseteq h.avail
       /\ h.avail \intersect k.low \subseteq h.todo \union h.cands
       /\ h.cands \intersect k.high = {}
  /\ h.at = "select" =>
       /\ h.cands \intersect k.down = {}
       /\ k.steady \intersect k.low \subseteq h.cands
       /\ k.high = Backends => k.steady \subseteq h.cands
       /\ h.cands \intersect k.high # {} => k.steady \intersect k.low = {}

\* What is held since then still holds now.
HeldNow ==
  /\ held \in [Requests -> Facts]
  /\ \A r \in Requests : req[r].at \in Selecting => Less(held[r], Now)

SelectionsSound == \A r \in Requests : Sound(req[r], held[r])

AInv == IInv /\ HeldNow /\ SelectionsSound

-----------------------------------------------------------------------------
(* Lemmas about the facts *)

LEMMA NowFacts == Now \in Facts /\ Now' \in Facts /\ Nothing \in Facts
  BY DEF Now, Nothing, Facts

LEMMA BothFacts ==
  ASSUME NEW k \in Facts, NEW m \in Facts
  PROVE  Both(k, m) \in Facts /\ Less(Both(k, m), k) /\ Less(Both(k, m), m)
<1>1. Both(k, m) = [steady |-> k.steady \intersect m.steady, low |-> k.low \intersect m.low,
                    high |-> k.high \intersect m.high, down |-> k.down \intersect m.down]
  <2>1. DOMAIN k = {"steady", "low", "high", "down"}
    BY DEF Facts
  <2> QED
    BY <2>1, SMTT(40) DEF Both
<1> QED
  BY <1>1 DEF Facts, Less

\* Fewer facts ask less of a selection.
LEMMA SoundWithLess ==
  ASSUME NEW h \in Handler, NEW k \in Facts, NEW m \in Facts, Less(k, m), Sound(h, m)
  PROVE  Sound(h, k)
  BY DEF Sound, Less, Facts

LEMMA NowSays ==
  /\ \A b \in Now.steady : healthy[b] /\ breaker[b].state = "Closed"
  /\ \A b \in Now.down : ~healthy[b]
  /\ \A b \in Now.low : queueDepth[b] <= MaxQueueDepth
  /\ \A b \in Now.high : queueDepth[b] > MaxQueueDepth
  BY DEF Now

-----------------------------------------------------------------------------
(* One lemma per step of a selection *)

Reading == {"new", "body"}

\* Where no selection is going on there is nothing to ask.
LEMMA NoSelection ==
  ASSUME NEW h, h.at \notin Selecting \union Reading
  PROVE  \A k \in Facts : Sound(h, k)
  BY DEF Sound, Selecting, Reading

\* A backend is done with: a steady one was found routable, and one that was is
\* not down.
LEMMA LookedSound ==
  ASSUME AInv, NEW r \in Requests, req[r].at \in {"scan", "ask"}, NEW b \in Backends,
         NEW ok \in BOOLEAN, Looked(r, b, ok),
         b \in held[r].steady => ok, ok => b \notin held[r].down
  PROVE  Sound(req'[r], held[r])
<1> DEFINE avail == IF ok THEN req[r].avail \union {b} ELSE req[r].avail
           rest  == req[r].todo \ {b}
           h == IF rest = {}
                THEN [req[r] EXCEPT !.at = "filter", !.avail = avail, !.todo = avail]
                ELSE [req[r] EXCEPT !.at = "scan", !.avail = avail, !.todo = rest]
<1>1. req[r] \in Handler /\ Sound(req[r], held[r])
  BY DEF AInv, IInv, TypeOK, SelectionsSound
<1>2. req'[r] = h
  <2>1. Go(r, h)
    BY DEF Looked
  <2> QED
    BY <2>1 DEF Go, AInv, IInv, TypeOK
<1>3. /\ req[r].cands = {} /\ held[r].steady \subseteq req[r].todo \union req[r].avail
      /\ req[r].avail \intersect held[r].down = {}
  BY <1>1 DEF Sound
<1>4. /\ held[r].steady \subseteq rest \union avail
      /\ avail \intersect held[r].down = {}
  BY <1>3
<1> HIDE DEF avail, rest
<1>5. CASE rest = {}
  <2>1. /\ h.at = "filter" /\ h.avail = avail /\ h.todo = avail /\ h.cands = {}
    BY <1>1, <1>3, <1>5 DEF Handler
  <2> QED
    BY <2>1, <1>2, <1>4, <1>5 DEF Sound
<1>6. CASE rest # {}
  <2>1. /\ h.at = "scan" /\ h.avail = avail /\ h.todo = rest /\ h.cands = {}
    BY <1>1, <1>3, <1>6 DEF Handler
  <2> QED
    BY <2>1, <1>2, <1>4 DEF Sound
<1> QED
  BY <1>5, <1>6

LEMMA ScanSound ==
  ASSUME AInv, NEW r \in Requests, Scan(r) \/ Ask(r)
  PROVE  Sound(req'[r], held[r])
<1> DEFINE b == Min(req[r].todo)
<1>1. /\ req[r] \in Handler /\ req[r].at \in {"scan", "ask"} /\ Sound(req[r], held[r])
      /\ held[r] \in Facts /\ Less(held[r], Now) /\ FieldsAgree(req[r])
  BY DEF AInv, IInv, TypeOK, HandlersAgree, HeldNow, SelectionsSound, Scan, Ask, At, Selecting
<1>2. b \in Backends
  BY <1>1, MinFacts, RouterAssumption DEF Handler, FieldsAgree
<1>3. /\ b \in held[r].steady => healthy[b] /\ breaker[b].state = "Closed"
      /\ b \in held[r].down => ~healthy[b]
  BY <1>1, NowSays DEF Less
<1>4. CASE Scan(r) /\ ~healthy[b]
  <2>1. Looked(r, b, FALSE)
    BY <1>4 DEF Scan
  <2> HIDE DEF b
  <2> QED
    BY <1>1, <1>2, <1>3, <1>4, <2>1, LookedSound
<1>5. CASE Scan(r) /\ healthy[b]
  <2>1. req[r].at = "scan" /\ Go(r, [req[r] EXCEPT !.at = "ask"])
    BY <1>5 DEF Scan, At
  <2>2. /\ req'[r].at = "ask" /\ req'[r].todo = req[r].todo
        /\ req'[r].avail = req[r].avail /\ req'[r].cands = req[r].cands
    BY <1>1, <2>1 DEF Go, AInv, IInv, TypeOK, Handler
  <2>3. Min(req'[r].todo) \notin held[r].down
    BY <1>3, <1>5, <2>2
  <2> QED
    BY <1>1, <2>1, <2>2, <2>3 DEF Sound
<1>6. CASE Ask(r)
  <2> DEFINE ok == Routable(Refresh(breaker[b], clock))
  <2>1. ok \in BOOLEAN /\ Looked(r, b, ok) /\ req[r].at = "ask"
    BY <1>6 DEF Ask, Routable, At
  <2>2. b \in held[r].steady => ok
    BY <1>3 DEF Routable, Refresh
  <2>3. b \notin held[r].down
    BY <1>1, <2>1 DEF Sound
  <2> HIDE DEF ok, b
  <2> QED
    BY <1>1, <1>2, <2>1, <2>2, <2>3, LookedSound
<1> QED
  BY <1>4, <1>5, <1>6

LEMMA FilterSound ==
  ASSUME AInv, NEW r \in Requests, Filter(r)
  PROVE  Sound(req'[r], held[r])
<1> DEFINE b == Min(req[r].todo)
           low == queueDepth[b] <= MaxQueueDepth
           rest == req[r].todo \ {b}
           cands == IF low THEN req[r].cands \union {b} ELSE req[r].cands
<1>1. /\ req[r] \in Handler /\ req[r].at = "filter" /\ Sound(req[r], held[r])
      /\ held[r] \in Facts /\ Less(held[r], Now) /\ req[r].todo # {}
  BY DEF AInv, IInv, TypeOK, HandlersAgree, HeldNow, SelectionsSound, Filter, At, Selecting
<1>2. b \in req[r].todo /\ b \in Backends
  BY <1>1, MinFacts, RouterAssumption DEF Handler
<1>3. queueDepth[b] \in Nat /\ MaxQueueDepth \in Nat
  BY <1>2, RouterAssumption DEF AInv, IInv, TypeOK
<1>4. (b \in held[r].low => low) /\ (low => b \notin held[r].high)
  BY <1>1, <1>3, NowSays DEF Less
<1>5. req'[r] = [req[r] EXCEPT !.todo = rest, !.cands = cands]
  BY <1>1 DEF Filter, Go, AInv, IInv, TypeOK, Handler
<1> HIDE DEF low, b
<1>6. /\ cands \subseteq req[r].avail /\ rest \subseteq req[r].avail
      /\ req[r].avail \intersect held[r].low \subseteq rest \union cands
      /\ cands \intersect held[r].high = {}
  BY <1>1, <1>2, <1>4 DEF Sound
<1> HIDE DEF cands, rest
<1>7. /\ req'[r].at = "filter" /\ req'[r].avail = req[r].avail
      /\ req'[r].todo = rest /\ req'[r].cands = cands
  BY <1>1, <1>5 DEF Handler
<1> QED
  BY <1>1, <1>6, <1>7 DEF Sound

LEMMA CandidatesSound ==
  ASSUME AInv, NEW r \in Requests, Candidates(r)
  PROVE  Sound(req'[r], held[r])
<1> DEFINE cands == IF req[r].cands = {} THEN req[r].avail ELSE req[r].cands
<1>1. /\ req[r] \in Handler /\ req[r].at = "filter" /\ Sound(req[r], held[r])
      /\ held[r] \in Facts /\ req[r].todo = {}
  BY DEF AInv, IInv, TypeOK, HandlersAgree, HeldNow, SelectionsSound, Candidates, At, Selecting
<1>2. req'[r].at = "select" /\ req'[r].cands = cands
  BY <1>1 DEF Candidates, Go, AInv, IInv, TypeOK, Handler
<1>3. /\ held[r].steady \subseteq req[r].avail
      /\ req[r].avail \intersect held[r].down = {}
      /\ req[r].cands \subseteq req[r].avail
      /\ req[r].avail \intersect held[r].low \subseteq req[r].cands
      /\ req[r].cands \intersect held[r].high = {}
      /\ req[r].cands \subseteq Backends
  BY <1>1 DEF Sound, Handler
<1>4. /\ cands \intersect held[r].down = {}
      /\ held[r].steady \intersect held[r].low \subseteq cands
      /\ held[r].high = Backends => held[r].steady \subseteq cands
      /\ cands \intersect held[r].high # {} => held[r].steady \intersect held[r].low = {}
  BY <1>3
<1> QED
  BY <1>2, <1>4 DEF Sound

\* A steady backend never refuses.
LEMMA ChooseSound ==
  ASSUME AInv, NEW r \in Requests, NEW b \in Backends, Choose(r, b)
  PROVE  /\ Sound(req'[r], held[r])
         /\ req'[r].at = "start" => req'[r].backend = b /\ b \in req[r].cands
<1> DEFINE adm == Admit(Refresh(breaker[b], clock))
<1>1. /\ req[r] \in Handler /\ req[r].at = "select" /\ Sound(req[r], held[r])
      /\ held[r] \in Facts /\ Less(held[r], Now) /\ b \in req[r].cands
  BY DEF AInv, IInv, TypeOK, HandlersAgree, HeldNow, SelectionsSound, Choose, At, Selecting
<1>2. b \in held[r].steady => adm # NoAdmission
  <2>1. b \in held[r].steady => breaker[b].state = "Closed"
    BY <1>1, NowSays DEF Less
  <2> QED
    BY <2>1 DEF Admit, Refresh, NoAdmission
<1> HIDE DEF adm
<1>3. CASE adm = NoAdmission
  <2>1. req'[r].at = "select" /\ req'[r].cands = req[r].cands \ {b}
    BY <1>1, <1>3 DEF Choose, Go, AInv, IInv, TypeOK, Handler, adm
  <2> DEFINE cands == req[r].cands \ {b}
  <2>2. /\ cands \intersect held[r].down = {}
        /\ held[r].steady \intersect held[r].low \subseteq cands
        /\ held[r].high = Backends => held[r].steady \subseteq cands
        /\ cands \intersect held[r].high # {} => held[r].steady \intersect held[r].low = {}
    BY <1>1, <1>2, <1>3 DEF Sound
  <2> QED
    BY <2>1, <2>2 DEF Sound
<1>4. CASE adm # NoAdmission
  <2>1. req'[r].at = "start" /\ req'[r].backend = b
    <3>1. Go(r, [req[r] EXCEPT !.at = "start", !.cands = {}, !.backend = b, !.adm = adm])
      BY <1>4 DEF Choose, adm
    <3> QED
      BY <1>1, <3>1 DEF Go, AInv, IInv, TypeOK, Handler
  <2> QED
    BY <1>1, <2>1 DEF Sound
<1> QED
  BY <1>3, <1>4

-----------------------------------------------------------------------------
(* The steps of all handlers *)

\* What a step leaves of the selection of r.
Kept(r) ==
  \/ req'[r] = req[r]
  \/ req[r].at \in Selecting /\ Sound(req'[r], held[r])
  \/ \A k \in Facts : Sound(req'[r], k)

LEMMA OwnStep ==
  ASSUME AInv, NEW r \in Requests, RequestStep(r)
  PROVE  Kept(r) /\ OthersStay(r)
<1>1. /\ req \in [Requests -> Handler] /\ req[r] \in Handler /\ FieldsAgree(req[r])
      /\ Sound(req[r], held[r])
  BY DEF AInv, IInv, TypeOK, HandlersAgree, SelectionsSound
<1>2. ASSUME NEW h, Go(r, h) PROVE OthersStay(r) /\ req'[r] = h
  BY <1>1, <1>2 DEF Go, OthersStay
<1>3. CASE Scan(r) \/ Ask(r) \/ Filter(r) \/ Candidates(r) \/ \E b \in Backends : Choose(r, b)
  <2>1. req[r].at \in Selecting
    BY <1>3 DEF Scan, Ask, Filter, Candidates, Choose, At, Selecting
  <2>2. Sound(req'[r], held[r])
    BY <1>3, ScanSound, FilterSound, CandidatesSound, ChooseSound
  <2>3. OthersStay(r)
    BY <1>2, <1>3 DEF Scan, Ask, Looked, Filter, Candidates, Choose
  <2> QED
    BY <2>1, <2>2, <2>3 DEF Kept
<1>4. CASE Acquire(r) \/ BodyRead(r)
  <2>1. /\ req[r].avail = {} /\ req[r].cands = {}
    BY <1>1, <1>4 DEF Acquire, BodyRead, At, Sound
  <2>2. CASE Acquire(r)
    <3>1. OthersStay(r) /\ req'[r] = [req[r] EXCEPT !.at = "body"]
      BY <1>2, <2>2 DEF Acquire
    <3>2. req'[r].at = "body" /\ req'[r].avail = {} /\ req'[r].cands = {}
      BY <1>1, <2>1, <3>1 DEF Handler
    <3> QED
      BY <3>1, <3>2 DEF Kept, Sound
  <2>3. CASE BodyRead(r)
    <3>1. OthersStay(r) /\ req'[r] = [req[r] EXCEPT !.at = "scan", !.todo = Backends]
      BY <1>2, <2>3 DEF BodyRead
    <3>2. /\ req'[r].at = "scan" /\ req'[r].todo = Backends
          /\ req'[r].avail = {} /\ req'[r].cands = {}
      BY <1>1, <2>1, <3>1 DEF Handler
    <3> QED
      BY <3>1, <3>2 DEF Kept, Sound, Facts
  <2> QED
    BY <1>4, <2>2, <2>3
<1>5. ASSUME OthersStay(r), req'[r].at \notin Selecting \union Reading
      PROVE  Kept(r) /\ OthersStay(r)
  BY <1>5, NoSelection DEF Kept
<1>6. ASSUME NEW at, at \notin Selecting \union Reading, Go(r, [req[r] EXCEPT !.at = at])
      PROVE  Kept(r) /\ OthersStay(r)
  <2>1. OthersStay(r) /\ req'[r].at = at
    BY <1>1, <1>2, <1>6 DEF Handler
  <2> QED
    BY <2>1, <1>5, <1>6
<1>7. ASSUME NEW outcome, End(r, outcome) PROVE Kept(r) /\ OthersStay(r)
  <2>1. req'[r].at = "end" /\ OthersStay(r)
    BY <1>1, <1>7 DEF End, Go, OthersStay, Handler
  <2> QED
    BY <2>1, <1>5 DEF Selecting, Reading
<1>8. CASE ClientStep(r)
  <2>1. CASE RejectAtCapacity(r) \/ Replied(r)
    BY <2>1, <1>6 DEF RejectAtCapacity, Replied, Selecting, Reading
  <2>2. ASSUME NEW reason, BodyFails(r, reason) PROVE Kept(r) /\ OthersStay(r)
    BY <2>2, <1>6 DEF BodyFails, Selecting, Reading
  <2>3. CASE ClientLeaves(r)
    <3>1. CASE Go(r, [req[r] EXCEPT !.at = "release", !.reply = "aborted"])
      <4>1. req'[r].at = "release" /\ OthersStay(r)
        BY <1>1, <3>1 DEF Go, OthersStay, Handler
      <4> QED
        BY <4>1, <1>5 DEF Selecting, Reading
    <3> QED
      BY <2>3, <3>1, <1>7 DEF ClientLeaves
  <2>4. CASE StopsReading(r) \/ ReadsOn(r)
    <3>1. req'[r].at = "streaming" /\ OthersStay(r)
      BY <1>1, <2>4 DEF StopsReading, ReadsOn, At, Go, OthersStay, Handler
    <3> QED
      BY <3>1, <1>5 DEF Selecting, Reading
  <2> QED
    BY <1>4, <1>8, <2>1, <2>2, <2>3, <2>4 DEF ClientStep
<1>9. CASE Proceed(r)
  <2>1. CASE RejectNoRoutable(r) \/ Start(r)
    BY <2>1, <1>6 DEF RejectNoRoutable, Start, Selecting, Reading
  <2>2. CASE RequestEnd(r) \/ Count(r)
    BY <2>2, <1>6 DEF RequestEnd, Count, Selecting, Reading
  <2>3. ASSUME IntoResponse(r) \/ Verdict(r)
        PROVE  req'[r].at \in {"streaming", "end", "count"} /\ OthersStay(r)
    <3>1. CASE IntoResponse(r)
      BY <1>1, <3>1 DEF IntoResponse, Go, OthersStay, Handler
    <3>2. CASE Verdict(r)
      BY <1>1, <3>2 DEF Verdict, Go, OthersStay, Handler
    <3> QED
      BY <2>3, <3>1, <3>2
  <2>4. CASE Release(r)
    <3>1. req'[r].at \in {"replying", "done"} /\ OthersStay(r)
      BY <1>1, <2>4 DEF Release, Arriving, Go, OthersStay
    <3> QED
      BY <3>1, <1>5 DEF Selecting, Reading
  <2> QED
    BY <1>3, <1>5, <1>9, <2>1, <2>2, <2>3, <2>4 DEF Proceed, Selecting, Reading
<1>10. CASE Answered(r) \/ StreamOver(r) \/ \E done \in BOOLEAN : Chunk(r, done)
  <2>1. ASSUME NEW status, NEW sse \in BOOLEAN, HeadersArrive(r, status, sse)
        PROVE  Kept(r) /\ OthersStay(r)
    <3>1. req'[r].at \in {"headers", "buffering"} /\ OthersStay(r)
      BY <1>1, <2>1 DEF HeadersArrive, Go, OthersStay, Handler
    <3> QED
      BY <3>1, <1>5 DEF Selecting, Reading
  <2>2. CASE BufferComplete(r)
    BY <2>2, <1>6 DEF BufferComplete, Selecting, Reading
  <2>3. ASSUME NEW done, Chunk(r, done) PROVE Kept(r) /\ OthersStay(r)
    <3>1. req'[r].at = "streaming" /\ OthersStay(r)
      BY <1>1, <2>3 DEF Chunk, Polled, At, Go, OthersStay, Handler
    <3> QED
      BY <3>1, <1>5 DEF Selecting, Reading
  <2> QED
    BY <1>7, <1>10, <2>1, <2>2, <2>3
       DEF Answered, ConnectFails, BufferFails, StreamOver, StreamEnds, StreamFails
<1> QED
  BY <1>8, <1>9, <1>10 DEF RequestStep

LEMMA AllKept == ASSUME AInv, [Next]_vars PROVE \A r \in Requests : Kept(r)
<1> SUFFICES ASSUME NEW r \in Requests PROVE Kept(r)
  OBVIOUS
<1>1. ASSUME NEW q \in Requests, RequestStep(q) PROVE Kept(r)
  BY <1>1, OwnStep DEF OthersStay, Kept
<1>2. CASE req' = req
  BY <1>2 DEF Kept
<1> QED
  BY <1>1, <1>2 DEF Next, Tick, ReadState, HealthCheck, vars

-----------------------------------------------------------------------------
(* The theorems *)

LEMMA AuditInitInv == AuditInit => AInv
<1> SUFFICES ASSUME AuditInit PROVE AInv
  OBVIOUS
<1>1. IInv
  BY InitIInv DEF AuditInit
<1>2. held \in [Requests -> Facts]
  BY NowFacts DEF AuditInit
<1>3. \A r \in Requests : req[r].at = "new" /\ req[r].avail = {} /\ req[r].cands = {}
  BY DEF AuditInit, Init, Arriving
<1> QED
  BY <1>1, <1>2, <1>3 DEF AInv, HeldNow, SelectionsSound, Sound, Selecting

LEMMA AuditNextInv == AInv /\ [AuditNext]_auditVars => AInv'
<1> SUFFICES ASSUME AInv, [AuditNext]_auditVars PROVE AInv'
  OBVIOUS
<1>1. [Next]_vars
  BY DEF AuditNext, auditVars, vars
<1>2. IInv'
  BY <1>1, NextIInv DEF AInv
<1>3. req' \in [Requests -> Handler] /\ held \in [Requests -> Facts]
  BY <1>2 DEF IInv, TypeOK, AInv, HeldNow
<1>4. CASE UNCHANGED auditVars
  <2>1. UNCHANGED <<healthy, queueDepth, breaker, req, held>>
    BY <1>4 DEF auditVars
  <2>2. Now' = Now
    BY <2>1 DEF Now
  <2>3. HeldNow'
    BY <2>1, <2>2 DEF AInv, HeldNow
  <2>4. SelectionsSound'
    BY <2>1 DEF AInv, SelectionsSound
  <2> QED
    BY <1>2, <2>3, <2>4 DEF AInv
<1>5. CASE AuditNext
  <2> DEFINE new(r) == IF req'[r].at \notin Selecting THEN Nothing
                       ELSE IF req[r].at \in Selecting THEN Both(held[r], Now') ELSE Now'
  <2>1. held' = [r \in Requests |-> new(r)]
    BY <1>5 DEF AuditNext
  <2>2. ASSUME NEW r \in Requests
        PROVE  /\ new(r) \in Facts
               /\ req'[r].at \in Selecting => Less(new(r), Now')
               /\ req'[r].at \in Selecting /\ req[r].at \in Selecting => Less(new(r), held[r])
    <3>1. held[r] \in Facts /\ Now' \in Facts /\ Nothing \in Facts /\ Less(Now', Now')
      BY <1>3, NowFacts DEF Less
    <3> QED
      BY <3>1, BothFacts
  <2> HIDE DEF new
  <2>3. HeldNow'
    BY <2>1, <2>2 DEF HeldNow
  <2>4. ASSUME NEW r \in Requests PROVE Sound(req'[r], new(r))
    <3>1. req'[r] \in Handler /\ held[r] \in Facts /\ new(r) \in Facts
      BY <1>3, <2>2
    <3>2. CASE req[r].at \in Selecting /\ Sound(req'[r], held[r])
      <4>1. CASE req'[r].at \in Selecting
        BY <3>1, <3>2, <4>1, <2>2, SoundWithLess
      <4>2. CASE req'[r].at \notin Selecting
        BY <3>2, <4>2 DEF Sound, Selecting
      <4> QED
        BY <4>1, <4>2
    <3>3. CASE \A k \in Facts : Sound(req'[r], k)
      BY <3>1, <3>3
    <3>4. CASE req'[r] = req[r]
      <4>1. Sound(req'[r], held[r])
        BY <3>4 DEF AInv, SelectionsSound
      <4>2. CASE req'[r].at \in Selecting
        BY <3>1, <3>4, <4>1, <4>2, <2>2, SoundWithLess
      <4>3. CASE req'[r].at \notin Selecting
        BY <4>1, <4>3 DEF Sound, Selecting
      <4> QED
        BY <4>2, <4>3
    <3> QED
      BY <1>1, <3>2, <3>3, <3>4, AllKept DEF Kept
  <2>5. SelectionsSound'
    BY <2>1, <2>4 DEF SelectionsSound
  <2> QED
    BY <1>2, <2>3, <2>5 DEF AInv
<1> QED
  BY <1>4, <1>5

LEMMA AlwaysAInv == AuditSpec => []AInv
  BY AuditInitInv, AuditNextInv, PTL DEF AuditSpec

\* A handler leaves its candidates by choosing one, or for want of one.
LEMMA SelectEnds ==
  ASSUME AInv, [Next]_vars, NEW r \in Requests, req[r].at = "select", req'[r].at # "select"
  PROVE  \/ RejectNoRoutable(r) /\ req'[r].at = "release"
         \/ req'[r].at = "start" /\ \E b \in Backends : Choose(r, b)
<1>1. req \in [Requests -> Handler] /\ req[r] \in Handler
  BY DEF AInv, IInv, TypeOK
<1>2. RequestStep(r)
  <2>1. ASSUME NEW q \in Requests, q # r, RequestStep(q) PROVE FALSE
    BY <2>1, OwnStep DEF OthersStay
  <2> QED
    BY <2>1 DEF Next, Tick, ReadState, HealthCheck, vars
<1>3. Proceed(r)
  BY <1>2 DEF RequestStep, ClientStep, Acquire, RejectAtCapacity, BodyRead, BodyFails,
              StopsReading, ReadsOn, ClientLeaves, Replied, Answered, HeadersArrive, ConnectFails,
              BufferComplete, BufferFails, StreamOver, StreamEnds, StreamFails, Chunk, Polled, At
<1>4. RejectNoRoutable(r) \/ \E b \in Backends : Choose(r, b)
  BY <1>3 DEF Proceed, Scan, Ask, Filter, Candidates, Start, IntoResponse, RequestEnd, Verdict,
              Count, Release, At
<1>5. CASE RejectNoRoutable(r)
  BY <1>1, <1>5 DEF RejectNoRoutable, Go, Handler
<1>6. ASSUME NEW b \in Backends, Choose(r, b) PROVE req'[r].at = "start"
  BY <1>1, <1>6, ZenonT(60) DEF Choose, Go, Handler
<1> QED
  BY <1>4, <1>5, <1>6

\* A 503 has a reason: select_backend refuses a request only if no backend was
\* healthy, closed and under the limit during the whole selection, and not
\* because all of them were over it.
THEOREM NoNeedless503 == AuditSpec => No503WithoutReason
<1>1. ASSUME AInv, [AuditNext]_auditVars, NEW r \in Requests,
             req[r].at = "select", req'[r].at = "release"
      PROVE  ~HadABackend(r)
  <2>1. [Next]_vars
    BY <1>1 DEF AuditNext, auditVars, vars
  <2>2. req[r].cands = {}
    BY <1>1, <2>1, SelectEnds DEF RejectNoRoutable
  <2>3. Sound(req[r], held[r]) /\ held[r] \in Facts
    BY <1>1 DEF AInv, SelectionsSound, HeldNow
  <2> QED
    BY <1>1, <2>2, <2>3 DEF Sound, HadABackend
<1>2. AInv /\ [AuditNext]_auditVars =>
        \A r \in Requests :
          rejected'["no_routable_backend"] > rejected["no_routable_backend"]
            /\ req[r].at = "select" /\ req'[r].at = "release"
              => ~HadABackend(r)
  BY <1>1
<1> QED
  BY <1>2, AlwaysAInv, PTL DEF AuditSpec, No503WithoutReason

\* The chosen backend was not down during the whole selection, and not over the
\* queue limit all along while a steady backend stayed under it.
THEOREM NoNeedlessBadChoice == AuditSpec => NoBadChoice
<1>1. ASSUME AInv, [AuditNext]_auditVars, NEW r \in Requests,
             req[r].at = "select", req'[r].at = "start"
      PROVE  /\ req'[r].backend \notin held[r].down
             /\ req'[r].backend \in held[r].high
                  => held[r].steady \intersect held[r].low = {}
  <2>1. [Next]_vars
    BY <1>1 DEF AuditNext, auditVars, vars
  <2>2. req'[r].backend \in req[r].cands
    BY <1>1, <2>1, SelectEnds, ChooseSound
  <2>3. Sound(req[r], held[r])
    BY <1>1 DEF AInv, SelectionsSound
  <2> QED
    BY <1>1, <2>2, <2>3 DEF Sound
<1>2. AInv /\ [AuditNext]_auditVars =>
        \A r \in Requests :
          req[r].at = "select" /\ req'[r].at = "start" =>
            /\ req'[r].backend \notin held[r].down
            /\ req'[r].backend \in held[r].high
                 => held[r].steady \intersect held[r].low = {}
  BY <1>1
<1> QED
  BY <1>2, AlwaysAInv, PTL DEF AuditSpec, NoBadChoice
=============================================================================
