---------------------------- MODULE CircuitBreaker ----------------------------
(***************************************************************************)
(* One backend's circuit breaker under concurrent callers                  *)
(* (router-core/src/circuit_breaker.rs).                                   *)
(*                                                                         *)
(* Every method but abandon samples the clock first and takes the lock     *)
(* afterwards, so each call is two steps: Call... stores the sample, the   *)
(* second step is the critical section (an operator of Breaker) applied    *)
(* with that sample.  Between them the clock moves and other callers hold  *)
(* the lock, so samples reach the breaker late and out of order.           *)
(*                                                                         *)
(* A caller is a request handler: it asks is_routable while the candidates *)
(* are collected, may be given another backend by the strategy (GiveUp),   *)
(* claims an admission with try_begin, and ends with exactly one verdict   *)
(* (record_success, record_failure or abandon).  A streaming probe reports *)
(* its success at the headers already (RequestAccounting::                 *)
(* resolve_probe_on_headers) and goes on as a Normal request.  An idle     *)
(* caller may also be the metrics handler, which calls state().            *)
(***************************************************************************)
EXTENDS Breaker

CONSTANTS
  Callers,      \* request handlers and metrics handlers that run concurrently
  MaxClock,     \* bound: the last instant of the modelled clock
  MaxCalls      \* bound: how many handlers are started

ASSUME CallerAssumption ==
  /\ MaxClock \in Nat
  /\ MaxCalls \in Nat

VARIABLES
  clock,      \* Instant::now()
  inner,      \* the value under the mutex
  pc,         \* where each caller is
  adm,        \* the Admission a caller holds
  sampled,    \* the instant a caller sampled for the call it is in
  calls       \* handlers started so far

vars == <<clock, inner, pc, adm, sampled, calls>>

\* The calls that have sampled the clock and wait for the lock.
Sampling == {"state", "is_routable", "try_begin", "resolve",
             "record_success", "record_failure"}
Location == Sampling \union {"idle", "offered", "holding"}

\* Where a caller holds an admission.
Admitted == {"holding", "resolve", "record_success", "record_failure"}

TypeOK ==
  /\ clock \in Nat
  /\ inner \in Inner
  /\ pc \in [Callers -> Location]
  /\ adm \in [Callers -> Admission \union {NoAdmission}]
  /\ sampled \in [Callers -> Nat \union {NoInstant}]
  /\ calls \in Nat

Init ==
  /\ clock = 0
  /\ inner = New(0)
  /\ pc = [c \in Callers |-> "idle"]
  /\ adm = [c \in Callers |-> NoAdmission]
  /\ sampled = [c \in Callers |-> NoInstant]
  /\ calls = 0

-----------------------------------------------------------------------------
Tick ==
  /\ clock < MaxClock
  /\ clock' = clock + 1
  /\ UNCHANGED <<inner, pc, adm, sampled, calls>>

\* `let now = self.now();` at the head of a method.
Sample(c, from, to) ==
  /\ pc[c] = from
  /\ pc' = [pc EXCEPT ![c] = to]
  /\ sampled' = [sampled EXCEPT ![c] = clock]
  /\ UNCHANGED <<clock, inner, adm>>

\* The critical section of the method a caller is in: it leaves `in` under the
\* mutex, and the caller goes on at `to` with the admission `a`.
Critical(c, in, to, a) ==
  /\ inner' = in
  /\ pc' = [pc EXCEPT ![c] = to]
  /\ adm' = [adm EXCEPT ![c] = a]
  /\ sampled' = [sampled EXCEPT ![c] = NoInstant]
  /\ UNCHANGED <<clock, calls>>

Start(c, to) ==
  /\ calls < MaxCalls
  /\ calls' = calls + 1
  /\ Sample(c, "idle", to)

CallState(c) == Start(c, "state")

State(c) ==
  /\ pc[c] = "state"
  /\ Critical(c, Refresh(inner, sampled[c]), "idle", NoAdmission)

CallIsRoutable(c) == Start(c, "is_routable")

IsRoutable(c) ==
  /\ pc[c] = "is_routable"
  /\ LET r == Refresh(inner, sampled[c])
     IN  Critical(c, r, IF Routable(r) THEN "offered" ELSE "idle", NoAdmission)

\* The queue-depth filter or the strategy prefers another backend.
GiveUp(c) ==
  /\ pc[c] = "offered"
  /\ Critical(c, inner, "idle", NoAdmission)

CallTryBegin(c) == Sample(c, "offered", "try_begin") /\ UNCHANGED calls

TryBeginCall(c) ==
  /\ pc[c] = "try_begin"
  /\ LET a == Admit(Refresh(inner, sampled[c]))
     IN  Critical(c, TryBegin(inner, sampled[c]),
                  IF a = NoAdmission THEN "idle" ELSE "holding", a)

CallResolve(c) ==
  /\ adm[c] = "Probe"
  /\ Sample(c, "holding", "resolve")
  /\ UNCHANGED calls

Resolve(c) ==
  /\ pc[c] = "resolve"
  /\ Critical(c, RecordSuccess(inner, adm[c], sampled[c]), "holding", "Normal")

CallRecordSuccess(c) == Sample(c, "holding", "record_success") /\ UNCHANGED calls

RecordSuccessCall(c) ==
  /\ pc[c] = "record_success"
  /\ Critical(c, RecordSuccess(inner, adm[c], sampled[c]), "idle", NoAdmission)

CallRecordFailure(c) == Sample(c, "holding", "record_failure") /\ UNCHANGED calls

RecordFailureCall(c) ==
  /\ pc[c] = "record_failure"
  /\ Critical(c, RecordFailure(inner, adm[c], sampled[c]), "idle", NoAdmission)

AbandonCall(c) ==
  /\ pc[c] = "holding"
  /\ Critical(c, Abandon(inner, adm[c]), "idle", NoAdmission)

\* Nothing is left to happen within the bounds; a caller stuck in a call or
\* with an admission would still be reported as a deadlock.
Quiet ==
  /\ clock = MaxClock /\ calls = MaxCalls
  /\ \A c \in Callers : pc[c] = "idle"
  /\ UNCHANGED vars

\* The step with which a caller leaves the lock it waits for.
LockStep(c) ==
  \/ State(c) \/ IsRoutable(c) \/ TryBeginCall(c)
  \/ Resolve(c) \/ RecordSuccessCall(c) \/ RecordFailureCall(c)

\* The step with which a request's accounting is dropped.
Finish(c) == CallRecordSuccess(c) \/ CallRecordFailure(c) \/ AbandonCall(c)

Next ==
  \/ Tick
  \/ \E c \in Callers :
       \/ CallState(c) \/ CallIsRoutable(c) \/ GiveUp(c) \/ CallTryBegin(c)
       \/ CallResolve(c)
       \/ LockStep(c) \/ Finish(c)
  \/ Quiet

Spec == Init /\ [][Next]_vars

\* A thread that waits for the lock gets it (the critical sections are short
\* and never block), and RequestAccounting is dropped on every path, so an
\* admission always ends in one of the three verdicts.
Fairness == \A c \in Callers : WF_vars(LockStep(c)) /\ WF_vars(Finish(c))

FairSpec == Spec /\ Fairness

-----------------------------------------------------------------------------
ProbeHolders  == {c \in Callers : adm[c] = "Probe"}
NormalHolders == {c \in Callers : adm[c] = "Normal"}

\* "Half-open admits exactly one probe request": at most one caller holds the
\* probe, `probe_in_flight` is set exactly while one does, and the circuit is
\* half-open all that time, whatever the Normal requests of before the trip
\* report meanwhile.
ProbeExclusive ==
  /\ \A c, d \in ProbeHolders : c = d
  /\ inner.probeInFlight <=> ProbeHolders # {}
  /\ inner.probeInFlight => inner.state = "HalfOpen"

\* `opened_at` is set exactly while the circuit is not closed, and no instant
\* the breaker stores lies in the future of the clock, although every one of
\* them comes from a sample taken before the lock.
InstantsSound ==
  /\ inner.state = "Closed" <=> inner.openedAt = NoInstant
  /\ inner.openedAt <= clock
  /\ inner.headStart <= clock

\* The step leaves half-open only as the report of the probe's holder.
LeavesHalfOpenByProbe ==
  (inner.state = "HalfOpen" /\ inner'.state # "HalfOpen") =>
     \E c \in ProbeHolders :
       /\ adm'[c] # "Probe"
       /\ inner'.state = "Closed" => pc[c] \in {"resolve", "record_success"}
       /\ inner'.state = "Open" => pc[c] = "record_failure"

\* "its verdict decides Closed or Open": a half-open circuit leaves that state
\* only in the step in which the probe's holder reports, to Closed with a
\* success and to Open with a failure.
OnlyProbeDecides == [][LeavesHalfOpenByProbe]_vars

\* The step does not cut or extend the open period.
KeepsOpenPeriod ==
  inner.state = "Open" =>
    /\ inner'.openedAt = inner.openedAt
    /\ inner'.state \in {"Open", "HalfOpen"}
    /\ inner'.state = "HalfOpen" => clock >= inner.openedAt + OpenTicks

\* "Late failures while Open/HalfOpen are counted but must not extend the open
\* period": while the circuit is open `opened_at` never moves, the circuit can
\* only become half-open, and not before the whole open period has passed.
OpenPeriodFixed == [][KeepsOpenPeriod]_vars

\* The breaker with its clock, window and races implements the contract.
Contract == INSTANCE BreakerContract
              WITH phase <- inner.state, probes <- ProbeHolders,
                   normals <- NormalHolders
MeetsContract == Contract!Spec

\* A probe that went out comes back: the half-open circuit does not stay
\* blocked behind `probe_in_flight`.
ProbeReturns == inner.probeInFlight ~> ~inner.probeInFlight
=============================================================================
