------------------------- MODULE CircuitBreakerProofs -------------------------
(***************************************************************************)
(* Proofs about CircuitBreaker, and about WindowLog, which adds the log of *)
(* all verdicts, for any number of callers, any window, any threshold and  *)
(* any bound on the clock and on the calls.                                *)
(***************************************************************************)
EXTENDS WindowLog, BreakerFacts, SetFacts

-----------------------------------------------------------------------------
(* The inductive invariant *)

\* A caller holds an admission exactly where the code does, a sample is never
\* in the future, and only a probe resolves at the headers.
CallsInOrder ==
  \A c \in Callers :
    /\ pc[c] \in Admitted <=> adm[c] # NoAdmission
    /\ pc[c] \in Sampling => sampled[c] \in Nat /\ sampled[c] <= clock
    /\ pc[c] = "resolve" => adm[c] = "Probe"

IInv == TypeOK /\ CallsInOrder /\ ProbeExclusive /\ InstantsSound

LEMMA InitIInv == Init => IInv
<1> SUFFICES ASSUME Init PROVE IInv
  OBVIOUS
<1>1. TypeOK
  BY NewType DEF Init, TypeOK, Location, Admission, NoAdmission
<1>2. CallsInOrder
  BY DEF Init, CallsInOrder, Admitted, Sampling
<1>3. ProbeExclusive
  BY DEF Init, ProbeExclusive, ProbeHolders, New, NoAdmission
<1>4. InstantsSound
  BY DEF Init, InstantsSound, New, NoInstant
<1> QED BY <1>1, <1>2, <1>3, <1>4 DEF IInv

\* A caller that samples the clock changes nothing the breaker depends on.
LEMMA SampleKeepsIInv ==
  ASSUME IInv, NEW c \in Callers, NEW from, NEW to \in Sampling,
         Sample(c, from, to), from \in Admitted <=> to \in Admitted,
         to = "resolve" => adm[c] = "Probe", calls' \in Nat
  PROVE  IInv'
<1>1. TypeOK'
  BY DEF IInv, TypeOK, Sample, Location
<1>2. CallsInOrder'
  BY DEF IInv, TypeOK, CallsInOrder, Sample
<1>3. ProbeExclusive' /\ InstantsSound'
  BY DEF IInv, ProbeExclusive, ProbeHolders, InstantsSound, Sample
<1> QED BY <1>1, <1>2, <1>3 DEF IInv

\* What a critical section has to leave behind for the invariant to hold.
LEMMA CriticalKeepsIInv ==
  ASSUME IInv, NEW c \in Callers, NEW in \in Inner,
         NEW to \in Location \ Sampling, NEW a \in Admission \union {NoAdmission},
         Critical(c, in, to, a),
         to \in Admitted <=> a # NoAdmission,
         in.state = "Closed" <=> in.openedAt = NoInstant,
         in.openedAt <= clock, in.headStart <= clock,
         a = "Probe" => \A d \in Callers \ {c} : adm[d] # "Probe",
         in.probeInFlight <=> \/ a = "Probe"
                              \/ \E d \in Callers \ {c} : adm[d] = "Probe",
         in.probeInFlight => in.state = "HalfOpen"
  PROVE  IInv'
<1>1. TypeOK'
  BY DEF IInv, TypeOK, Critical
<1>2. CallsInOrder'
  BY DEF IInv, TypeOK, CallsInOrder, Critical, Sampling
<1>3. ProbeExclusive'
  <2>1. \A d \in Callers : adm'[d] = IF d = c THEN a ELSE adm[d]
    BY DEF IInv, TypeOK, Critical
  <2>2. inner' = in
    BY DEF Critical
  <2>3. \A d, e \in Callers : adm'[d] = "Probe" /\ adm'[e] = "Probe" => d = e
    BY <2>1 DEF IInv, ProbeExclusive, ProbeHolders
  <2>4. in.probeInFlight <=> \E d \in Callers : adm'[d] = "Probe"
    BY <2>1
  <2> QED BY <2>2, <2>3, <2>4 DEF ProbeExclusive, ProbeHolders
<1>4. InstantsSound'
  BY DEF InstantsSound, Critical
<1> QED BY <1>1, <1>2, <1>3, <1>4 DEF IInv

\* The instants stay sound through Refresh and through any window movement.
LEMMA RefreshKeeps ==
  ASSUME IInv, NEW now \in Nat, now <= clock
  PROVE  LET r == Refresh(inner, now) IN
         /\ r \in Inner
         /\ r.state = "Closed" <=> r.openedAt = NoInstant
         /\ r.openedAt <= clock /\ r.headStart <= clock
         /\ r.probeInFlight = inner.probeInFlight
         /\ r.probeInFlight => r.state = "HalfOpen"
  BY RefreshFacts DEF IInv, TypeOK, InstantsSound, ProbeExclusive

LEMMA StepIInv == IInv /\ [Next]_vars => IInv'
<1> SUFFICES ASSUME IInv, [Next]_vars PROVE IInv'
  OBVIOUS
<1> USE DEF Location, Sampling, Admitted
<1>0. /\ inner \in Inner /\ clock \in Nat /\ calls \in Nat
      /\ \A c \in Callers : adm[c] \in Admission \union {NoAdmission}
  BY DEF IInv, TypeOK
<1>p. /\ \A c, d \in Callers : adm[c] = "Probe" /\ adm[d] = "Probe" => c = d
      /\ inner.probeInFlight <=> \E c \in Callers : adm[c] = "Probe"
      /\ inner.probeInFlight => inner.state = "HalfOpen"
  BY DEF IInv, ProbeExclusive, ProbeHolders
<1>i. /\ inner.state = "Closed" <=> inner.openedAt = NoInstant
      /\ inner.openedAt <= clock /\ inner.headStart <= clock
  BY DEF IInv, InstantsSound
<1>c. ASSUME NEW c \in Callers
      PROVE  /\ pc[c] \in Admitted <=> adm[c] # NoAdmission
             /\ pc[c] \in Sampling => sampled[c] \in Nat /\ sampled[c] <= clock
             /\ pc[c] = "resolve" => adm[c] = "Probe"
  BY DEF IInv, CallsInOrder
<1>1. CASE Tick
  <2>1. TypeOK' /\ ProbeExclusive'
    BY <1>1 DEF IInv, TypeOK, ProbeExclusive, ProbeHolders, Tick
  <2>2. CallsInOrder'
    BY <1>0, <1>1 DEF IInv, CallsInOrder, Tick
  <2>3. InstantsSound'
    BY <1>0, <1>1 DEF IInv, InstantsSound, Tick, Inner, NoInstant
  <2> QED BY <2>1, <2>2, <2>3 DEF IInv
<1>2. ASSUME NEW c \in Callers, CallState(c) \/ CallIsRoutable(c) PROVE IInv'
  <2>1. PICK to \in {"state", "is_routable"} : Start(c, to)
    BY <1>2 DEF CallState, CallIsRoutable
  <2> QED BY <1>0, <2>1, SampleKeepsIInv DEF Start
<1>3. ASSUME NEW c \in Callers, CallTryBegin(c) PROVE IInv'
  BY <1>0, <1>3, SampleKeepsIInv DEF CallTryBegin
<1>4. ASSUME NEW c \in Callers, CallResolve(c) PROVE IInv'
  BY <1>0, <1>4, SampleKeepsIInv DEF CallResolve
<1>5. ASSUME NEW c \in Callers, CallRecordSuccess(c) PROVE IInv'
  BY <1>0, <1>5, SampleKeepsIInv DEF CallRecordSuccess
<1>6. ASSUME NEW c \in Callers, CallRecordFailure(c) PROVE IInv'
  BY <1>0, <1>6, SampleKeepsIInv DEF CallRecordFailure
<1>7. ASSUME NEW c \in Callers, State(c) PROVE IInv'
  <2> DEFINE r == Refresh(inner, sampled[c])
  <2>1. pc[c] = "state" /\ Critical(c, r, "idle", NoAdmission)
    BY <1>7 DEF State
  <2>2. sampled[c] \in Nat /\ sampled[c] <= clock /\ adm[c] = NoAdmission
    BY <1>c, <2>1
  <2> HIDE DEF r
  <2> QED BY <1>0, <1>p, <2>1, <2>2, RefreshKeeps, CriticalKeepsIInv DEF r, NoAdmission
<1>8. ASSUME NEW c \in Callers, IsRoutable(c) PROVE IInv'
  <2> DEFINE r == Refresh(inner, sampled[c])
  <2>1. pc[c] = "is_routable"
        /\ \E to \in {"offered", "idle"} : Critical(c, r, to, NoAdmission)
    BY <1>8 DEF IsRoutable
  <2>2. sampled[c] \in Nat /\ sampled[c] <= clock /\ adm[c] = NoAdmission
    BY <1>c, <2>1
  <2> HIDE DEF r
  <2> QED BY <1>0, <1>p, <2>1, <2>2, RefreshKeeps, CriticalKeepsIInv DEF r, NoAdmission
<1>9. ASSUME NEW c \in Callers, GiveUp(c) PROVE IInv'
  <2>1. pc[c] = "offered" /\ Critical(c, inner, "idle", NoAdmission)
    BY <1>9 DEF GiveUp
  <2>2. adm[c] = NoAdmission
    BY <1>c, <2>1
  <2> QED BY <1>0, <1>p, <1>i, <2>1, <2>2, CriticalKeepsIInv DEF NoAdmission
<1>10. ASSUME NEW c \in Callers, TryBeginCall(c) PROVE IInv'
  <2> DEFINE r == Refresh(inner, sampled[c])
             in == TryBegin(inner, sampled[c])
             to == IF Admit(r) = NoAdmission THEN "idle" ELSE "holding"
  <2>1. pc[c] = "try_begin" /\ Critical(c, in, to, Admit(r))
    BY <1>10 DEF TryBeginCall
  <2>2. sampled[c] \in Nat /\ sampled[c] <= clock /\ adm[c] = NoAdmission
    BY <1>c, <2>1
  <2>3. /\ r.state = "Closed" <=> r.openedAt = NoInstant
        /\ r.openedAt <= clock /\ r.headStart <= clock
        /\ r.probeInFlight = inner.probeInFlight
        /\ r.probeInFlight => r.state = "HalfOpen"
        /\ r.openedAt = inner.openedAt /\ r.headStart = inner.headStart
    BY <1>0, <2>2, RefreshKeeps, RefreshFacts
  <2>4. /\ in \in Inner /\ in.state = r.state
        /\ in.openedAt = inner.openedAt /\ in.headStart = inner.headStart
        /\ Admit(r) \in Admission \union {NoAdmission}
        /\ Admit(r) = "Probe" => ~inner.probeInFlight /\ r.state = "HalfOpen"
                                   /\ in.probeInFlight = TRUE
        /\ Admit(r) # "Probe" => in.probeInFlight = inner.probeInFlight
    BY <1>0, <2>2, TryBeginFacts
  <2>5. to \in Location \ Sampling /\ (to \in Admitted <=> Admit(r) # NoAdmission)
    OBVIOUS
  <2> HIDE DEF r, in, to
  <2> QED BY <1>p, <2>1, <2>2, <2>3, <2>4, <2>5, CriticalKeepsIInv DEF NoAdmission
<1>11. ASSUME NEW c \in Callers, NEW a \in {"Normal", NoAdmission},
              NEW to \in Location \ Sampling, pc[c] \in {"resolve", "record_success"},
              to \in Admitted <=> a # NoAdmission,
              Critical(c, RecordSuccess(inner, adm[c], sampled[c]), to, a)
       PROVE  IInv'
  <2> DEFINE r == Refresh(inner, sampled[c])
             in == RecordSuccess(inner, adm[c], sampled[c])
  <2>1. sampled[c] \in Nat /\ sampled[c] <= clock /\ adm[c] \in Admission
    BY <1>0, <1>c, <1>11 DEF Admission, NoAdmission
  <2>2. /\ r.state = "Closed" <=> r.openedAt = NoInstant
        /\ r.probeInFlight = inner.probeInFlight
        /\ r.probeInFlight => r.state = "HalfOpen"
        /\ r.openedAt = inner.openedAt
    BY <1>0, <2>1, RefreshKeeps, RefreshFacts
  <2>3. CASE adm[c] = "Probe"
    <3>1. /\ in \in Inner /\ in.state = "Closed" /\ in.openedAt = NoInstant
          /\ in.probeInFlight = FALSE /\ in.headStart = sampled[c]
      <4>1. Refresh(inner, sampled[c]).state = "HalfOpen"
        BY <1>p, <2>2, <2>3
      <4>2. in = RecordSuccess(inner, "Probe", sampled[c])
        BY <2>3
      <4> HIDE DEF in
      <4> QED BY <1>0, <2>1, <4>1, <4>2, ProbeSuccess
    <3> HIDE DEF in
    <3> QED BY <1>0, <1>p, <1>11, <2>1, <2>3, <3>1, CriticalKeepsIInv
            DEF in, NoAdmission, NoInstant, Admission
  <2>4. CASE adm[c] # "Probe"
    <3>1. /\ in \in Inner /\ in.state = r.state /\ in.openedAt = inner.openedAt
          /\ in.probeInFlight = inner.probeInFlight
          /\ in.headStart <= sampled[c] \/ in.headStart = inner.headStart
      BY <1>0, <2>1, <2>4, PlainSuccess
    <3>2. in.headStart <= clock
      BY <1>0, <1>i, <2>1, <3>1 DEF Inner
    <3> HIDE DEF in, r
    <3> QED BY <1>0, <1>p, <1>i, <1>11, <2>2, <2>4, <3>1, <3>2, CriticalKeepsIInv
            DEF in, NoAdmission, Admission
  <2> QED BY <2>3, <2>4
<1>12. ASSUME NEW c \in Callers, RecordFailureCall(c) PROVE IInv'
  <2> DEFINE r == Refresh(inner, sampled[c])
             in == RecordFailure(inner, adm[c], sampled[c])
  <2>0. pc[c] = "record_failure" /\ Critical(c, in, "idle", NoAdmission)
    BY <1>12 DEF RecordFailureCall
  <2>1. sampled[c] \in Nat /\ sampled[c] <= clock /\ adm[c] \in Admission
    BY <1>0, <1>c, <2>0 DEF Admission, NoAdmission
  <2>2. /\ r.state = "Closed" <=> r.openedAt = NoInstant
        /\ r.probeInFlight = inner.probeInFlight
        /\ r.probeInFlight => r.state = "HalfOpen"
        /\ r.openedAt = inner.openedAt
    BY <1>0, <2>1, RefreshKeeps, RefreshFacts
  <2>3. CASE adm[c] = "Probe"
    <3>1. /\ in \in Inner /\ in.state = "Open" /\ in.openedAt = sampled[c]
          /\ in.probeInFlight = FALSE
          /\ in.headStart <= sampled[c] \/ in.headStart = inner.headStart
      <4>1. Refresh(inner, sampled[c]).state = "HalfOpen"
        BY <1>p, <2>2, <2>3
      <4>2. in = RecordFailure(inner, "Probe", sampled[c])
        BY <2>3
      <4> HIDE DEF in
      <4> QED BY <1>0, <2>1, <4>1, <4>2, ProbeFailure
    <3>2. in.headStart <= clock /\ in.openedAt # NoInstant
      BY <1>0, <1>i, <2>1, <3>1 DEF Inner, NoInstant
    <3> HIDE DEF in
    <3> QED BY <1>p, <2>0, <2>1, <2>3, <3>1, <3>2, CriticalKeepsIInv DEF NoAdmission
  <2>4. CASE adm[c] # "Probe"
    <3>1. /\ in \in Inner /\ in.probeInFlight = inner.probeInFlight
          /\ in.headStart <= sampled[c] \/ in.headStart = inner.headStart
          /\ \/ in.state = r.state /\ in.openedAt = inner.openedAt
             \/ r.state = "Closed" /\ in.state = "Open" /\ in.openedAt = sampled[c]
      BY <1>0, <2>1, <2>4, PlainFailure
    <3>2. in.headStart <= clock /\ in.openedAt <= clock
      BY <1>0, <1>i, <2>1, <3>1 DEF Inner
    <3>3. in.state = "Closed" <=> in.openedAt = NoInstant
      BY <2>1, <2>2, <3>1 DEF NoInstant
    <3> HIDE DEF in, r
    <3> QED BY <1>p, <2>0, <2>2, <2>4, <3>1, <3>2, <3>3, CriticalKeepsIInv DEF NoAdmission
  <2> QED BY <2>3, <2>4
<1>13. ASSUME NEW c \in Callers, AbandonCall(c) PROVE IInv'
  <2> DEFINE in == Abandon(inner, adm[c])
  <2>1. pc[c] = "holding" /\ Critical(c, in, "idle", NoAdmission)
    BY <1>13 DEF AbandonCall
  <2>2. adm[c] \in Admission
    BY <1>0, <1>c, <2>1
  <2>3. /\ in \in Inner /\ in.state = inner.state
        /\ in.openedAt = inner.openedAt /\ in.headStart = inner.headStart
        /\ adm[c] = "Probe" /\ inner.state = "HalfOpen" => in.probeInFlight = FALSE
        /\ adm[c] # "Probe" => in.probeInFlight = inner.probeInFlight
    BY <1>0, <2>2, AbandonFacts
  <2> HIDE DEF in
  <2> QED BY <1>p, <1>i, <2>1, <2>3, CriticalKeepsIInv DEF NoAdmission
<1>14. CASE UNCHANGED vars
  BY <1>14 DEF IInv, TypeOK, CallsInOrder, ProbeExclusive, ProbeHolders,
               InstantsSound, vars
<1>15. ASSUME NEW c \in Callers, Resolve(c) \/ RecordSuccessCall(c) PROVE IInv'
  BY <1>11, <1>15 DEF Resolve, RecordSuccessCall, NoAdmission
<1> QED BY <1>1, <1>2, <1>3, <1>4, <1>5, <1>6, <1>7, <1>8, <1>9, <1>10, <1>12,
           <1>13, <1>14, <1>15 DEF Next, LockStep, Finish, Quiet

-----------------------------------------------------------------------------
(* Safety of the specification *)

LEMMA InvariantIInv == Spec => []IInv
  BY InitIInv, StepIInv, PTL DEF Spec

\* Every reachable state is well-typed: in particular `head` stays inside the
\* ring through every rotation.
THEOREM TypeCorrect == Spec => []TypeOK
<1>1. IInv => TypeOK
  BY DEF IInv
<1> QED BY <1>1, InvariantIInv, PTL

\* Half-open admits exactly one probe request, for any number of callers and
\* any order in which their calls reach the lock.
THEOREM OneProbe == Spec => []ProbeExclusive
<1>1. IInv => ProbeExclusive
  BY DEF IInv
<1> QED BY <1>1, InvariantIInv, PTL

\* `opened_at` is set exactly while the circuit is not closed, and no stored
\* instant is in the future.
THEOREM SoundInstants == Spec => []InstantsSound
<1>1. IInv => InstantsSound
  BY DEF IInv
<1> QED BY <1>1, InvariantIInv, PTL

-----------------------------------------------------------------------------
(* What a step may do, and the contract *)

\* Observing the circuit moves it from open to half-open at most, and only
\* after the open period.
LEMMA RefreshEffect ==
  ASSUME IInv, NEW now \in Nat, now <= clock
  PROVE  LET r == Refresh(inner, now) IN
         /\ r.openedAt = inner.openedAt
         /\ \/ r.state = inner.state
            \/ /\ inner.state = "Open" /\ r.state = "HalfOpen"
               /\ clock >= inner.openedAt + OpenTicks
  BY RingSize, RefreshFacts DEF IInv, TypeOK, Inner, InstantsSound, NoInstant

\* The step of the contract that a step of the breaker is.
ContractStep == [Contract!Next]_(Contract!contractVars)

StepGoal == LeavesHalfOpenByProbe /\ KeepsOpenPeriod /\ ContractStep

\* A step that leaves every admission alone and at most ends the open period.
LEMMA ObservingStep ==
  ASSUME IInv, adm' = adm, inner'.openedAt = inner.openedAt,
         \/ inner'.state = inner.state
         \/ /\ inner.state = "Open" /\ inner'.state = "HalfOpen"
            /\ clock >= inner.openedAt + OpenTicks
  PROVE  StepGoal
<1>1. LeavesHalfOpenByProbe
  BY DEF LeavesHalfOpenByProbe
<1>2. KeepsOpenPeriod
  BY DEF KeepsOpenPeriod, IInv, TypeOK, Inner, CircuitState
<1>3. ContractStep
  <2>1. ProbeHolders' = ProbeHolders /\ NormalHolders' = NormalHolders
    BY DEF ProbeHolders, NormalHolders
  <2> QED BY <2>1 DEF ContractStep, Contract!Next, Contract!contractVars, Contract!CoolDown
<1> QED BY <1>1, <1>2, <1>3 DEF StepGoal

\* The sets the contract speaks of, after a critical section.
LEMMA HoldersAfter ==
  ASSUME IInv, NEW c \in Callers, NEW in, NEW to, NEW a, Critical(c, in, to, a)
  PROVE  /\ inner' = in /\ adm'[c] = a
         /\ ProbeHolders' = IF a = "Probe" THEN ProbeHolders \union {c} ELSE ProbeHolders \ {c}
         /\ NormalHolders' = IF a = "Normal" THEN NormalHolders \union {c} ELSE NormalHolders \ {c}
<1>1. \A d \in Callers : adm'[d] = IF d = c THEN a ELSE adm[d]
  BY DEF IInv, TypeOK, Critical
<1>2. inner' = in
  BY DEF Critical
<1> QED BY <1>1, <1>2 DEF ProbeHolders, NormalHolders

\* Every step of the breaker is a step of the contract, leaves half-open only
\* by the probe and keeps the open period.
LEMMA StepStepGoal == IInv /\ [Next]_vars => StepGoal
<1> SUFFICES ASSUME IInv, [Next]_vars PROVE StepGoal
  OBVIOUS
<1> USE DEF Location, Sampling, Admitted
<1>0. /\ inner \in Inner /\ clock \in Nat /\ inner.state \in CircuitState
      /\ \A c \in Callers : adm[c] \in Admission \union {NoAdmission}
  BY DEF IInv, TypeOK, Inner
<1>c. ASSUME NEW c \in Callers
      PROVE  /\ pc[c] \in Admitted <=> adm[c] # NoAdmission
             /\ pc[c] \in Sampling => sampled[c] \in Nat /\ sampled[c] <= clock
             /\ pc[c] = "resolve" => adm[c] = "Probe"
  BY DEF IInv, CallsInOrder
<1>p. ASSUME NEW c \in Callers, adm[c] = "Probe"
      PROVE  ProbeHolders = {c} /\ inner.state = "HalfOpen" /\ c \notin NormalHolders
  BY <1>p DEF IInv, ProbeExclusive, ProbeHolders, NormalHolders
<1>n. ASSUME NEW c \in Callers, adm[c] # "Probe" PROVE c \notin ProbeHolders
  BY <1>n DEF ProbeHolders
<1>1. ASSUME inner' = inner, adm' = adm PROVE StepGoal
  BY <1>1, ObservingStep
<1>2. CASE Tick \/ UNCHANGED vars
  BY <1>1, <1>2 DEF Tick, vars
<1>3. ASSUME NEW c \in Callers, NEW from, NEW to, Sample(c, from, to) PROVE StepGoal
  BY <1>1, <1>3 DEF Sample
<1>4. ASSUME NEW c \in Callers, NEW to, pc[c] \in {"state", "is_routable"},
             Critical(c, Refresh(inner, sampled[c]), to, NoAdmission)
      PROVE  StepGoal
  <2>1. adm' = adm
    BY <1>c, <1>4 DEF Critical, IInv, TypeOK
  <2>2. sampled[c] \in Nat /\ sampled[c] <= clock
    BY <1>c, <1>4
  <2>3. inner' = Refresh(inner, sampled[c])
    BY <1>4 DEF Critical
  <2> QED BY <2>1, <2>2, <2>3, RefreshEffect, ObservingStep
<1>5. ASSUME NEW c \in Callers, GiveUp(c) PROVE StepGoal
  <2>1. adm' = adm /\ inner' = inner
    BY <1>c, <1>5 DEF GiveUp, Critical, IInv, TypeOK
  <2> QED BY <1>1, <2>1
<1>6. ASSUME NEW c \in Callers, TryBeginCall(c) PROVE StepGoal
  <2> DEFINE r == Refresh(inner, sampled[c])
             in == TryBegin(inner, sampled[c])
             to == IF Admit(r) = NoAdmission THEN "idle" ELSE "holding"
  <2>1. pc[c] = "try_begin" /\ Critical(c, in, to, Admit(r))
    BY <1>6 DEF TryBeginCall
  <2>2. sampled[c] \in Nat /\ sampled[c] <= clock /\ adm[c] = NoAdmission
    BY <1>c, <2>1
  <2>3. /\ r.openedAt = inner.openedAt
        /\ \/ r.state = inner.state
           \/ /\ inner.state = "Open" /\ r.state = "HalfOpen"
              /\ clock >= inner.openedAt + OpenTicks
    BY <2>2, RefreshEffect
  <2>4. /\ in.state = r.state /\ in.openedAt = inner.openedAt
        /\ Admit(r) \in Admission \union {NoAdmission}
        /\ Admit(r) = "Normal" <=> r.state = "Closed"
        /\ Admit(r) = "Probe" => ~inner.probeInFlight /\ r.state = "HalfOpen"
    BY <1>0, <2>2, TryBeginFacts
  <2> HIDE DEF r, in, to
  <2>5. /\ inner' = in /\ adm'[c] = Admit(r)
        /\ ProbeHolders' = IF Admit(r) = "Probe" THEN ProbeHolders \union {c} ELSE ProbeHolders \ {c}
        /\ NormalHolders' = IF Admit(r) = "Normal" THEN NormalHolders \union {c} ELSE NormalHolders \ {c}
    BY <2>1, HoldersAfter
  <2>6. c \notin ProbeHolders /\ c \notin NormalHolders
    BY <2>2 DEF ProbeHolders, NormalHolders, NoAdmission
  <2>7. LeavesHalfOpenByProbe
    BY <2>3, <2>4, <2>5 DEF LeavesHalfOpenByProbe
  <2>8. KeepsOpenPeriod
    BY <2>3, <2>4, <2>5 DEF KeepsOpenPeriod
  <2>9. ContractStep
    <3>1. CASE Admit(r) = "Normal"
      <4>1. Contract!AdmitNormal(c)
        BY <2>3, <2>4, <2>5, <2>6, <3>1 DEF Contract!AdmitNormal
      <4> QED BY <4>1 DEF ContractStep, Contract!Next
    <3>2. CASE Admit(r) = "Probe"
      <4>1. ProbeHolders = {}
        BY <2>4, <3>2 DEF IInv, ProbeExclusive
      <4>2. Contract!AdmitProbe(c)
        BY <2>3, <2>4, <2>5, <2>6, <3>2, <4>1 DEF Contract!AdmitProbe
      <4> QED BY <4>2 DEF ContractStep, Contract!Next
    <3>3. CASE Admit(r) = NoAdmission
      <4>1. ProbeHolders' = ProbeHolders /\ NormalHolders' = NormalHolders
        BY <2>5, <2>6, <3>3 DEF NoAdmission
      <4> QED BY <2>3, <2>4, <2>5, <4>1
              DEF ContractStep, Contract!Next, Contract!contractVars, Contract!CoolDown
    <3> QED BY <2>4, <3>1, <3>2, <3>3 DEF Admission
  <2> QED BY <2>7, <2>8, <2>9 DEF StepGoal
<1>7. ASSUME NEW c \in Callers, NEW a \in {"Normal", NoAdmission}, NEW to,
             adm[c] = "Probe", pc[c] \in {"resolve", "record_success"},
             Critical(c, RecordSuccess(inner, adm[c], sampled[c]), to, a)
      PROVE  StepGoal
  <2> DEFINE in == RecordSuccess(inner, "Probe", sampled[c])
  <2>1. sampled[c] \in Nat /\ sampled[c] <= clock
    BY <1>c, <1>7
  <2>2. Refresh(inner, sampled[c]).state = "HalfOpen"
    BY <1>p, <1>7, <2>1, RefreshEffect
  <2>3. in.state = "Closed"
    BY <1>0, <2>1, <2>2, ProbeSuccess
  <2>4. Critical(c, in, to, a)
    BY <1>7
  <2> HIDE DEF in
  <2>5. /\ inner' = in /\ adm'[c] = a
        /\ ProbeHolders' = ProbeHolders \ {c}
        /\ NormalHolders' = IF a = "Normal" THEN NormalHolders \union {c} ELSE NormalHolders \ {c}
    BY <2>4, HoldersAfter DEF NoAdmission
  <2>6. LeavesHalfOpenByProbe
    BY <1>7, <2>3, <2>5 DEF LeavesHalfOpenByProbe, ProbeHolders, NoAdmission
  <2>7. KeepsOpenPeriod
    BY <1>p, <1>7 DEF KeepsOpenPeriod
  <2>8. Contract!PassProbe(c)
    BY <1>p, <1>7, <2>3, <2>5 DEF Contract!PassProbe
  <2> QED BY <2>6, <2>7, <2>8 DEF StepGoal, ContractStep, Contract!Next
<1>8. ASSUME NEW c \in Callers, adm[c] = "Normal", pc[c] = "record_success",
             Critical(c, RecordSuccess(inner, adm[c], sampled[c]), "idle", NoAdmission)
      PROVE  StepGoal
  <2> DEFINE in == RecordSuccess(inner, adm[c], sampled[c])
             r == Refresh(inner, sampled[c])
  <2>1. sampled[c] \in Nat /\ sampled[c] <= clock
    BY <1>c, <1>8
  <2>2. /\ r.openedAt = inner.openedAt
        /\ \/ r.state = inner.state
           \/ /\ inner.state = "Open" /\ r.state = "HalfOpen"
              /\ clock >= inner.openedAt + OpenTicks
    BY <2>1, RefreshEffect
  <2>3. in.state = r.state /\ in.openedAt = inner.openedAt
    BY <1>0, <1>8, <2>1, PlainSuccess DEF Admission
  <2> HIDE DEF in, r
  <2>4. /\ inner' = in
        /\ ProbeHolders' = ProbeHolders \ {c} /\ NormalHolders' = NormalHolders \ {c}
    BY <1>8, HoldersAfter DEF in, NoAdmission
  <2>5. c \in NormalHolders /\ c \notin ProbeHolders
    BY <1>8 DEF NormalHolders, ProbeHolders
  <2>6. LeavesHalfOpenByProbe /\ KeepsOpenPeriod
    BY <2>2, <2>3, <2>4 DEF LeavesHalfOpenByProbe, KeepsOpenPeriod
  <2>7. Contract!LeaveNormal(c)
    BY <1>0, <2>2, <2>3, <2>4, <2>5
       DEF Contract!LeaveNormal, Contract!Drift, CircuitState
  <2> QED BY <2>6, <2>7 DEF StepGoal, ContractStep, Contract!Next
<1>9. ASSUME NEW c \in Callers, adm[c] = "Probe", RecordFailureCall(c) PROVE StepGoal
  <2> DEFINE in == RecordFailure(inner, "Probe", sampled[c])
  <2>0. pc[c] = "record_failure" /\ Critical(c, in, "idle", NoAdmission)
    BY <1>9 DEF RecordFailureCall
  <2>1. sampled[c] \in Nat /\ sampled[c] <= clock
    BY <1>c, <2>0
  <2>2. Refresh(inner, sampled[c]).state = "HalfOpen"
    BY <1>p, <1>9, <2>1, RefreshEffect
  <2>3. in.state = "Open"
    BY <1>0, <2>1, <2>2, ProbeFailure
  <2> HIDE DEF in
  <2>5. /\ inner' = in /\ adm'[c] = NoAdmission
        /\ ProbeHolders' = ProbeHolders \ {c} /\ NormalHolders' = NormalHolders \ {c}
    BY <2>0, HoldersAfter DEF NoAdmission
  <2>6. LeavesHalfOpenByProbe
    BY <1>9, <2>0, <2>3, <2>5 DEF LeavesHalfOpenByProbe, ProbeHolders, NoAdmission
  <2>7. KeepsOpenPeriod
    BY <1>p, <1>9 DEF KeepsOpenPeriod
  <2>8. Contract!FailProbe(c)
    BY <1>p, <1>9, <2>3, <2>5 DEF Contract!FailProbe
  <2> QED BY <2>6, <2>7, <2>8 DEF StepGoal, ContractStep, Contract!Next
<1>10. ASSUME NEW c \in Callers, adm[c] = "Normal", RecordFailureCall(c) PROVE StepGoal
  <2> DEFINE in == RecordFailure(inner, adm[c], sampled[c])
             r == Refresh(inner, sampled[c])
  <2>0. pc[c] = "record_failure" /\ Critical(c, in, "idle", NoAdmission)
    BY <1>10 DEF RecordFailureCall
  <2>1. sampled[c] \in Nat /\ sampled[c] <= clock
    BY <1>c, <2>0
  <2>2. /\ r.openedAt = inner.openedAt
        /\ \/ r.state = inner.state
           \/ /\ inner.state = "Open" /\ r.state = "HalfOpen"
              /\ clock >= inner.openedAt + OpenTicks
    BY <2>1, RefreshEffect
  <2>3. \/ in.state = r.state /\ in.openedAt = inner.openedAt
        \/ r.state = "Closed" /\ in.state = "Open"
    BY <1>0, <1>10, <2>1, PlainFailure DEF Admission
  <2> HIDE DEF in, r
  <2>4. /\ inner' = in
        /\ ProbeHolders' = ProbeHolders \ {c} /\ NormalHolders' = NormalHolders \ {c}
    BY <2>0, HoldersAfter DEF NoAdmission
  <2>5. c \in NormalHolders /\ c \notin ProbeHolders
    BY <1>10 DEF NormalHolders, ProbeHolders
  <2>6. LeavesHalfOpenByProbe /\ KeepsOpenPeriod
    BY <2>2, <2>3, <2>4 DEF LeavesHalfOpenByProbe, KeepsOpenPeriod
  <2>7. Contract!LeaveNormal(c)
    BY <1>0, <2>2, <2>3, <2>4, <2>5
       DEF Contract!LeaveNormal, Contract!Drift, CircuitState
  <2> QED BY <2>6, <2>7 DEF StepGoal, ContractStep, Contract!Next
<1>11. ASSUME NEW c \in Callers, AbandonCall(c) PROVE StepGoal
  <2> DEFINE in == Abandon(inner, adm[c])
  <2>1. pc[c] = "holding" /\ Critical(c, in, "idle", NoAdmission)
    BY <1>11 DEF AbandonCall
  <2>2. adm[c] \in Admission
    BY <1>0, <1>c, <2>1
  <2>3. in.state = inner.state /\ in.openedAt = inner.openedAt
    BY <1>0, <2>2, AbandonFacts
  <2> HIDE DEF in
  <2>4. /\ inner' = in
        /\ ProbeHolders' = ProbeHolders \ {c} /\ NormalHolders' = NormalHolders \ {c}
    BY <2>1, HoldersAfter DEF NoAdmission
  <2>5. LeavesHalfOpenByProbe /\ KeepsOpenPeriod
    BY <1>0, <2>3, <2>4 DEF LeavesHalfOpenByProbe, KeepsOpenPeriod
  <2>6. CASE adm[c] = "Probe"
    <3>1. Contract!ReturnProbe(c)
      BY <1>p, <2>3, <2>4, <2>6 DEF Contract!ReturnProbe
    <3> QED BY <2>5, <3>1 DEF StepGoal, ContractStep, Contract!Next
  <2>7. CASE adm[c] = "Normal"
    <3>1. c \in NormalHolders /\ c \notin ProbeHolders
      BY <2>7 DEF NormalHolders, ProbeHolders
    <3>2. Contract!LeaveNormal(c)
      BY <1>0, <2>3, <2>4, <3>1
         DEF Contract!LeaveNormal, Contract!Drift, CircuitState
    <3> QED BY <2>5, <3>2 DEF StepGoal, ContractStep, Contract!Next
  <2> QED BY <2>2, <2>6, <2>7 DEF Admission
<1>12. ASSUME NEW c \in Callers, State(c) \/ IsRoutable(c) PROVE StepGoal
  BY <1>4, <1>12 DEF State, IsRoutable
<1>13. ASSUME NEW c \in Callers, Resolve(c) PROVE StepGoal
  BY <1>7, <1>13, <1>c DEF Resolve
<1>14. ASSUME NEW c \in Callers, RecordSuccessCall(c) PROVE StepGoal
  <2>1. adm[c] \in Admission
    BY <1>0, <1>c, <1>14 DEF RecordSuccessCall, NoAdmission
  <2> QED BY <1>7, <1>8, <1>14, <2>1 DEF RecordSuccessCall, Admission
<1>15. ASSUME NEW c \in Callers, RecordFailureCall(c) PROVE StepGoal
  <2>1. adm[c] \in Admission
    BY <1>0, <1>c, <1>15 DEF RecordFailureCall, NoAdmission
  <2> QED BY <1>9, <1>10, <1>15, <2>1 DEF Admission
<1>16. ASSUME NEW c \in Callers,
              \/ CallState(c) \/ CallIsRoutable(c) \/ CallTryBegin(c)
              \/ CallResolve(c) \/ CallRecordSuccess(c) \/ CallRecordFailure(c)
       PROVE  StepGoal
  BY <1>3, <1>16 DEF CallState, CallIsRoutable, Start, CallTryBegin, CallResolve,
                     CallRecordSuccess, CallRecordFailure
<1> QED BY <1>2, <1>5, <1>6, <1>11, <1>12, <1>13, <1>14, <1>15, <1>16
        DEF Next, LockStep, Finish, Quiet

LEMMA InitContract == Init => Contract!Init
  BY DEF Init, Contract!Init, New, ProbeHolders, NormalHolders, NoAdmission

\* Nothing but the probe's own verdict takes a half-open circuit anywhere.
THEOREM ProbeVerdictDecides == Spec => OnlyProbeDecides
<1>1. IInv /\ [Next]_vars => [LeavesHalfOpenByProbe]_vars
  BY StepStepGoal DEF StepGoal
<1> QED BY <1>1, InvariantIInv, PTL DEF Spec, OnlyProbeDecides

\* No late verdict moves `opened_at` or ends the open period early.
THEOREM OpenPeriodKept == Spec => OpenPeriodFixed
<1>1. IInv /\ [Next]_vars => [KeepsOpenPeriod]_vars
  BY StepStepGoal DEF StepGoal
<1> QED BY <1>1, InvariantIInv, PTL DEF Spec, OpenPeriodFixed

\* The breaker implements the contract: its callers may reason with phases and
\* holders and forget clocks, windows and locks.
THEOREM Implements == Spec => MeetsContract
<1>1. IInv /\ [Next]_vars => [Contract!Next]_(Contract!contractVars)
  BY StepStepGoal DEF StepGoal, ContractStep
<1> QED BY <1>1, InitContract, InvariantIInv, PTL DEF Spec, MeetsContract, Contract!Spec

-----------------------------------------------------------------------------
(* The window is the end of the log *)

\* One turn of the ring at most: then a remainder is a sum.
LEMMA OneTurn ==
  ASSUME NEW n \in Nat \ {0}, NEW x \in Int
  PROVE  /\ 0 <= x /\ x < n => x % n = x
         /\ n <= x /\ x < 2 * n => x % n = x - n
         /\ -n <= x /\ x < 0 => x % n = x + n
<1>1. \A q, y \in Int : x = q * n + y /\ 0 <= y /\ y < n => x % n = y
  OBVIOUS
<1>2. ASSUME 0 <= x, x < n PROVE x % n = x
  BY <1>1, <1>2, x = 0 * n + x
<1>3. ASSUME n <= x, x < 2 * n PROVE x % n = x - n
  BY <1>1, <1>3, x = 1 * n + (x - n)
<1>4. ASSUME -n <= x, x < 0 PROVE x % n = x + n
  BY <1>1, <1>4, x = (-1) * n + (x + n)
<1> QED
  BY <1>2, <1>3, <1>4

\* x is in the q-th interval of length n.
InInterval(x, n, q) == q * n <= x /\ x < (q + 1) * n

LEMMA QuotientInterval ==
  ASSUME NEW x \in Nat, NEW n \in Nat \ {0}
  PROVE  x \div n \in Nat /\ InInterval(x, n, x \div n)
  BY DEF InInterval

LEMMA QuotientUnique ==
  ASSUME NEW x \in Nat, NEW n \in Nat \ {0}, NEW q \in Int, InInterval(x, n, q)
  PROVE  x \div n = q
  BY DEF InInterval

\* Places of a ring of n buckets whose head moves from `head` to h by s.
Wrap(x, n) == IF x < 0 THEN x + n ELSE IF x < n THEN x ELSE x - n

Places(n, head, s, h, j) ==
  /\ j < s => Wrap(h - j, n) = Wrap(head + (s - j), n)
  /\ s <= j => /\ Wrap(h - j, n) = Wrap(head - (j - s), n)
               /\ \A k \in 1 .. s : Wrap(h - j, n) # Wrap(head + k, n)

LEMMA RingPlaces ==
  ASSUME NEW n \in Nat \ {0}, NEW head \in 0 .. n - 1, NEW s \in 0 .. n,
         NEW h \in Int, h = Wrap(head + s, n), NEW j \in 0 .. n - 1
  PROVE  Places(n, head, s, h, j)
  BY DEF Wrap, Places

\* The bucket of j seconds before the newest one.
Back(in, j) == in.buckets[(in.head - j) % NumBuckets]

LEMMA BackFacts ==
  ASSUME NEW head \in BucketIds, NEW j \in BucketIds
  PROVE  /\ (head - j) % NumBuckets \in BucketIds
         /\ (head - j) % NumBuckets = Wrap(head - j, NumBuckets)
<1>1. /\ NumBuckets \in Nat \ {0} /\ head \in Nat /\ j \in Nat
      /\ head < NumBuckets /\ j < NumBuckets /\ head - j \in Int
  BY RingSize DEF BucketIds
<1>2. /\ 0 <= head - j /\ head - j < NumBuckets => (head - j) % NumBuckets = head - j
      /\ -NumBuckets <= head - j /\ head - j < 0
           => (head - j) % NumBuckets = head - j + NumBuckets
  BY <1>1, OneTurn
<1>3. (head - j) % NumBuckets = Wrap(head - j, NumBuckets)
  BY <1>1, <1>2 DEF Wrap
<1> QED
  BY <1>1, <1>3 DEF BucketIds, Wrap

\* Rotating by e seconds moves every bucket e places back and lets those of the
\* seconds that were skipped, and of the new one, start at 0.
LEMMA RotateMoves ==
  ASSUME NEW in \in Inner, NEW now \in Nat, NEW e \in Nat,
         e = Since(now, in.headStart) \div TicksPerSec
  PROVE  /\ Rotate(in, now).headStart = in.headStart + e * TicksPerSec
         /\ \A j \in BucketIds :
              Back(Rotate(in, now), j) = IF j < e THEN EmptyBucket ELSE Back(in, j - e)
<1> DEFINE n == NumBuckets
           s == IF e < n THEN e ELSE n
           h == (in.head + s) % n
           b == [i \in BucketIds |-> IF \E k \in 1 .. s : i = (in.head + k) % n
                                     THEN EmptyBucket ELSE in.buckets[i]]
           r == Rotate(in, now)
<1>1. r.head = h /\ r.buckets = b /\ r.headStart = in.headStart + e * TicksPerSec
  BY DEF Rotate, Inner
<1>2. /\ n \in Nat \ {0} /\ BucketIds = 0 .. n - 1 /\ in.head \in BucketIds
      /\ in.head \in 0 .. n - 1 /\ s \in 0 .. n
  BY RingSize DEF BucketIds, Inner
<1>3. ASSUME NEW k \in 0 .. s
      PROVE  (in.head + k) % n = Wrap(in.head + k, n)
  <2>1. in.head + k \in Int /\ 0 <= in.head + k /\ in.head + k < 2 * n
    BY <1>2
  <2> HIDE DEF n, s
  <2> QED
    BY <1>2, <2>1, OneTurn DEF Wrap
<1>4. h = Wrap(in.head + s, n) /\ h \in BucketIds
  <2>1. s \in 0 .. s
    BY <1>2
  <2>2. h = Wrap(in.head + s, n)
    BY <1>3, <2>1
  <2> HIDE DEF h, s, n
  <2> QED
    BY <1>2, <2>2 DEF Wrap
<1>5. ASSUME NEW j \in BucketIds
      PROVE  Back(r, j) = IF j < e THEN EmptyBucket ELSE Back(in, j - e)
  <2> DEFINE i == (h - j) % n
  <2>1. i \in BucketIds /\ i = Wrap(h - j, n)
    BY <1>4, BackFacts
  <2>2. Back(r, j) = b[i]
    BY <1>1 DEF Back
  <2>6. /\ j < s => Wrap(h - j, n) = Wrap(in.head + (s - j), n)
        /\ s <= j => /\ Wrap(h - j, n) = Wrap(in.head - (j - s), n)
                     /\ \A k \in 1 .. s : Wrap(h - j, n) # Wrap(in.head + k, n)
    <3>1. h \in Int /\ j \in 0 .. n - 1
      BY <1>2, <1>4
    <3> HIDE DEF h, s, n
    <3>2. Places(n, in.head, s, h, j)
      BY <1>2, <1>4, <3>1, RingPlaces
    <3> QED
      BY <3>2 DEF Places
  <2>3. CASE j < e
    <3>1. j < s /\ j \in 0 .. n - 1
      BY <1>2, <2>3
    <3>2. s - j \in 1 .. s /\ s - j \in 0 .. s
      BY <1>2, <3>1
    <3>3. i = (in.head + (s - j)) % n
      <4>1. (in.head + (s - j)) % n = Wrap(in.head + (s - j), n)
        BY <1>3, <3>2
      <4> HIDE DEF h, s, i, n
      <4> QED
        BY <1>2, <1>4, <2>1, <2>6, <3>1, <4>1
    <3>4. b[i] = EmptyBucket
      <4> HIDE DEF i, s
      <4> QED
        BY <2>1, <3>2, <3>3
    <3> QED
      BY <2>2, <2>3, <3>4
  <2>4. CASE ~(j < e)
    <3>1. s = e /\ e <= j /\ j - e \in BucketIds /\ j \in 0 .. n - 1
      BY <1>2, <2>4
    <3>2. (in.head - (j - e)) % n = Wrap(in.head - (j - e), n)
      BY <1>2, <3>1, BackFacts
    <3> HIDE DEF h, s, i, n
    <3>3. i = (in.head - (j - e)) % n
      BY <2>1, <2>6, <3>1, <3>2
    <3>4. ASSUME NEW k \in 1 .. s PROVE i # (in.head + k) % n
      <4>1. k \in 0 .. s /\ k \in Int /\ 1 <= k /\ k <= e
        BY <3>1
      <4>2. (in.head + k) % n = Wrap(in.head + k, n)
        BY <1>3, <4>1
      <4> QED
        BY <2>1, <2>6, <3>1, <4>2
    <3>5. b[i] = in.buckets[i]
      BY <2>1, <3>4
    <3>6. Back(in, j - e) = in.buckets[i]
      BY <3>3 DEF Back, n
    <3> QED
      BY <2>2, <2>4, <3>5, <3>6
  <2> QED
    BY <2>3, <2>4
<1> QED
  BY <1>1, <1>5

Log == [base : Nat, cur : Seconds, counts : [Seconds -> Bucket]]

\* A log has nothing in the seconds to come, and the window shows its end.
LogGood(l) ==
  /\ l \in Log
  /\ \A s \in Seconds : s > l.cur => l.counts[s] = EmptyBucket

Matches(in, l) ==
  /\ in.headStart = l.base + l.cur * TicksPerSec
  /\ \A j \in BucketIds :
       Back(in, j) = IF j <= l.cur THEN l.counts[l.cur - j] ELSE EmptyBucket

LEMMA SecondsFacts ==
  ASSUME NEW l, LogGood(l)
  PROVE  /\ l.cur \in Nat /\ \A s \in Seconds : s \in Nat
         /\ l.counts \in [Seconds -> Bucket]
         /\ \A j \in Nat : j <= l.cur => l.cur - j \in Seconds
<1> DEFINE m == MaxClock \div TicksPerSec
<1>1. m \in Int /\ Seconds = 0 .. m
  BY BreakerAssumption, CallerAssumption DEF Seconds
<1>2. l.cur \in Seconds /\ l.counts \in [Seconds -> Bucket]
  BY DEF LogGood, Log
<1> HIDE DEF m
<1> QED
  BY <1>1, <1>2

\* e whole seconds of length t have passed since the second cur after base.
Passed(t, base, cur, now, e) == e = Since(now, base + cur * t) \div t

Advanced(t, base, cur, now, e) ==
  /\ e \in Nat
  /\ Max({cur, Since(now, base) \div t}) = cur + e
  /\ e = 0 \/ base + (cur + e) * t <= now

\* Whole seconds since base are those up to the head, and those since.
LEMMA SecondsAdd ==
  ASSUME NEW t \in Nat \ {0}, NEW base \in Nat, NEW cur \in Nat, NEW now \in Nat,
         NEW e \in Int, Passed(t, base, cur, now, e)
  PROVE  Advanced(t, base, cur, now, e)
<1> USE DEF Passed, Advanced
<1> DEFINE m == cur * t
           x == Since(now, base)
           d == x \div t
<1>1. m \in Nat
  OBVIOUS
<1>2. x \in Nat
  BY DEF Since
<1>3. d \in Nat /\ d * t <= x /\ x < (d + 1) * t
  <2> HIDE DEF x
  <2> QED
    BY <1>2, QuotientInterval DEF InInterval
<1>4. CASE now >= base + m
  <2>1. Since(now, base + m) = x - m /\ x = now - base /\ x - m \in Nat
    BY <1>1, <1>4 DEF Since
  <2>2. e * t <= x - m /\ x - m < (e + 1) * t /\ e \in Nat
    <3> DEFINE y == x - m
    <3>1. y \in Nat /\ e = y \div t
      BY <2>1
    <3> HIDE DEF y, m, x
    <3>2. e * t <= y /\ y < (e + 1) * t /\ e \in Nat
      BY <3>1, QuotientInterval DEF InInterval
    <3> QED
      BY <3>2 DEF y
  <2>3. (cur + e) * t = m + e * t /\ (cur + e + 1) * t = m + (e + 1) * t
    BY <2>2
  <2> DEFINE u == e * t
             v == (e + 1) * t
  <2>4. u \in Int /\ v \in Int
    BY <2>2
  <2>5. (cur + e) * t <= x /\ x < (cur + e + 1) * t
    <3> HIDE DEF m, u, v, x
    <3> QED
      BY <1>1, <1>2, <2>2, <2>3, <2>4 DEF u, v
  <2>6. d = cur + e
    <3>1. cur + e \in Int /\ InInterval(x, t, cur + e)
      BY <2>2, <2>5 DEF InInterval
    <3> HIDE DEF x
    <3> QED
      BY <1>2, <3>1, QuotientUnique
  <2>7. Max({cur, d}) = cur + e
    <3> HIDE DEF d
    <3> QED
      BY <1>3, <2>2, <2>6, MaxOfTwo
  <2>8. base + (cur + e) * t <= now
    <3> DEFINE w == (cur + e) * t
    <3>1. w \in Int
      BY <2>2
    <3> HIDE DEF w, x
    <3> QED
      BY <2>1, <2>5, <3>1 DEF w
  <2> QED
    BY <2>2, <2>7, <2>8
<1>5. CASE now < base + m
  <2>1. Since(now, base + m) = 0 /\ (x < m \/ x = 0)
    BY <1>1, <1>5 DEF Since
  <2>2. e = 0
    <3>1. InInterval(0, t, 0)
      BY DEF InInterval
    <3> QED
      BY <2>1, <3>1, QuotientUnique
  <2>3. d <= cur
    <3> SUFFICES ASSUME d > cur PROVE FALSE
      BY <1>3
    <3>1. d * t >= (cur + 1) * t
      BY <1>3
    <3>2. (cur + 1) * t = m + t
      OBVIOUS
    <3> DEFINE w == d * t
    <3>3. w \in Int
      BY <1>3
    <3> HIDE DEF w, m, x
    <3> QED
      BY <1>1, <1>2, <1>3, <2>1, <3>1, <3>2, <3>3 DEF w
  <2> HIDE DEF d
  <2> QED
    BY <1>3, <2>2, <2>3, MaxOfTwo DEF d
<1> QED
  BY <1>1, <1>4, <1>5

\* Rotating the ring is advancing the log.
LEMMA RotateMatches ==
  ASSUME NEW in \in Inner, NEW l, LogGood(l), Matches(in, l),
         NEW now \in Nat, now <= MaxClock
  PROVE  LogGood(Advance(l, now)) /\ Matches(Rotate(in, now), Advance(l, now))
<1> DEFINE e == Since(now, in.headStart) \div TicksPerSec
           k == Advance(l, now)
           r == Rotate(in, now)
<1>1. /\ TicksPerSec \in Nat \ {0} /\ MaxClock \in Nat
      /\ l.base \in Nat /\ l.cur \in Seconds /\ l.cur \in Nat /\ l.counts \in [Seconds -> Bucket]
      /\ in.headStart \in Nat /\ in.headStart = l.base + l.cur * TicksPerSec
  BY BreakerAssumption, CallerAssumption DEF LogGood, Log, Seconds, Inner, Matches
<1>2. /\ e \in Nat
      /\ Max({l.cur, Since(now, l.base) \div TicksPerSec}) = l.cur + e
      /\ e = 0 \/ l.base + (l.cur + e) * TicksPerSec <= now
  <2>1. e = Since(now, l.base + l.cur * TicksPerSec) \div TicksPerSec /\ e \in Int
    <3>1. Since(now, in.headStart) \in Nat
      BY <1>1, SinceFacts
    <3> QED
      BY <1>1, <3>1, DivFacts
  <2> HIDE DEF e
  <2>2. Passed(TicksPerSec, l.base, l.cur, now, e)
    BY <2>1 DEF Passed
  <2>3. Advanced(TicksPerSec, l.base, l.cur, now, e)
    BY <1>1, <2>1, <2>2, SecondsAdd
  <2> QED
    BY <2>3 DEF Advanced
<1>3. k = [l EXCEPT !.cur = l.cur + e]
  BY <1>2 DEF Advance
<1>4. l.cur + e \in Seconds
  <2>1. CASE e = 0
    BY <1>1, <2>1
  <2>2. CASE l.base + (l.cur + e) * TicksPerSec <= now
    <3> DEFINE q == l.cur + e
               w == q * TicksPerSec
               m == MaxClock \div TicksPerSec
    <3>1. q \in Nat /\ w \in Nat
      <4> HIDE DEF e
      <4> QED
        BY <1>1, <1>2
    <3>2. w <= MaxClock
      <4> HIDE DEF w
      <4> QED
        BY <1>1, <2>2, <3>1 DEF w
    <3>3. m \in Nat /\ MaxClock < (m + 1) * TicksPerSec
      <4>1. m \in Nat /\ InInterval(MaxClock, TicksPerSec, m)
        BY <1>1, QuotientInterval
      <4> HIDE DEF m
      <4> QED
        BY <4>1 DEF InInterval
    <3> HIDE DEF q, m
    <3>4. q <= m
      <4> SUFFICES ASSUME q >= m + 1 PROVE FALSE
        BY <3>1, <3>3
      <4>1. w >= (m + 1) * TicksPerSec
        BY <1>1, <3>1, <3>3
      <4> DEFINE z == (m + 1) * TicksPerSec
      <4>2. z \in Int
        BY <1>1, <3>3
      <4> HIDE DEF z, w
      <4> QED
        BY <1>1, <3>1, <3>2, <3>3, <4>1, <4>2 DEF z
    <3> QED
      BY <3>1, <3>3, <3>4 DEF Seconds, q, m
  <2> HIDE DEF e
  <2> QED
    BY <1>2, <2>1, <2>2
<1>5. /\ r.headStart = in.headStart + e * TicksPerSec
      /\ \A j \in BucketIds : Back(r, j) = IF j < e THEN EmptyBucket ELSE Back(in, j - e)
  <2> HIDE DEF e, r
  <2> QED
    BY <1>2, RotateMoves DEF e, r
<1> HIDE DEF e, k, r
<1>6. /\ k \in Log /\ k.base = l.base /\ k.cur = l.cur + e /\ k.counts = l.counts
  BY <1>1, <1>3, <1>4 DEF LogGood, Log
<1>7. LogGood(k)
  <2>1. \A s \in Seconds : s \in Nat
    BY <1>1 DEF Seconds
  <2> QED
    BY <1>1, <1>2, <1>6, <2>1 DEF LogGood
<1>8. r.headStart = k.base + k.cur * TicksPerSec
  <2>1. (l.cur + e) * TicksPerSec = l.cur * TicksPerSec + e * TicksPerSec
    BY <1>1, <1>2
  <2>2. l.cur * TicksPerSec \in Nat /\ e * TicksPerSec \in Nat
    BY <1>1, <1>2
  <2> QED
    BY <1>1, <1>5, <1>6, <2>1, <2>2
<1>9. ASSUME NEW j \in BucketIds
      PROVE  Back(r, j) = IF j <= k.cur THEN k.counts[k.cur - j] ELSE EmptyBucket
  <2>1. j \in Nat /\ BucketIds = 0 .. NumBuckets - 1 /\ NumBuckets \in Nat
    BY RingSize DEF BucketIds
  <2>2. CASE j < e
    <3>1. j <= k.cur /\ k.cur - j > l.cur /\ k.cur - j \in Seconds
      <4> DEFINE m == MaxClock \div TicksPerSec
      <4>2. Seconds = 0 .. m /\ m \in Int
        BY <1>1 DEF Seconds
      <4>3. l.cur \in Nat /\ e \in Nat
        BY <1>1, <1>2
      <4> HIDE DEF m
      <4> QED
        BY <1>4, <1>6, <2>1, <2>2, <4>2, <4>3
    <3> QED
      BY <1>5, <1>6, <2>2, <3>1 DEF LogGood
  <2>3. CASE ~(j < e)
    <3>1. j - e \in BucketIds /\ j - e \in Nat
      BY <1>2, <2>1, <2>3
    <3>2. Back(in, j - e) = IF j - e <= l.cur THEN l.counts[l.cur - (j - e)] ELSE EmptyBucket
      BY <3>1 DEF Matches
    <3>3. /\ j - e <= l.cur <=> j <= k.cur
          /\ l.cur - (j - e) = k.cur - j
      <4>1. l.cur \in Nat /\ e \in Nat /\ k.cur = l.cur + e
        BY <1>1, <1>2, <1>6
      <4> QED
        BY <2>1, <4>1
    <3> QED
      BY <1>5, <1>6, <2>3, <3>2, <3>3
  <2> QED
    BY <2>2, <2>3
<1> QED
  BY <1>7, <1>8, <1>9 DEF Matches, k, r

\* The head holds the verdicts of the newest second.
LEMMA HeadMatches ==
  ASSUME NEW in \in Inner, NEW l, LogGood(l), Matches(in, l)
  PROVE  in.buckets[in.head] = l.counts[l.cur]
<1>1. /\ in.head \in BucketIds /\ 0 \in BucketIds
      /\ NumBuckets \in Nat \ {0} /\ in.head \in 0 .. NumBuckets - 1
  BY RingSize DEF Inner, BucketIds
<1>2. (in.head - 0) % NumBuckets = Wrap(in.head - 0, NumBuckets)
  BY <1>1, BackFacts
<1>3. Wrap(in.head - 0, NumBuckets) = in.head
  BY <1>1 DEF Wrap
<1>4. Back(in, 0) = in.buckets[in.head]
  BY <1>2, <1>3 DEF Back
<1>5. l.cur \in Nat
  BY SecondsFacts
<1>6. Back(in, 0) = IF 0 <= l.cur THEN l.counts[l.cur - 0] ELSE EmptyBucket
  BY <1>1 DEF Matches
<1> QED
  BY <1>4, <1>5, <1>6

\* The bucket v goes to the head, and to the newest second.
HeadSet(in, out, v) ==
  /\ out.head = in.head /\ out.headStart = in.headStart
  /\ out.buckets = [in.buckets EXCEPT ![in.head] = v]

NewestSet(l, k, v) == k = [l EXCEPT !.counts = [l.counts EXCEPT ![l.cur] = v]]

LEMMA PutMatches ==
  ASSUME NEW in \in Inner, NEW l, LogGood(l), Matches(in, l), NEW v \in Bucket,
         NEW out, HeadSet(in, out, v), NEW k, NewestSet(l, k, v)
  PROVE  LogGood(k) /\ Matches(out, k)
<1> USE DEF HeadSet
<1>1. /\ in.head \in BucketIds /\ in.buckets \in [BucketIds -> Bucket]
      /\ l \in Log /\ l.cur \in Seconds /\ l.counts \in [Seconds -> Bucket]
  BY DEF Inner, LogGood, Log
<1>2. /\ k \in Log /\ k.cur = l.cur /\ k.base = l.base
      /\ k.counts[l.cur] = v /\ \A s \in Seconds : s # l.cur => k.counts[s] = l.counts[s]
  BY <1>1 DEF Log, NewestSet
<1>3. /\ l.cur \in Nat /\ \A s \in Seconds : s \in Nat
      /\ \A j \in Nat : j <= l.cur => l.cur - j \in Seconds
  BY SecondsFacts
<1>4. LogGood(k)
  BY <1>2, <1>3 DEF LogGood
<1>5. ASSUME NEW j \in BucketIds
      PROVE  Back(out, j) = IF j <= k.cur THEN k.counts[k.cur - j] ELSE EmptyBucket
  <2> DEFINE i == (in.head - j) % NumBuckets
  <2>1. i \in BucketIds /\ i = Wrap(in.head - j, NumBuckets)
    BY <1>1, BackFacts
  <2>2. /\ NumBuckets \in Nat \ {0} /\ j \in 0 .. NumBuckets - 1 /\ in.head \in 0 .. NumBuckets - 1
    BY <1>1, RingSize DEF BucketIds
  <2>3. i = in.head <=> j = 0
    <3> HIDE DEF i
    <3> QED
      BY <2>1, <2>2 DEF Wrap
  <2>4. Back(out, j) = out.buckets[i] /\ Back(in, j) = in.buckets[i]
    BY DEF Back
  <2>5. Back(in, j) = IF j <= l.cur THEN l.counts[l.cur - j] ELSE EmptyBucket
    BY DEF Matches
  <2> HIDE DEF i
  <2>6. CASE j = 0
    <3>1. Back(out, j) = v
      BY <1>1, <2>3, <2>4, <2>6
    <3> QED
      BY <1>2, <1>3, <2>6, <3>1
  <2>7. CASE j # 0
    <3>1. Back(out, j) = Back(in, j)
      BY <1>1, <2>1, <2>3, <2>4, <2>7
    <3>2. j <= l.cur => l.cur - j \in Seconds /\ l.cur - j # l.cur
      BY <1>3, <2>2, <2>7
    <3> QED
      BY <1>2, <2>5, <3>1, <3>2
  <2> QED
    BY <2>6, <2>7
<1> QED
  BY <1>2, <1>4, <1>5 DEF Matches

\* Counting a verdict in the ring is counting it in the log.
LEMMA CountMatches ==
  ASSUME NEW in \in Inner, NEW l, LogGood(l), Matches(in, l)
  PROVE  /\ LogGood(Count(l, TRUE)) /\ LogGood(Count(l, FALSE))
         /\ Matches([in EXCEPT !.buckets[in.head].successes = @ + 1], Count(l, TRUE))
         /\ Matches([in EXCEPT !.buckets[in.head].failures = @ + 1], Count(l, FALSE))
<1> DEFINE c == in.buckets[in.head]
           v == [c EXCEPT !.successes = @ + 1]
           w == [c EXCEPT !.failures = @ + 1]
           a == [in EXCEPT !.buckets[in.head].successes = @ + 1]
           b == [in EXCEPT !.buckets[in.head].failures = @ + 1]
<1>1. in.head \in BucketIds /\ in.buckets \in [BucketIds -> Bucket] /\ c \in Bucket
  BY DEF Inner
<1>2. l \in Log /\ c = l.counts[l.cur]
  BY HeadMatches DEF LogGood
<1>3. v \in Bucket /\ w \in Bucket
  BY <1>1 DEF Bucket
<1>4. HeadSet(in, a, v) /\ HeadSet(in, b, w)
  BY DEF Inner, HeadSet
<1>5. NewestSet(l, Count(l, TRUE), v) /\ NewestSet(l, Count(l, FALSE), w)
  BY <1>2 DEF Count, Log, NewestSet
<1> HIDE DEF c, v, w
<1>6. LogGood(Count(l, TRUE)) /\ Matches(a, Count(l, TRUE))
  <2> HIDE DEF a
  <2> QED
    BY <1>3, <1>4, <1>5, PutMatches
<1>7. LogGood(Count(l, FALSE)) /\ Matches(b, Count(l, FALSE))
  <2> HIDE DEF b
  <2> QED
    BY <1>3, <1>4, <1>5, PutMatches
<1> QED
  BY <1>6, <1>7

\* The cleared ring is the new log.
LEMMA ClearMatches ==
  ASSUME NEW now \in Nat, NEW in, in.head = 0, in.headStart = now,
         in.buckets = [i \in BucketIds |-> EmptyBucket]
  PROVE  LogGood(EmptyLog(now)) /\ Matches(in, EmptyLog(now))
<1> DEFINE l == EmptyLog(now)
<1>1. 0 \in Seconds /\ TicksPerSec \in Nat
  <2> DEFINE m == MaxClock \div TicksPerSec
  <2>1. m \in Nat /\ Seconds = 0 .. m
    BY BreakerAssumption, CallerAssumption, QuotientInterval DEF Seconds
  <2> HIDE DEF m
  <2> QED
    BY <2>1, BreakerAssumption
<1>2. EmptyBucket \in Bucket
  BY DEF EmptyBucket, Bucket
<1>3. l \in Log /\ l.base = now /\ l.cur = 0 /\ \A s \in Seconds : l.counts[s] = EmptyBucket
  BY <1>1, <1>2 DEF EmptyLog, Log
<1> HIDE DEF l
<1>4. LogGood(l)
  BY <1>3 DEF LogGood
<1>5. in.headStart = l.base + l.cur * TicksPerSec
  BY <1>1, <1>3
<1>6. ASSUME NEW j \in BucketIds
      PROVE  Back(in, j) = IF j <= l.cur THEN l.counts[l.cur - j] ELSE EmptyBucket
  <2>1. (0 - j) % NumBuckets \in BucketIds
    BY RingSize, BackFacts
  <2>4. j \in Nat
    BY RingSize DEF BucketIds
  <2>2. Back(in, j) = EmptyBucket
    BY <2>1 DEF Back
  <2>3. j <= 0 => 0 - j \in Seconds
    BY <1>1, <2>4
  <2> QED
    BY <1>3, <2>2, <2>3
<1> QED
  BY <1>4, <1>5, <1>6 DEF Matches, l

-----------------------------------------------------------------------------
(* Every step reports to both or to neither *)

Verdicts == {"resolve", "record_success", "record_failure"}

SameWindow(in, out) ==
  /\ out.buckets = in.buckets /\ out.head = in.head /\ out.headStart = in.headStart
  /\ in.state = "Closed" => out.state = "Closed"

NoReport == Reporters = {} /\ SameWindow(inner, inner')

Report(c) ==
  /\ pc[c] \in Verdicts /\ Reporters = {c}
  /\ inner' = IF pc[c] = "record_failure" THEN RecordFailure(inner, adm[c], sampled[c])
                                          ELSE RecordSuccess(inner, adm[c], sampled[c])

\* One caller moves; it reports if it comes from a verdict.
LEMMA ReportersFacts ==
  ASSUME TypeOK, NEW c \in Callers, NEW to, pc' = [pc EXCEPT ![c] = to]
  PROVE  /\ pc[c] \notin Verdicts => Reporters = {}
         /\ pc[c] \in Verdicts /\ to \in {"idle", "holding"} => Reporters = {c}
<1>1. \A d \in Callers : pc'[d] = IF d = c THEN to ELSE pc[d]
  BY DEF TypeOK
<1>2. ASSUME NEW d \in Reporters PROVE d = c /\ pc[c] \in Verdicts
  BY <1>1, <1>2 DEF Reporters, Verdicts
<1>3. ASSUME pc[c] \in Verdicts, to \in {"idle", "holding"} PROVE c \in Reporters
  BY <1>1, <1>3 DEF Reporters, Verdicts
<1> QED
  BY <1>2, <1>3

LEMMA RefreshWindow ==
  ASSUME NEW in \in Inner, NEW now
  PROVE  SameWindow(in, Refresh(in, now)) /\ SameWindow(in, TryBegin(in, now))
<1>1. SameWindow(in, Refresh(in, now))
  BY DEF SameWindow, Refresh, Inner
<1>2. Refresh(in, now) \in Inner
  BY DEF Refresh, Inner, CircuitState
<1> DEFINE r == Refresh(in, now)
<1>3. TryBegin(in, now) = IF Admit(r) = "Probe" THEN [r EXCEPT !.probeInFlight = TRUE] ELSE r
  BY DEF TryBegin
<1> HIDE DEF r
<1>4. SameWindow(r, TryBegin(in, now))
  BY <1>2, <1>3 DEF SameWindow, Inner, r
<1> QED
  BY <1>1, <1>4 DEF SameWindow, r

LEMMA StepReports ==
  ASSUME IInv, [Next]_vars
  PROVE  NoReport \/ \E c \in Callers : Report(c)
<1>0. TypeOK /\ inner \in Inner
  BY DEF IInv, TypeOK
<1>s. SameWindow(inner, inner)
  BY DEF SameWindow
<1>1. CASE UNCHANGED vars \/ Tick
  <2>1. inner' = inner /\ pc' = pc
    BY <1>1 DEF vars, Tick
  <2>2. Reporters = {}
    BY <2>1 DEF Reporters
  <2> QED
    BY <1>s, <2>1, <2>2 DEF NoReport
<1>2. ASSUME NEW c \in Callers, NEW from, NEW to, from \notin Verdicts, Sample(c, from, to)
      PROVE  NoReport
  <2>1. pc[c] = from /\ pc' = [pc EXCEPT ![c] = to] /\ inner' = inner
    BY <1>2 DEF Sample
  <2> QED
    BY <1>0, <1>s, <1>2, <2>1, ReportersFacts DEF NoReport
<1>3. ASSUME NEW c \in Callers, NEW in, NEW to, NEW a, Critical(c, in, to, a),
             pc[c] \notin Verdicts, SameWindow(inner, in)
      PROVE  NoReport
  <2>1. pc' = [pc EXCEPT ![c] = to] /\ inner' = in
    BY <1>3 DEF Critical
  <2> QED
    BY <1>0, <1>3, <2>1, ReportersFacts DEF NoReport
<1>4. ASSUME NEW c \in Callers,
             \/ CallState(c) \/ CallIsRoutable(c) \/ CallTryBegin(c) \/ CallResolve(c)
             \/ CallRecordSuccess(c) \/ CallRecordFailure(c)
      PROVE  NoReport
  <2>1. PICK to : Sample(c, "idle", to) \/ Sample(c, "offered", to) \/ Sample(c, "holding", to)
    BY <1>4 DEF CallState, CallIsRoutable, CallTryBegin, CallResolve, CallRecordSuccess,
                CallRecordFailure, Start
  <2> QED
    BY <1>2, <2>1 DEF Verdicts
<1>5. ASSUME NEW c \in Callers, State(c) \/ IsRoutable(c) \/ TryBeginCall(c)
      PROVE  NoReport
  <2>1. PICK in, to, a :
          /\ Critical(c, in, to, a)
          /\ in = Refresh(inner, sampled[c]) \/ in = TryBegin(inner, sampled[c])
    BY <1>5 DEF State, IsRoutable, TryBeginCall
  <2>2. pc[c] \notin Verdicts
    BY <1>5 DEF State, IsRoutable, TryBeginCall, Verdicts
  <2>3. SameWindow(inner, in)
    BY <1>0, <2>1, RefreshWindow
  <2> QED
    BY <1>3, <2>1, <2>2, <2>3
<1>6. ASSUME NEW c \in Callers, GiveUp(c) PROVE NoReport
  BY <1>s, <1>3, <1>6 DEF GiveUp, Verdicts
<1>7. ASSUME NEW c \in Callers, AbandonCall(c) PROVE NoReport
  <2>1. SameWindow(inner, Abandon(inner, adm[c]))
    BY <1>0 DEF SameWindow, Abandon, Inner
  <2> QED
    BY <1>3, <1>7, <2>1 DEF AbandonCall, Verdicts
<1>8. ASSUME NEW c \in Callers, Resolve(c) \/ RecordSuccessCall(c) \/ RecordFailureCall(c)
      PROVE  Report(c)
  <2>1. PICK to \in {"idle", "holding"} : pc' = [pc EXCEPT ![c] = to]
    BY <1>8 DEF Resolve, RecordSuccessCall, RecordFailureCall, Critical
  <2>2. pc[c] \in Verdicts
    BY <1>8 DEF Resolve, RecordSuccessCall, RecordFailureCall, Verdicts
  <2>3. Reporters = {c}
    BY <1>0, <2>1, <2>2, ReportersFacts
  <2> QED
    BY <1>8, <2>2, <2>3 DEF Report, Resolve, RecordSuccessCall, RecordFailureCall, Critical
<1> QED
  BY <1>1, <1>4, <1>5, <1>6, <1>7, <1>8 DEF Next, LockStep, Finish, Quiet

\* What the invariant says of a caller that reports.
LEMMA ReporterFacts ==
  ASSUME IInv, NEW c \in Callers, Report(c)
  PROVE  /\ inner \in Inner /\ sampled[c] \in Nat /\ sampled[c] <= clock /\ clock \in Nat
         /\ adm[c] \in Admission
         /\ adm[c] = "Probe" => inner.state = "HalfOpen"
<1>1. pc[c] \in Verdicts /\ adm[c] \in Admission \union {NoAdmission}
  BY DEF Report, IInv, TypeOK
<1>2. pc[c] \in Sampling /\ pc[c] \in Admitted
  BY <1>1 DEF Verdicts, Sampling, Admitted
<1>3. sampled[c] \in Nat /\ sampled[c] <= clock /\ adm[c] # NoAdmission
  BY <1>2 DEF IInv, CallsInOrder
<1>4. adm[c] = "Probe" => inner.state = "HalfOpen"
  BY DEF IInv, ProbeExclusive, ProbeHolders
<1> QED
  BY <1>1, <1>3, <1>4 DEF IInv, TypeOK

LEMMA SameMatches ==
  ASSUME NEW in, NEW out, NEW l, SameWindow(in, out), Matches(in, l)
  PROVE  Matches(out, l)
  BY DEF SameWindow, Matches, Back

\* A verdict reaches the ring as it reaches the log.
LEMMA ReportMatches ==
  ASSUME IInv, clock <= MaxClock, LogGood(log), Matches(inner, log),
         NEW c \in Callers, Report(c)
  PROVE  LogGood(Logged(c)) /\ Matches(inner', Logged(c))
<1> DEFINE now == sampled[c]
           f == Refresh(inner, now)
           r == Rotate(f, now)
           k == Advance(log, now)
<1>1. /\ inner \in Inner /\ now \in Nat /\ now <= MaxClock
      /\ adm[c] = "Probe" => inner.state = "HalfOpen"
  BY ReporterFacts, CallerAssumption
<1>2. /\ f \in Inner /\ SameWindow(inner, f)
      /\ inner.state = "HalfOpen" => f.state = "HalfOpen"
  <2>1. f \in Inner /\ (f.state = inner.state \/ f.state = "HalfOpen")
    BY <1>1, RefreshFacts
  <2> QED
    BY <1>1, <2>1, RefreshWindow
<1>3. Matches(f, log)
  BY <1>2, SameMatches
<1>4. LogGood(k) /\ Matches(r, k)
  BY <1>1, <1>2, <1>3, RotateMatches
<1>5. r \in Inner /\ r.state = f.state
  BY <1>1, <1>2, RotateFacts
<1>6. CASE adm[c] = "Probe" /\ pc[c] # "record_failure"
  <2> DEFINE e == [Clear(r, now) EXCEPT !.state = "Closed", !.openedAt = NoInstant,
                                        !.probeInFlight = FALSE]
  <2>1. inner' = [e EXCEPT !.buckets[e.head].successes = @ + 1]
    <3>1. r.state = "HalfOpen"
      BY <1>1, <1>2, <1>5, <1>6
    <3>2. inner' = RecordSuccess(inner, "Probe", now)
      BY <1>6 DEF Report
    <3> QED
      BY <3>1, <3>2 DEF RecordSuccess
  <2>2. Logged(c) = Count(EmptyLog(now), TRUE)
    BY <1>6 DEF Logged
  <2>3. /\ e \in Inner /\ e.head = 0 /\ e.headStart = now
        /\ e.buckets = [i \in BucketIds |-> EmptyBucket]
    <3> HIDE DEF r
    <3> QED
      BY <1>1, <1>5, RingSize DEF Clear, Inner, CircuitState, Bucket, EmptyBucket
  <2> HIDE DEF e
  <2>4. LogGood(EmptyLog(now)) /\ Matches(e, EmptyLog(now))
    BY <1>1, <2>3, ClearMatches
  <2> HIDE DEF now
  <2> QED
    BY <2>1, <2>2, <2>3, <2>4, CountMatches
<1>7. CASE adm[c] = "Probe" /\ pc[c] = "record_failure"
  <2>1. inner' = [r EXCEPT !.state = "Open", !.openedAt = now, !.probeInFlight = FALSE]
    <3>1. r.state = "HalfOpen"
      BY <1>1, <1>2, <1>5, <1>7
    <3>2. inner' = RecordFailure(inner, "Probe", now)
      BY <1>7 DEF Report
    <3> QED
      BY <3>1, <3>2 DEF RecordFailure
  <2>2. Logged(c) = k
    BY <1>7 DEF Logged
  <2> HIDE DEF r, k
  <2>3. inner'.buckets = r.buckets /\ inner'.head = r.head /\ inner'.headStart = r.headStart
    BY <1>5, <2>1 DEF Inner
  <2> QED
    BY <1>4, <2>2, <2>3 DEF Matches, Back
<1>8. CASE adm[c] # "Probe" /\ pc[c] # "record_failure"
  <2>1. inner' = [r EXCEPT !.buckets[r.head].successes = @ + 1]
    BY <1>8 DEF Report, RecordSuccess
  <2>2. Logged(c) = Count(k, TRUE)
    BY <1>8 DEF Logged
  <2> HIDE DEF r, k
  <2> QED
    BY <1>4, <1>5, <2>1, <2>2, CountMatches
<1>9. CASE adm[c] # "Probe" /\ pc[c] = "record_failure"
  <2> DEFINE g == [r EXCEPT !.buckets[r.head].failures = @ + 1]
  <2>1. inner' = g \/ inner' = [g EXCEPT !.state = "Open", !.openedAt = now]
    BY <1>9 DEF Report, RecordFailure
  <2>2. Logged(c) = Count(k, FALSE)
    BY <1>9 DEF Logged
  <2>3. g \in Inner
    BY <1>5, CountFacts
  <2> HIDE DEF r, k
  <2>4. LogGood(Count(k, FALSE)) /\ Matches(g, Count(k, FALSE))
    BY <1>4, <1>5, CountMatches
  <2> HIDE DEF g
  <2>5. inner'.buckets = g.buckets /\ inner'.head = g.head /\ inner'.headStart = g.headStart
    BY <2>1, <2>3 DEF Inner
  <2> QED
    BY <2>2, <2>4, <2>5 DEF Matches, Back
<1> QED
  BY <1>6, <1>7, <1>8, <1>9

WindowInv == IInv /\ clock <= MaxClock /\ LogGood(log) /\ Matches(inner, log)

LEMMA InitWindowInv == LogInit => WindowInv
<1> SUFFICES ASSUME LogInit PROVE WindowInv
  OBVIOUS
<1>1. IInv
  BY InitIInv DEF LogInit
<1>2. clock <= MaxClock
  BY CallerAssumption DEF LogInit, Init
<1>3. LogGood(EmptyLog(0)) /\ Matches(New(0), EmptyLog(0))
  <2>1. /\ New(0).head = 0 /\ New(0).headStart = 0
        /\ New(0).buckets = [i \in BucketIds |-> EmptyBucket]
    BY DEF New
  <2> QED
    BY <2>1, ClearMatches
<1> QED
  BY <1>1, <1>2, <1>3 DEF LogInit, Init, WindowInv

LEMMA StepWindowInv == WindowInv /\ [LogNext]_logVars => WindowInv'
<1> SUFFICES ASSUME WindowInv, [LogNext]_logVars PROVE WindowInv'
  OBVIOUS
<1>1. IInv /\ [Next]_vars /\ LogGood(log) /\ Matches(inner, log) /\ clock <= MaxClock
  BY DEF WindowInv, LogNext, logVars, vars
<1>2. IInv'
  BY <1>1, StepIInv
<1>3. clock' <= MaxClock
  <2>1. clock' = clock \/ Tick
    BY <1>1 DEF Next, LockStep, Finish, Quiet, vars, CallState, CallIsRoutable, GiveUp,
         CallTryBegin, CallResolve, State, IsRoutable, TryBeginCall, Resolve, RecordSuccessCall,
         RecordFailureCall, CallRecordSuccess, CallRecordFailure, AbandonCall, Start, Sample,
         Critical
  <2>2. clock \in Nat /\ MaxClock \in Nat
    BY <1>1, CallerAssumption DEF IInv, TypeOK
  <2> QED
    BY <1>1, <2>1, <2>2 DEF Tick
<1>4. CASE NoReport
  <2>1. log' = log
    BY <1>4 DEF NoReport, LogNext, logVars
  <2>2. Matches(inner', log)
    BY <1>1, <1>4, SameMatches DEF NoReport
  <2> QED
    BY <1>1, <1>2, <1>3, <2>1, <2>2 DEF WindowInv
<1>5. ASSUME NEW c \in Callers, Report(c) PROVE WindowInv'
  <2>1. log' = Logged(c)
    <3>1. Reporters = {c}
      BY <1>5 DEF Report
    <3>2. ~UNCHANGED logVars
      BY <3>1 DEF Reporters, logVars
    <3> QED
      BY <3>1, <3>2 DEF LogNext
  <2>2. LogGood(Logged(c)) /\ Matches(inner', Logged(c))
    BY <1>1, <1>5, ReportMatches
  <2> HIDE DEF LogGood, Matches
  <2> QED
    BY <1>2, <1>3, <2>1, <2>2 DEF WindowInv
<1> QED
  BY <1>1, <1>4, <1>5, StepReports

LEMMA InvariantWindowInv == LogSpec => []WindowInv
  BY InitWindowInv, StepWindowInv, PTL DEF LogSpec

\* "Failure rate is computed over a sliding window of 1-second buckets": for any
\* window, any number of callers and any order in which their samples reach the lock,
\* the ring holds exactly the verdicts of the newest seconds.
THEOREM WindowIsLog == LogSpec => []WindowMatchesLog
<1>1. WindowInv => WindowMatchesLog
  BY DEF WindowInv, Matches, Back, WindowMatchesLog
<1> QED
  BY <1>1, InvariantWindowInv, PTL

-----------------------------------------------------------------------------
(* The trip *)

\* Inner::totals adds up the buckets, here c, over their places S.
LEMMA FailureSum ==
  ASSUME NEW c, NEW S, IsFiniteSet(S), NEW f, \A x \in S : f[x] = c[x].failures
  PROVE  MapThenSumSet(LAMBDA i : c[i].failures, S) = SumOf(f, S)
<1> DEFINE Adds(g) == g = [s \in SUBSET S |->
                             IF s = {} THEN 0 ELSE c[First(s)].failures + g[s \ {First(s)}]]
<1>1. MapThenSumSet(LAMBDA i : c[i].failures, S) = (CHOOSE g : Adds(g))[S]
  BY DEF MapThenSumSet, MapThenFoldSet, First
<1>2. ASSUME NEW g PROVE Adds(g) <=> Summing(g, f, S)
  <2>1. \A s \in SUBSET S : s # {} => f[First(s)] = c[First(s)].failures
    BY FirstIn
  <2>2. [s \in SUBSET S |-> IF s = {} THEN 0 ELSE c[First(s)].failures + g[s \ {First(s)}]]
        = [s \in SUBSET S |-> IF s = {} THEN 0 ELSE f[First(s)] + g[s \ {First(s)}]]
    BY <2>1
  <2> QED
    BY <2>2 DEF Summing
<1>3. \E g : Adds(g)
  BY <1>2, SummingExists
<1> DEFINE a == CHOOSE g : Adds(g)
           b == CHOOSE g : Summing(g, f, S)
<1>4. Summing(b, f, S)
  BY SummingExists
<1> HIDE DEF Adds
<1>5. Adds(a)
  BY <1>3
<1> HIDE DEF a, b
<1>6. a = b
  BY <1>2, <1>4, <1>5, SummingUnique
<1> QED
  BY <1>1, <1>6 DEF a, b, SumOf

LEMMA SuccessSum ==
  ASSUME NEW c, NEW S, IsFiniteSet(S), NEW f, \A x \in S : f[x] = c[x].successes
  PROVE  MapThenSumSet(LAMBDA i : c[i].successes, S) = SumOf(f, S)
<1> DEFINE Adds(g) == g = [s \in SUBSET S |->
                             IF s = {} THEN 0 ELSE c[First(s)].successes + g[s \ {First(s)}]]
<1>1. MapThenSumSet(LAMBDA i : c[i].successes, S) = (CHOOSE g : Adds(g))[S]
  BY DEF MapThenSumSet, MapThenFoldSet, First
<1>2. ASSUME NEW g PROVE Adds(g) <=> Summing(g, f, S)
  <2>1. \A s \in SUBSET S : s # {} => f[First(s)] = c[First(s)].successes
    BY FirstIn
  <2>2. [s \in SUBSET S |-> IF s = {} THEN 0 ELSE c[First(s)].successes + g[s \ {First(s)}]]
        = [s \in SUBSET S |-> IF s = {} THEN 0 ELSE f[First(s)] + g[s \ {First(s)}]]
    BY <2>1
  <2> QED
    BY <2>2 DEF Summing
<1>3. \E g : Adds(g)
  BY <1>2, SummingExists
<1> DEFINE a == CHOOSE g : Adds(g)
           b == CHOOSE g : Summing(g, f, S)
<1>4. Summing(b, f, S)
  BY SummingExists
<1> HIDE DEF Adds
<1>5. Adds(a)
  BY <1>3
<1> HIDE DEF a, b
<1>6. a = b
  BY <1>2, <1>4, <1>5, SummingUnique
<1> QED
  BY <1>1, <1>6 DEF a, b, SumOf

\* The ring and the seconds it covers have the same sum of anything that an empty
\* bucket has none of.
LEMMA WindowSum ==
  ASSUME NEW in \in Inner, NEW l, LogGood(l), Matches(in, l), NEW f, NEW g,
         \A i \in BucketIds : g[i] \in Nat,
         \A s \in Covered(l), i \in BucketIds : in.buckets[i] = l.counts[s] => f[s] = g[i],
         \A i \in BucketIds : in.buckets[i] = EmptyBucket => g[i] = 0
  PROVE  SumOf(f, Covered(l)) = SumOf(g, BucketIds)
<1> DEFINE n == NumBuckets
           C == Covered(l)
           h == [s \in C |-> (in.head - (l.cur - s)) % n]
           T == {h[s] : s \in C}
<1>1. /\ n \in Nat \ {0} /\ BucketIds = 0 .. n - 1 /\ in.head \in BucketIds
      /\ l.cur \in Nat /\ \A s \in Seconds : s \in Nat
  BY RingSize, SecondsFacts DEF Inner, BucketIds
<1>2. ASSUME NEW s \in C
      PROVE  /\ s \in Seconds /\ s \in Nat /\ l.cur - s \in BucketIds /\ l.cur - s <= l.cur
             /\ h[s] \in BucketIds /\ h[s] = Wrap(in.head - (l.cur - s), n)
             /\ in.buckets[h[s]] = l.counts[s]
  <2>1. s \in Seconds /\ s <= l.cur /\ s > l.cur - n
    BY DEF Covered
  <2>2. l.cur - s \in BucketIds /\ s \in Nat /\ l.cur - s <= l.cur
    BY <1>1, <2>1
  <2>3. h[s] = (in.head - (l.cur - s)) % n
    OBVIOUS
  <2>4. h[s] \in BucketIds /\ h[s] = Wrap(in.head - (l.cur - s), n)
    BY <1>1, <2>2, <2>3, BackFacts
  <2>5. Back(in, l.cur - s) = l.counts[l.cur - (l.cur - s)]
    BY <2>2 DEF Matches
  <2>6. l.cur - (l.cur - s) = s
    BY <1>1, <2>2
  <2> QED
    BY <2>1, <2>2, <2>3, <2>4, <2>5, <2>6 DEF Back
<1>3. ASSUME NEW s \in C, NEW t \in C, h[s] = h[t] PROVE s = t
  <2>1. /\ l.cur - s \in 0 .. n - 1 /\ l.cur - t \in 0 .. n - 1 /\ s \in Nat /\ t \in Nat
        /\ Wrap(in.head - (l.cur - s), n) = Wrap(in.head - (l.cur - t), n)
    BY <1>1, <1>2, <1>3
  <2>2. in.head \in 0 .. n - 1 /\ n \in Nat /\ l.cur \in Nat
    BY <1>1
  <2> HIDE DEF n, h, C
  <2> QED
    BY <2>1, <2>2 DEF Wrap
<1>4. ASSUME NEW i \in BucketIds, i \notin T PROVE in.buckets[i] = EmptyBucket
  <2> DEFINE j == Wrap(in.head - i, n)
  <2>1. j \in BucketIds /\ Wrap(in.head - j, n) = i
    <3> HIDE DEF n
    <3> QED
      BY <1>1 DEF Wrap
  <2>2. Back(in, j) = in.buckets[i]
    <3> HIDE DEF j
    <3> QED
      BY <1>1, <2>1, BackFacts DEF Back
  <2>3. ~(j <= l.cur)
    <3> SUFFICES ASSUME j <= l.cur PROVE FALSE
      OBVIOUS
    <3> DEFINE s == l.cur - j
    <3> HIDE DEF j
    <3>1. j \in Nat /\ j < n
      BY <1>1, <2>1
    <3>2. s \in Seconds /\ s <= l.cur /\ s > l.cur - n /\ l.cur - s = j
      BY <1>1, <3>1, SecondsFacts
    <3>3. s \in C
      BY <3>2 DEF Covered
    <3>4. h[s] = i
      BY <1>2, <2>1, <3>2, <3>3
    <3> QED
      BY <1>4, <3>3, <3>4
  <2> QED
    BY <2>1, <2>2, <2>3 DEF Matches
<1>5. IsFiniteSet(BucketIds) /\ IsFiniteSet(0 .. l.cur)
  <2>1. \A b \in Int : IsFiniteSet(0 .. b)
    BY FS_Interval
  <2>2. n - 1 \in Int /\ l.cur \in Int
    BY <1>1
  <2> HIDE DEF n
  <2> QED
    BY <1>1, <2>1, <2>2
<1>6. IsFiniteSet(C)
  <2>1. C \in SUBSET (0 .. l.cur)
    BY <1>1 DEF Covered
  <2> HIDE DEF C
  <2> QED
    BY <1>5, <2>1, FS_Subset
<1>7. \A s \in C : f[s] = g[h[s]] /\ f[s] \in Nat /\ h[s] \in BucketIds
  <2> HIDE DEF h
  <2> QED
    BY <1>2
<1>8. T \in SUBSET BucketIds /\ \A i \in BucketIds \ T : g[i] = 0
  <2>1. T \in SUBSET BucketIds
    BY <1>7
  <2> HIDE DEF T
  <2> QED
    BY <1>4, <2>1
<1>9. SumOf(f, C) = SumOf(g, T)
  <2> HIDE DEF h, C
  <2> QED
    BY <1>3, <1>5, <1>6, <1>7, SumImage
<1>10. SumOf(g, BucketIds) = SumOf(g, T)
  <2> HIDE DEF T
  <2> QED
    BY <1>5, <1>8, SumPart
<1> QED
  BY <1>9, <1>10

\* The code's trip condition on the ring is the one on the log.
LEMMA OverSame ==
  ASSUME NEW in \in Inner, NEW l, LogGood(l), Matches(in, l)
  PROVE  OverThreshold(Failures(in), Total(in)) <=> Over(l)
<1> DEFINE C  == Covered(l)
           rf == [i \in BucketIds |-> in.buckets[i].failures]
           rs == [i \in BucketIds |-> in.buckets[i].successes]
           lf == [s \in C |-> l.counts[s].failures]
           ls == [s \in C |-> l.counts[s].successes]
           F  == SumOf(rf, BucketIds)
           S  == SumOf(rs, BucketIds)
<1>1. /\ in.buckets \in [BucketIds -> Bucket] /\ l.counts \in [Seconds -> Bucket]
      /\ C \in SUBSET Seconds /\ C \in SUBSET (0 .. l.cur) /\ l.cur \in Nat
      /\ NumBuckets - 1 \in Int /\ BucketIds = 0 .. NumBuckets - 1
  BY RingSize, SecondsFacts DEF Inner, Covered, BucketIds
<1>2. IsFiniteSet(BucketIds) /\ IsFiniteSet(C)
  <2>1. \A b \in Int : IsFiniteSet(0 .. b)
    BY FS_Interval
  <2> HIDE DEF C
  <2> QED
    BY <1>1, <2>1, FS_Subset
<1>3. \A i \in BucketIds : rf[i] \in Nat /\ rs[i] \in Nat
  BY <1>1 DEF Bucket
<1>4. F \in Nat /\ S \in Nat
  <2> HIDE DEF rf, rs
  <2> QED
    BY <1>2, <1>3, SumNat
<1>5. Failures(in) = F
  <2>1. MapThenSumSet(LAMBDA i : in.buckets[i].failures, BucketIds) = F
    <3>1. \A i \in BucketIds : rf[i] = in.buckets[i].failures
      OBVIOUS
    <3> HIDE DEF rf
    <3> QED
      BY <1>2, <3>1, FailureSum
  <2> QED
    BY <2>1 DEF Failures
<1>6. Total(in) = F + S
  <2>1. MapThenSumSet(LAMBDA i : in.buckets[i].successes, BucketIds) = S
    <3>1. \A i \in BucketIds : rs[i] = in.buckets[i].successes
      OBVIOUS
    <3> HIDE DEF rs
    <3> QED
      BY <1>2, <3>1, SuccessSum
  <2> QED
    BY <1>5, <2>1 DEF Total
<1>7. MapThenSumSet(LAMBDA s : l.counts[s].failures, C) = F
  <2>1. \A s \in C : lf[s] = l.counts[s].failures
    OBVIOUS
  <2>2. \A s \in C, i \in BucketIds : in.buckets[i] = l.counts[s] => lf[s] = rf[i]
    OBVIOUS
  <2>3. \A i \in BucketIds : in.buckets[i] = EmptyBucket => rf[i] = 0
    BY DEF EmptyBucket
  <2> HIDE DEF lf, rf
  <2>4. SumOf(lf, C) = F
    BY <1>3, <2>2, <2>3, WindowSum
  <2> HIDE DEF C, F
  <2> QED
    BY <1>2, <2>1, <2>4, FailureSum
<1>8. MapThenSumSet(LAMBDA s : l.counts[s].successes, C) = S
  <2>1. \A s \in C : ls[s] = l.counts[s].successes
    OBVIOUS
  <2>2. \A s \in C, i \in BucketIds : in.buckets[i] = l.counts[s] => ls[s] = rs[i]
    OBVIOUS
  <2>3. \A i \in BucketIds : in.buckets[i] = EmptyBucket => rs[i] = 0
    BY DEF EmptyBucket
  <2> HIDE DEF ls, rs
  <2>4. SumOf(ls, C) = S
    BY <1>3, <2>2, <2>3, WindowSum
  <2> HIDE DEF C, S
  <2> QED
    BY <1>2, <2>1, <2>4, SuccessSum
<1>9. Over(l) <=> /\ F + S > 0 /\ F + S >= MinRequests
                  /\ RateDen * F >= RateNum * (F + S)
  <2> HIDE DEF F, S
  <2> QED
    BY <1>7, <1>8 DEF Over
<1>10. OverThreshold(Failures(in), Total(in)) <=>
         F + S >= AtLeastOne(MinRequests) /\ F * RateDen >= RateNum * (F + S)
  <2> HIDE DEF F, S
  <2> QED
    BY <1>5, <1>6 DEF OverThreshold
<1> HIDE DEF F, S
<1>11. F * RateDen = RateDen * F /\ MinRequests \in Nat
  BY <1>4, BreakerAssumption
<1>12. F + S >= AtLeastOne(MinRequests) <=> F + S > 0 /\ F + S >= MinRequests
  BY <1>4, <1>11 DEF AtLeastOne
<1> QED
  BY <1>9, <1>10, <1>11, <1>12

TripStep ==
  inner.state = "Closed" =>
    (inner'.state # "Closed" <=>
       \E c \in Reporters : pc[c] = "record_failure" /\ Over(log'))

LEMMA StepTrips ==
  ASSUME WindowInv, WindowInv', [LogNext]_logVars
  PROVE  TripStep
<1> SUFFICES ASSUME inner.state = "Closed"
             PROVE  inner'.state # "Closed" <=>
                      \E c \in Reporters : pc[c] = "record_failure" /\ Over(log')
  BY DEF TripStep
<1>1. IInv /\ [Next]_vars /\ clock <= MaxClock
  BY DEF WindowInv, LogNext, logVars, vars
<1>2. inner' \in Inner /\ LogGood(log') /\ Matches(inner', log')
  BY DEF WindowInv, IInv, TypeOK
<1>3. CASE NoReport
  BY <1>3 DEF NoReport, SameWindow
<1>4. ASSUME NEW c \in Callers, Report(c)
      PROVE  inner'.state # "Closed" <=> pc[c] = "record_failure" /\ Over(log')
  <2> DEFINE now == sampled[c]
             r == Rotate(Refresh(inner, now), now)
  <2>1. inner \in Inner /\ now \in Nat /\ adm[c] # "Probe"
    BY <1>1, <1>4, ReporterFacts
  <2>2. r \in Inner /\ r.state = "Closed"
    <3>1. Refresh(inner, now) = inner
      BY DEF Refresh
    <3> QED
      BY <2>1, <3>1, RotateFacts
  <2>3. CASE pc[c] # "record_failure"
    <3>1. inner' = [r EXCEPT !.buckets[r.head].successes = @ + 1]
      BY <1>4, <2>1, <2>3 DEF Report, RecordSuccess
    <3> HIDE DEF r
    <3> QED
      BY <2>2, <2>3, <3>1 DEF Inner
  <2>4. CASE pc[c] = "record_failure"
    <3> DEFINE g == [r EXCEPT !.buckets[r.head].failures = @ + 1]
               over == OverThreshold(Failures(g), Total(g))
    <3>1. inner' = IF r.state = "Closed" /\ over
                   THEN [g EXCEPT !.state = "Open", !.openedAt = now] ELSE g
      BY <1>4, <2>1, <2>4 DEF Report, RecordFailure
    <3> HIDE DEF r
    <3>2. g \in Inner /\ g.state = "Closed"
      BY <2>2, CountFacts DEF Inner
    <3> HIDE DEF g, over
    <3>3. inner'.buckets = g.buckets /\ (inner'.state # "Closed" <=> over)
      BY <2>2, <3>1, <3>2 DEF Inner
    <3>4. over <=> OverThreshold(Failures(inner'), Total(inner'))
      BY <3>3 DEF over, Failures, Total
    <3>5. OverThreshold(Failures(inner'), Total(inner')) <=> Over(log')
      BY <1>2, OverSame
    <3> QED
      BY <2>4, <3>3, <3>4, <3>5
  <2> QED
    BY <2>3, <2>4
<1>5. ASSUME NEW c \in Callers, Report(c)
      PROVE  inner'.state # "Closed" <=>
               \E d \in Reporters : pc[d] = "record_failure" /\ Over(log')
  <2>1. Reporters = {c}
    BY <1>5 DEF Report
  <2>2. inner'.state # "Closed" <=> pc[c] = "record_failure" /\ Over(log')
    BY <1>4, <1>5
  <2> QED
    BY <2>1, <2>2
<1> QED
  BY <1>1, <1>3, <1>5, StepReports

\* record_failure trips a closed circuit exactly when the failure rate of the newest
\* NumBuckets seconds of the log reaches the threshold with at least min_requests
\* verdicts, and nothing else trips it.
THEOREM TripIsExact == LogSpec => TripsExactly
<1>1. WindowInv /\ WindowInv' /\ [LogNext]_logVars => [TripStep]_logVars
  BY StepTrips
<1>2. [TripStep]_logVars <=>
        [inner.state = "Closed" =>
          (inner'.state # "Closed" <=>
             \E c \in Reporters : pc[c] = "record_failure" /\ Over(log'))]_logVars
  BY DEF TripStep
<1> QED
  BY <1>1, <1>2, InvariantWindowInv, PTL DEF LogSpec, TripsExactly
=============================================================================
