--------------------------- MODULE BreakerContract ---------------------------
(***************************************************************************)
(* What a circuit breaker promises to the requests it admits, without time *)
(* and without a window: requests admitted while the circuit is closed are *)
(* `normals`, at most one request is the probe, the probe exists only while *)
(* the circuit is half-open, and nothing but the probe's verdict takes the *)
(* circuit out of half-open.  CircuitBreaker implements it.                 *)
(***************************************************************************)
CONSTANT Callers

VARIABLES
  phase,      \* the circuit as an observer under the lock sees it
  probes,     \* the requests that hold the probe
  normals     \* the requests admitted as Normal and not ended yet

contractVars == <<phase, probes, normals>>

Init ==
  /\ phase = "Closed"
  /\ probes = {}
  /\ normals = {}

\* Where one observation, or one verdict of a Normal request, may take the
\* circuit: it may trip it or end its open period, never close it.
Drift(p) ==
  CASE p = "Closed" -> {"Closed", "Open"}
    [] p = "Open" -> {"Open", "HalfOpen"}
    [] OTHER -> {"HalfOpen"}

CoolDown ==
  /\ phase = "Open"
  /\ phase' = "HalfOpen"
  /\ UNCHANGED <<probes, normals>>

AdmitNormal(c) ==
  /\ phase = "Closed"
  /\ c \notin probes \union normals
  /\ normals' = normals \union {c}
  /\ UNCHANGED <<phase, probes>>

AdmitProbe(c) ==
  /\ phase \in {"Open", "HalfOpen"}
  /\ probes = {}
  /\ c \notin normals
  /\ phase' = "HalfOpen"
  /\ probes' = {c}
  /\ UNCHANGED normals

\* The probe's success closes the circuit.  A streaming probe goes on as a
\* Normal request, a finished one leaves.
PassProbe(c) ==
  /\ probes = {c}
  /\ phase' = "Closed"
  /\ probes' = {}
  /\ normals' \in {normals, normals \union {c}}

FailProbe(c) ==
  /\ probes = {c}
  /\ phase' = "Open"
  /\ probes' = {}
  /\ UNCHANGED normals

ReturnProbe(c) ==
  /\ probes = {c}
  /\ probes' = {}
  /\ UNCHANGED <<phase, normals>>

LeaveNormal(c) ==
  /\ c \in normals
  /\ normals' = normals \ {c}
  /\ phase' \in Drift(phase)
  /\ UNCHANGED probes

Next ==
  \/ CoolDown
  \/ \E c \in Callers :
       \/ AdmitNormal(c) \/ AdmitProbe(c)
       \/ PassProbe(c) \/ FailProbe(c) \/ ReturnProbe(c)
       \/ LeaveNormal(c)

Spec == Init /\ [][Next]_contractVars
=============================================================================
