------------------------------- MODULE Exporter -------------------------------
(***************************************************************************)
(* The /metrics endpoint: metrics_handler (server.rs) copies what the      *)
(* backends and the permit counter hold into gauges, one after the other,  *)
(* and encodes the registry (metrics.rs).  Scrapes may overlap: the gauges *)
(* are shared, and only encoding takes the registry's lock.  The handler   *)
(* awaits nothing, so that a scrape that began also ends.                  *)
(*                                                                         *)
(* The five gauges of a backend are one here: each is loaded and set by    *)
(* itself, in the same loop.  They are labelled with the backend's url, so *)
(* that backends of the same url share them.  A value is the number of     *)
(* times it has changed.  Counters and the histogram are written where     *)
(* they are counted (Router) and only encoded here.                        *)
(***************************************************************************)
EXTENDS Integers, Sequences, FiniteSetsExt

CONSTANTS
  Scrapes,      \* scrapes of /metrics that may run at a time
  MaxVersion    \* bound: how often a value changes

ASSUME ExporterAssumption == MaxVersion \in Nat

VARIABLES
  pool,     \* BackendPool.backends: the url of each
  live,     \* the value each cell has in the router
  gauge,    \* what the gauges hold: whose value, and which
  scrape    \* the handlers of the scrapes

exporterVars == <<live, gauge, scrape>>

\* The i-th backend of the pool is cell i, the permit counter is cell 0.
InFlight == 0
Cells == 0 .. Len(pool)

\* Backends of the same url have one gauge, named by the first of them.
GaugeOf(cell) ==
  IF cell = InFlight THEN InFlight ELSE Min({i \in DOMAIN pool : pool[i] = pool[cell]})

Gauges == {GaugeOf(cell) : cell \in Cells}

NotCreated == -1

Idle == [at |-> "idle", cell |-> 0, loaded |-> 0, todo |-> {},
         began |-> <<>>, since |-> <<>>]

\* RouterMetrics::new, for a pool of n backends.  A family has no gauge before
\* its labels are first used.
NewGauges(n) ==
  [c \in 0 .. n |-> [cell |-> c, value |-> IF c = InFlight THEN 0 ELSE NotCreated]]

-----------------------------------------------------------------------------
Running == {s \in Scrapes : scrape[s].at # "idle"}

Go(s, h) == scrape' = [scrape EXCEPT ![s] = h]

\* The router changes one of the values.
Change(cell) ==
  /\ live[cell] < MaxVersion
  /\ live' = [live EXCEPT ![cell] = @ + 1]
  /\ UNCHANGED <<gauge, scrape>>

\* Mutant of Begin: the registry is encoded as it is.
BeginEncode(s) ==
  /\ scrape[s].at = "idle"
  /\ Go(s, [Idle EXCEPT !.at = "lock", !.todo = Gauges, !.began = live, !.since = live])
  /\ UNCHANGED <<live, gauge>>

\* metrics_handler starts.  began and since are history: the values at this
\* moment, and at the start of the oldest scrape that is running now.
Begin(s) ==
  /\ scrape[s].at = "idle"
  /\ Go(s, [Idle EXCEPT
              !.at = "load", !.cell = 1, !.began = live,
              !.since = [c \in Cells |->
                           Min({live[c]} \union {scrape[t].began[c] : t \in Running})]])
  /\ UNCHANGED <<live, gauge>>

Load(s) ==
  /\ scrape[s].at = "load"
  /\ Go(s, [scrape[s] EXCEPT !.at = "set", !.loaded = live[scrape[s].cell]])
  /\ UNCHANGED <<live, gauge>>

\* The gauge is created if need be, and set; then it is the next backend's turn,
\* and after the last one the permit counter's.
Set(s) ==
  LET h    == scrape[s]
      next == IF h.cell = Len(pool) THEN InFlight ELSE h.cell + 1
  IN  /\ h.at = "set"
      /\ gauge' = [gauge EXCEPT ![GaugeOf(h.cell)] = [cell |-> h.cell, value |-> h.loaded]]
      /\ Go(s, IF h.cell = InFlight
               THEN [h EXCEPT !.at = "lock", !.todo = Gauges, !.loaded = 0]
               ELSE [h EXCEPT !.at = "load", !.cell = next, !.loaded = 0])
      /\ UNCHANGED live

\* RouterMetrics::encode locks the registry.
Lock(s) ==
  /\ scrape[s].at = "lock"
  /\ \A t \in Scrapes : scrape[t].at # "encode"
  /\ Go(s, [scrape[s] EXCEPT !.at = "encode"])
  /\ UNCHANGED <<live, gauge>>

\* One gauge is written to the answer, the permit counter's last; with it the
\* answer is complete.
Encode(s, g) ==
  LET h == scrape[s]
  IN  /\ h.at = "encode" /\ g \in h.todo
      /\ g = InFlight => h.todo = {InFlight}
      /\ Go(s, IF g = InFlight THEN Idle ELSE [h EXCEPT !.todo = h.todo \ {g}])
      /\ UNCHANGED <<live, gauge>>

ScrapeStep(s) ==
  \/ Begin(s) \/ Load(s) \/ Set(s) \/ Lock(s)
  \/ \E g \in scrape[s].todo : Encode(s, g)

-----------------------------------------------------------------------------
\* Although scrapes overwrite each other's gauges, none is answered with values
\* older than the scrapes it met: what is written for a gauge was the value of
\* a backend of that url at some moment since the oldest scrape that was
\* running when this one began.
ExportedIsRecent ==
  [][ \A s \in Scrapes :
        scrape[s].at = "encode" =>
          \A g \in scrape[s].todo \ scrape'[s].todo :
            /\ gauge[g].value # NotCreated
            /\ gauge[g].value >= scrape[s].since[gauge[g].cell] ]_<<pool, exporterVars>>
=============================================================================
