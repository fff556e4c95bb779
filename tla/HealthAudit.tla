----------------------------- MODULE HealthAudit -----------------------------
(***************************************************************************)
(* Health with history variables: the newest results of the probes of a    *)
(* backend, and the body its scraped values come from.  The hysteresis of  *)
(* apply_probe_result, two counters and a flag, and the fold of            *)
(* parse_backend_metrics are checked against what they stand for.          *)
(***************************************************************************)
EXTENDS Health

VARIABLES
  recent,     \* recent[b]: whether each of the newest MaxStreak probes of b
              \* passed, oldest first
  scraped     \* scraped[b]: the body of the last scrape if it succeeded and
              \* the backend was not seen down since, else the empty body

auditVars == <<vars, recent, scraped>>

AuditInit ==
  /\ Init
  /\ recent = [b \in Backends |-> <<>>]
  /\ scraped = [b \in Backends |-> <<>>]

AuditProbe(b) ==
  /\ ProbeEnds(b)
  /\ recent' = [recent EXCEPT ![b] =
                  Append(IF Len(@) < MaxStreak THEN @ ELSE Tail(@), up[b])]
  /\ scraped' = [scraped EXCEPT ![b] = IF ~up[b] /\ ~healthy'[b] THEN <<>> ELSE @]

AuditScrape(b) ==
  /\ \/ \E body \in Bodies :
          ApplyScrape(b, body) /\ scraped' = [scraped EXCEPT ![b] = body]
     \/ ScrapeFails(b) /\ scraped' = [scraped EXCEPT ![b] = <<>>]
  /\ UNCHANGED recent

AuditNext ==
  \/ \E b \in Backends : AuditProbe(b) \/ AuditScrape(b)
  \/ (StartRound \/ \E b \in Backends : Flip(b)) /\ UNCHANGED <<recent, scraped>>

AuditSpec == AuditInit /\ [][AuditNext]_auditVars /\ Fairness

-----------------------------------------------------------------------------
\* The newest n results of history h were all v.
Streak(h, v, n) ==
  Len(h) >= n /\ \A i \in Len(h) - n + 1 .. Len(h) : h[i] = v

\* "unhealthy_threshold consecutive failures mark down, healthy_threshold
\* consecutive successes mark up": the flag is what the newest results of the
\* probes say, and stays while they say nothing.
FlagMatchesHistory ==
  [][ \A b \in Backends :
        healthy'[b] <=>
          \/ Streak(recent'[b], TRUE, Effective(HealthyThreshold))
          \/ healthy[b] /\ ~Streak(recent'[b], FALSE, Effective(UnhealthyThreshold))
    ]_auditVars

\* The values of all series of one metric, as a set of the tenths they stand for.
Tenths(body, names) == {NonNegative(body[i]) : i \in Series(body, names)}

\* The tenths each line of a body reports as waiting requests, 0 if none.
Waiting(body) ==
  [i \in DOMAIN body |-> IF body[i].name = QueueName /\ body[i].form # "text"
                         THEN NonNegative(body[i]) ELSE 0]

\* "queue depth is the sum over all series, KV-cache usage the maximum", and
\* both are those of the last scrape that still counts: nothing is left over
\* from a body that named a metric the newer one lacks.
ScrapeMatchesBody ==
  \A b \in Backends :
    LET body  == scraped[b]
        depth == queueDepth[b]
        sum   == MapThenSumSet(LAMBDA i : Waiting(body)[i], DOMAIN body)
    IN  /\ depth < U64Max => 10 * depth <= sum /\ sum < 10 * (depth + 1)
        /\ depth = U64Max => sum >= 10 * U64Max
        /\ \A t \in Tenths(body, KvNames) : kvCacheBp[b] >= 1000 * Min({t, 10})
        /\ kvCacheBp[b] # 0 =>
             \E t \in Tenths(body, KvNames) : kvCacheBp[b] = 1000 * Min({t, 10})
=============================================================================
