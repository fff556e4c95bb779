------------------------------- MODULE MCHealth -------------------------------
(***************************************************************************)
(* HealthAudit for TLC: a few /metrics bodies with several series,         *)
(* fractions, a value beyond the atomic's range, a negative one, NaN, an   *)
(* unreadable value and foreign metrics, and one without a KV-cache        *)
(* metric, one without a queue depth.                                      *)
(***************************************************************************)
EXTENDS HealthAudit

Num(name, tenths) == [name |-> name, form |-> "number", tenths |-> tenths]
Kv   == "vllm:kv_cache_usage_perc"
Kv05 == "vllm:gpu_cache_usage_perc"

MCBodies == {
  << Num(QueueName, 10), Num(QueueName, 15), Num(Kv, 3), Num(Kv05, 7) >>,
  << Num(QueueName, 90), Num("other", 40), [name |-> Kv, form |-> "NaN", tenths |-> 0] >>,
  << [name |-> QueueName, form |-> "text", tenths |-> 0],
     Num(QueueName, -20), Num(Kv, -1), Num(Kv, 12) >>,
  << Num(QueueName, 20) >>,
  << Num(Kv05, 5) >> }
=============================================================================
