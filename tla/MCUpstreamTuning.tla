-------------------------- MODULE MCUpstreamTuning --------------------------
(***************************************************************************)
(* Instances of UpstreamTuning whose findings are those of LatencyAnalysis:   *)
(* for a scrape in which two upstreams share the highest p95, one in which      *)
(* the slowest series has no upstream, and one with too few samples.             *)
(***************************************************************************)
EXTENDS UpstreamTuning, TLC

Latency == INSTANCE LatencyAnalysis WITH MaxInt <- 1000, AboveRange <- 1000, BelowRange <- 0

Histogram(id, slow, count) ==
  [route |-> "r1", upstream |-> id, service |-> "s1", phase |-> "total",
   class |-> "2xx", count |-> count,
   buckets |-> [b \in {200, 4000, Latency!Inf} |-> IF b = 200 /\ slow THEN 0 ELSE count]]

Scrapes ==
  {{Histogram("u1", TRUE, 40), Histogram("u2", TRUE, 20)},
   {Histogram("u1", FALSE, 40), Histogram("", TRUE, 40)},
   {Histogram("u1", FALSE, 40)},
   {Histogram("u1", TRUE, 2)}}

Options == Latency!TuningOptions(
  [route |-> "", upstream |-> "", minSamples |-> 5, quantile |-> 95, safety |-> 3,
   minConnect |-> 300, minRead |-> 1000, maxConnect |-> 10, maxRead |-> 60,
   non2xx |-> FALSE])

Found(entry) ==
  IF entry.key.upstream = "" THEN [verdict |-> "no_upstream"]
  ELSE [verdict |-> "tune", upstream |-> entry.key.upstream, timeout |-> entry.timeout]

FindingsOf(scrape) ==
  LET entries == Latency!LatencyEntries(scrape, Options)
  IN  IF entries = {} THEN {[verdict |-> "nothing"]}
      ELSE {Found(e) : e \in Latency!TuningTargets(entries)}

MCFindings == UNION {FindingsOf(scrape) : scrape \in Scrapes}

MCTimeouts == {f.timeout : f \in {x \in MCFindings : x.verdict = "tune"}}

Perms == Permutations(Tuners)

=============================================================================
