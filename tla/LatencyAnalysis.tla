-------------------------- MODULE LatencyAnalysis --------------------------
(***************************************************************************)
(* The pure part of internal/infrastructure/gatewayclient/latency_tools.go:   *)
(* from a scrape of the gateway's histograms to the recommended timeouts and   *)
(* the series that is tuned.                                                    *)
(*                                                                           *)
(* A scrape is a set of histograms [route, upstream, service, phase, class,    *)
(* buckets, count]; buckets maps upper bounds in ms to cumulative counts.       *)
(* Latencies are whole ms, quantiles percents, the safety factor an integer of  *)
(* any size: what is computed in float64 has no bound here, what is converted      *)
(* to int has.                                                                     *)
(***************************************************************************)
EXTENDS Integers, FiniteSetsExt

CONSTANTS
  MaxInt,       \* the greatest int
  AboveRange,   \* what a number above it is converted to, and ...
  BelowRange    \* ... one below the least int: the language leaves both to the platform

Ints == -MaxInt - 1..MaxInt

ASSUME IntAssumption ==
  MaxInt \in Nat \ {0} /\ AboveRange \in Ints /\ BelowRange \in Ints

All == ""        \* an empty filter, an empty label
Inf == 1000000   \* the bound of the +Inf bucket, above every other

\* int(f): a conversion that is checked nowhere.
ToInt(v) == IF v > MaxInt THEN AboveRange ELSE IF v < -MaxInt - 1 THEN BelowRange ELSE v

AtLeast(v, low) == IF v < low THEN low ELSE v

\* defaultTuningOptions, after the arguments were read.
TuningOptions(raw) ==
  [raw EXCEPT !.minSamples = AtLeast(ToInt(@), 1),
              !.quantile   = IF @ \in 1..100 THEN @ ELSE 95,
              !.safety     = AtLeast(@, 1),
              !.minConnect = AtLeast(@, 100),
              !.minRead    = AtLeast(@, 300),
              !.maxConnect = AtLeast(ToInt(@), 1),
              !.maxRead    = AtLeast(ToInt(@), 1)]

\* Mutant of Selected: failed requests count as well.
SelectedAnyClass(h, opts) ==
  /\ opts.route \in {All, h.route} /\ opts.upstream \in {All, h.upstream}
  /\ h.phase # All /\ {h.route, h.upstream} # {All}

Selected(h, opts) ==
  /\ opts.route \in {All, h.route} /\ opts.upstream \in {All, h.upstream}
  /\ opts.non2xx \/ h.class = "2xx"
  /\ h.phase # All /\ {h.route, h.upstream} # {All}

\* parseLatencySeries: histograms that differ in the class only are added up.
Merged(hists) ==
  [count   |-> SumFunction([h \in hists |-> h.count]),
   buckets |-> [b \in UNION {DOMAIN h.buckets : h \in hists} |->
     SumFunction([h \in {x \in hists : b \in DOMAIN x.buckets} |-> h.buckets[b]])]]

KeyOf(h) == [route |-> h.route, upstream |-> h.upstream, service |-> h.service]

Series(scrape, key, phase, opts) ==
  Merged({h \in scrape : Selected(h, opts) /\ KeyOf(h) = key /\ h.phase = phase})

\* Mutant of HistogramQuantile: the share has to be exceeded.
QuantileExceeded(series, percent) ==
  LET reached == {b \in DOMAIN series.buckets :
                    series.buckets[b] * 100 > AtLeast(series.count * percent, 100)}
  IN  IF series.count <= 0 THEN 0
      ELSE IF reached \ {Inf} # {} THEN Min(reached \ {Inf})
      ELSE Max({0} \union (DOMAIN series.buckets \ {Inf}))

\* histogramQuantile: the first bound that covers the share; beyond the last
\* finite bound there is nothing better than that bound.
HistogramQuantile(series, percent) ==
  LET reached == {b \in DOMAIN series.buckets :
                    series.buckets[b] * 100 >= AtLeast(series.count * percent, 100)}
  IN  IF series.count <= 0 THEN 0
      ELSE IF reached \ {Inf} # {} THEN Min(reached \ {Inf})
      ELSE Max({0} \union (DOMAIN series.buckets \ {Inf}))

\* A phase with too few samples is as good as absent.
P95(series, opts) ==
  IF series.count < opts.minSamples THEN 0 ELSE HistogramQuantile(series, 95)

\* Mutant of Seconds: rounded down.
SecondsDown(ms, max) ==
  LET floor == ToInt(ms \div 1000)
  IN  IF floor < 1 THEN 1 ELSE IF floor > max THEN max ELSE floor

CeilSeconds(ms) == (ms + 999) \div 1000

\* Rounded up, converted, and only then cut to the limits.
Seconds(ms, max) ==
  LET ceiling == ToInt(CeilSeconds(ms))
  IN  IF ceiling < 1 THEN 1 ELSE IF ceiling > max THEN max ELSE ceiling

RecommendTimeouts(connect, total, opts) ==
  LET basis(p95, floor) == AtLeast((IF p95 <= 0 THEN floor ELSE p95) * opts.safety, floor)
      read == Seconds(basis(total, opts.minRead), opts.maxRead)
  IN  [connect |-> Seconds(basis(connect, opts.minConnect), opts.maxConnect),
       send |-> read, read |-> read]

\* buildLatencyEntries: one entry for each key with enough samples in total.
Entry(key, connect, total, opts) ==
  [key |-> key, p95 |-> total, timeout |-> RecommendTimeouts(connect, total, opts)]

LatencyEntries(scrape, opts) ==
  {Entry(k, P95(Series(scrape, k, "connect", opts), opts),
            P95(Series(scrape, k, "total", opts), opts), opts) :
     k \in {KeyOf(h) : h \in
              {x \in scrape : Series(scrape, KeyOf(x), "total", opts).count >= opts.minSamples}}}

\* Mutant of TuningTargets: sorted the wrong way round.
FastestEntries(entries) == {e \in entries : \A other \in entries : other.p95 >= e.p95}

\* chooseTuningTarget: the first entry by falling p95.  The sort is not stable
\* and starts from the iteration order of a map: among equals any may be first.
TuningTargets(entries) == {e \in entries : \A other \in entries : other.p95 <= e.p95}

=============================================================================
