--------------------------- MODULE LatencyTraffic ---------------------------
(***************************************************************************)
(* The gateway's latency histograms as its traffic fills them, observed one    *)
(* batch of requests at a time, and what analyze_latency of LatencyAnalysis      *)
(* answers after each (latency_tools.go:95).  What is claimed of an answer is      *)
(* claimed against the traffic itself.                                            *)
(***************************************************************************)
EXTENDS LatencyAnalysis

CONSTANTS
  Streams,      \* what the labels of the gateway tell apart
  Label,        \* Label[s]: the key and the class of stream s
  Bounds,       \* the finite bucket bounds, in ms
  BatchSizes,   \* how many requests may come at once
  RawOptions,   \* the options callers give, see TuningOptions
  MaxBatches    \* bound on the batches of a behaviour

Labels ==
  [key : [route : STRING, upstream : STRING, service : STRING], class : STRING]

Options(Numbers) ==
  [route : STRING, upstream : STRING, minSamples : Numbers, quantile : Numbers,
   safety : Numbers, minConnect : Numbers, minRead : Numbers, maxConnect : Numbers,
   maxRead : Numbers, non2xx : BOOLEAN]

ASSUME TrafficAssumption ==
  /\ IsFiniteSet(Streams)
  /\ Label \in [Streams -> Labels]
  /\ \A s, r \in Streams : Label[s] = Label[r] => s = r
  /\ Bounds # {} /\ Bounds \subseteq 1..Inf - 1
  /\ BatchSizes \subseteq Nat
  /\ RawOptions \subseteq Options(Int)

VARIABLES
  load,       \* load[p][s][b]: the requests of stream s that spent at most b in phase p
  entries,    \* what analyze_latency answers now, for each of the options
  batches
vars == <<load, entries, batches>>

Phases  == {"total", "connect"}
Buckets == Bounds \union {Inf}

\* A histogram of the gateway.
Histogram(l, s, p) ==
  [route |-> Label[s].key.route, upstream |-> Label[s].key.upstream,
   service |-> Label[s].key.service, phase |-> p, class |-> Label[s].class,
   buckets |-> l[p][s], count |-> l[p][s][Inf]]

Scrape(l) == {Histogram(l, s, p) : s \in Streams, p \in Phases}

AllOptions == {TuningOptions(raw) : raw \in RawOptions}

\* AnalyzeLatency, for each of the options: a scrape, and its entries.
Analyze(l) == [opts \in AllOptions |-> LatencyEntries(Scrape(l), opts)]

Init ==
  /\ load = [p \in Phases |-> [s \in Streams |-> [b \in Buckets |-> 0]]]
  /\ entries = Analyze(load)
  /\ batches = 0

\* A cumulative histogram counts a request in every bucket from its own upwards.  A
\* request over a connection that was kept open connects to nothing.
Observe(s, b, n, measured) ==
  /\ batches < MaxBatches
  /\ load' = [p \in Phases |->
       IF p \in measured
       THEN [load[p] EXCEPT ![s] = [x \in Buckets |-> IF x < b THEN @[x] ELSE @[x] + n]]
       ELSE load[p]]
  /\ entries' = Analyze(load')
  /\ batches' = batches + 1

Next ==
  \E s \in Streams, b \in Buckets, n \in BatchSizes, measured \in {{"total"}, Phases} :
    Observe(s, b, n, measured)

Spec == Init /\ [][Next]_vars

-----------------------------------------------------------------------------
Keys == {Label[s].key : s \in Streams}

\* The options let traffic of a key through.
Admits(opts, key) ==
  /\ opts.route \in {All, key.route} /\ opts.upstream \in {All, key.upstream}
  /\ {key.route, key.upstream} # {All}

\* The streams of a key that count under opts, and how many of their requests
\* spent at most b in a phase, by the load of that phase.
Counted(key, opts) ==
  {s \in Streams : Label[s].key = key /\ (opts.non2xx \/ Label[s].class = "2xx")}
Within(l, key, b, opts) == SumFunctionOnSet([s \in Streams |-> l[s][b]], Counted(key, opts))

\* 95 percent of the requests of a key stayed within b.
Covers(l, key, b, opts) == Within(l, key, b, opts) * 20 >= Within(l, key, Inf, opts) * 19

\* The p95 of an entry is the tightest bucket bound that 95 percent of the
\* requests with its key stayed within, or the largest finite one if none does.
QuantileIsTightest ==
  \A opts \in AllOptions : \A e \in entries[opts] :
    /\ e.p95 \in Bounds
    /\ \/ Covers(load["total"], e.key, e.p95, opts)
       \/ \A b \in Bounds : ~Covers(load["total"], e.key, b, opts) /\ b <= e.p95
    /\ \A b \in Bounds : b < e.p95 => ~Covers(load["total"], e.key, b, opts)

\* What is recommended under opts, before it is cut, are seconds that an int holds.
Fits(ms) == CeilSeconds(ms) <= MaxInt
Converts(opts) ==
  \A ms \in Bounds \union {opts.minConnect, opts.minRead} : Fits(ms * opts.safety)

\* Timeouts are whole seconds within the caller's limits, whatever the options.
\* Where the seconds fit an int, a timeout the limit does not cut is never shorter
\* than the minimum, and not than the safety factor times a bound that 95 percent
\* of the requests, or of their connects, stayed within.  Where they do not, the
\* conversion may leave one second: the limits are all that is claimed then.
TimeoutsCoverTraffic ==
  \A opts \in AllOptions : \A e \in entries[opts] :
    /\ e.timeout.read \in 1..opts.maxRead /\ e.timeout.connect \in 1..opts.maxConnect
    /\ \/ e.timeout.read = opts.maxRead \/ ~Converts(opts)
       \/ e.timeout.read * 1000 >= e.p95 * opts.safety /\ e.timeout.read * 1000 >= opts.minRead
    /\ \/ e.timeout.connect = opts.maxConnect \/ ~Converts(opts)
       \/ /\ e.timeout.connect * 1000 >= opts.minConnect
          /\ \/ Within(load["connect"], e.key, Inf, opts) < opts.minSamples
             \/ \E b \in Bounds :
                  /\ e.timeout.connect * 1000 >= b * opts.safety
                  /\ Covers(load["connect"], e.key, b, opts) \/ \A c \in Bounds : c <= b

\* What is tuned is a series whose traffic is slowest: no other eligible key has a
\* greater p95, nor, where the seconds fit an int, would need a longer read timeout.
SlowestIsTuned ==
  \A opts \in AllOptions : \A target \in TuningTargets(entries[opts]) :
    \A key \in Keys :
      (Admits(opts, key) /\ Within(load["total"], key, Inf, opts) >= opts.minSamples) =>
        \E e \in entries[opts] :
          /\ e.key = key /\ e.p95 <= target.p95
          /\ Converts(opts) => e.timeout.read <= target.timeout.read

Recommended(key, opts) ==
  {e.timeout.read : e \in {x \in entries[opts] : x.key = key}}

\* Failed requests move no recommendation unless they were asked for, and a
\* request slower than every bound never shortens one whose seconds fit an int.
SlowTrafficNeverShortens ==
  [][\A opts \in AllOptions :
       /\ ~opts.non2xx
            /\ (\A p \in Phases, s \in Streams : Label[s].class = "2xx" => load'[p][s] = load[p][s])
            => entries'[opts] = entries[opts]
       /\ \A s \in Streams :
            (/\ load'["total"][s][Inf] > load["total"][s][Inf]
             /\ \A b \in Bounds : load'["total"][s][b] = load["total"][s][b]
             /\ Converts(opts)) =>
              \A before \in Recommended(Label[s].key, opts) :
                \E after \in Recommended(Label[s].key, opts)' : before <= after]_vars

\* internal/interfaces/mcp/schemas.go:87: the quantile option is the quantile used
\* for recommendations.
QuantileOptionIsUsed ==
  \A raw \in RawOptions, percent \in {50, 95} :
    LET opts == TuningOptions([raw EXCEPT !.quantile = percent])
    IN  \A e \in LatencyEntries(Scrape(load), opts) :
          e.timeout.read = RecommendTimeouts(0,
            HistogramQuantile(Series(Scrape(load), e.key, "total", opts), percent), opts).read

=============================================================================
