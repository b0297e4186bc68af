------------------------------- MODULE Metrics -------------------------------
(***************************************************************************)
(* pkg/metrics/metrics.go: the registry every service keeps its metrics in *)
(* and what GET /metrics writes of them.  A registry is a value here; the  *)
(* module of a service keeps it in a variable and makes every atomic or    *)
(* locked operation on it a step of its own.                               *)
(***************************************************************************)
EXTENDS Integers, Sequences

NewRegistry == [counters |-> <<>>, gauges |-> <<>>, histograms |-> <<>>]

NewHistogram(buckets) ==
    [buckets |-> buckets, counts |-> [i \in 1 .. Len(buckets) + 1 |-> 0], sum |-> 0, total |-> 0]

(* Counter, Gauge and Histogram return the metric of that name, which they  *)
(* make first if there is none.                                             *)
GetOrCreate(metrics, name, new) ==
    [n \in DOMAIN metrics \cup {name} |-> IF n \in DOMAIN metrics THEN metrics[n] ELSE new]

WithCounter(reg, name) == [reg EXCEPT !.counters = GetOrCreate(@, name, 0)]
WithGauge(reg, name) == [reg EXCEPT !.gauges = GetOrCreate(@, name, 0)]
WithHistogram(reg, name, buckets) ==
    [reg EXCEPT !.histograms = GetOrCreate(@, name, NewHistogram(buckets))]

(* Counter.Inc, Gauge.Inc and Gauge.Dec. *)
CounterInc(reg, name) == [reg EXCEPT !.counters[name] = @ + 1]
GaugeAdd(reg, name, n) == [reg EXCEPT !.gauges[name] = @ + n]

(* The buckets a value falls in; only the first of them counts it. *)
Fits(h, ms) == {i \in DOMAIN h.buckets : ms <= h.buckets[i]} \cup {Len(h.buckets) + 1}
FirstFit(h, ms) == CHOOSE i \in Fits(h, ms) : \A k \in Fits(h, ms) : i <= k

(* Mutant: the loop goes on after the first bucket that fits. *)
ObservedInAll(h, ms) ==
    [h EXCEPT !.sum = @ + ms, !.total = @ + 1,
              !.counts = [i \in DOMAIN @ |-> IF i \in Fits(h, ms) THEN @[i] + 1 ELSE @[i]]]

(* Histogram.Observe, all of it under the histogram's lock. *)
CountIn(counts, i) == [counts EXCEPT ![i] = @ + 1]
Observed(h, ms) ==
    [h EXCEPT !.sum = @ + ms, !.total = @ + 1, !.counts = CountIn(@, FirstFit(h, ms))]

HistogramObserve(reg, name, ms) == [reg EXCEPT !.histograms[name] = Observed(@, ms)]

(* The running sum of the counts. *)
RunningSum(counts) ==
    LET cumulative[i \in 0 .. Len(counts)] == IF i = 0 THEN 0 ELSE cumulative[i - 1] + counts[i]
    IN  cumulative

(* The lines Handler writes of a snapshot: what fell in a bucket or in one  *)
(* below it, the last one being +Inf, then the sum and the count.           *)
Cumulative(h) == [i \in DOMAIN h.counts |-> RunningSum(h.counts)[i]]
Exposed(h) == [bucket |-> Cumulative(h), sum |-> h.sum, count |-> h.total]
=============================================================================
