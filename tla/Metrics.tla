------------------------------ MODULE Metrics ------------------------------
(***************************************************************************)
(* The latencies of metrics.Collector: a window of the most recent ones,   *)
(* of which a snapshot sorts a copy and takes the 95th percentile by a     *)
(* truncated index.                                                        *)
(***************************************************************************)
EXTENDS Integers, Sequences, FiniteSets, Functions

CONSTANTS
  Window,     \* 4096, not 0
  Percent,    \* 95, at most 100
  Earlier     \* latencies of the requests before those considered

VARIABLES
  samples,    \* latencySamples
  p95,        \* of the last snapshot
  shown,      \* how many requests that snapshot covers
  history     \* all latencies, for the properties

Last(n, seq) == IF Len(seq) <= n THEN seq ELSE SubSeq(seq, Len(seq) - n + 1, Len(seq))

\* No snapshot has been taken yet.
Init == history = Earlier /\ samples = Last(Window, Earlier) /\ p95 = 0 /\ shown = 0

\* Mutant: the first latencies are kept.
AddLatencyOldest(d) ==
  /\ history' = Append(history, d)
  /\ samples' = IF Len(samples) < Window THEN Append(samples, d) ELSE samples
  /\ UNCHANGED <<p95, shown>>

AddLatency(d) ==
  /\ history' = Append(history, d)
  /\ samples' = Last(Window, Append(samples, d))
  /\ UNCHANGED <<p95, shown>>

\* Index into the sorted samples, from 0: int(float64(n - 1) * 0.95).
Rank(n) == ((n - 1) * Percent) \div 100

\* The orders in which sort.Float64s can leave a copy of the samples.
SortedOrders ==
  {order \in Bijection(DOMAIN samples, DOMAIN samples) :
     \A i, j \in DOMAIN samples : i < j => samples[order[i]] <= samples[order[j]]}

Snapshot ==
  /\ \E order \in SortedOrders :
       p95' = IF samples = <<>> THEN 0 ELSE samples[order[Rank(Len(samples)) + 1]]
  /\ shown' = Len(history)
  /\ UNCHANGED <<samples, history>>

-----------------------------------------------------------------------------
\* The percentile of a snapshot ranks among the most recent latencies, a window of
\* them, whatever was added and however often it was read before: no more of them
\* than the truncated rank are below it, and more than the rank are not above it.
PercentileOfRecent ==
  LET recent == Last(Window, SubSeq(history, 1, shown))
      below == {i \in DOMAIN recent : recent[i] < p95}
      upTo == {i \in DOMAIN recent : recent[i] <= p95}
  IN recent # <<>> => /\ Cardinality(below) <= Rank(Len(recent))
                      /\ Cardinality(upTo) > Rank(Len(recent))
=============================================================================
