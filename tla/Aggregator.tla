----------------------------- MODULE Aggregator -----------------------------
(***************************************************************************)
(* What aggregate() and metrics_text() report: src/aggregator.rs over the  *)
(* store of one worker, or over the merged shards of all of them, with the *)
(* quantile estimate of src/multiproc.rs.                                  *)
(*                                                                         *)
(* A call is one step here, and no worker comes or goes: how calls of      *)
(* several processes interleave, and what becomes of the shards, is the    *)
(* subject of Shards.  Floats are exact rationals.                         *)
(***************************************************************************)
EXTENDS ShardLayout

CONSTANTS
  Worker,
  MAX_REQUESTS,     (* Capacity of each worker's store.                     *)
  MaxRecords        (* Bound: requests in a behaviour.                      *)

ASSUME AggregatorAssumption ==
  IsFiniteSet(Worker) /\ MAX_REQUESTS \in Nat \ {0} /\ MaxRecords \in Nat

VARIABLES
  store,            (* The requests each worker retains, oldest first.      *)
  enabled,          (* Is multiproc mode on in the worker?                  *)
  shard,            (* Each worker's shard.                                 *)
  counted,          (* History: requests counted in each shard.             *)
  issued            (* Counter for the bound only.                          *)

vars == <<store, enabled, shard, counted, issued>>

AggregatorTypeOK ==
  /\ \A w \in Worker : store[w] \in Seq(Requests) /\ Len(store[w]) <= MAX_REQUESTS
  /\ enabled \in [Worker -> BOOLEAN]
  /\ shard \in [Worker -> [MergeSlots -> Nat]]
  /\ \A w \in Worker : counted[w] \in Seq(Requests)
  /\ issued \in 0 .. MaxRecords

Init ==
  /\ store = [w \in Worker |-> <<>>]
  /\ enabled = [w \in Worker |-> FALSE]
  /\ shard = [w \in Worker |-> EmptyReading]
  /\ counted = [w \in Worker |-> <<>>]
  /\ issued = 0

(* The oldest request goes when there are too many.                         *)
Retained_All(reqs) == reqs
Retained(reqs) == IF Len(reqs) > MAX_REQUESTS THEN Tail(reqs) ELSE reqs

(* record_request(): the shard first, if there is one, then the store.      *)
record(w, req) ==
  /\ issued < MaxRecords
  /\ issued' = issued + 1
  /\ IF enabled[w]
       THEN /\ shard' = [shard EXCEPT ![w] =
                 [s \in MergeSlots |-> IF s \in RecordSlots(req)
                                         THEN Added(s, @[s], micros(req.ticks))
                                         ELSE @[s]]]
            /\ counted' = [counted EXCEPT ![w] = Append(@, req)]
       ELSE UNCHANGED <<shard, counted>>
  /\ store' = [store EXCEPT ![w] = Retained(Append(@, req))]
  /\ UNCHANGED enabled

(* clear_requests() empties the store and leaves the shard alone.           *)
clear(w) ==
  /\ store' = [store EXCEPT ![w] = <<>>]
  /\ UNCHANGED <<enabled, shard, counted, issued>>

(* set_multiproc_dir(): going back to one's shard keeps its counters.       *)
set_dir(w, on) ==
  /\ enabled' = [enabled EXCEPT ![w] = on]
  /\ UNCHANGED <<store, shard, counted, issued>>

Next ==
  \E w \in Worker :
    \/ \E req \in Requests : record(w, req)
    \/ clear(w)
    \/ \E on \in BOOLEAN : set_dir(w, on)

Spec == Init /\ [][Next]_vars

-----------------------------------------------------------------------------
(* Rationals, as <<numerator, denominator>> with a positive denominator.    *)

Rat(n)     == <<n, 1>>
Leq(a, b)  == a[1] * b[2] <= b[1] * a[2]

(* Latencies as they are reported: rationals, in ticks.                     *)
Ticks(us) == Rat(TICKS_PER_US * us)

(* percentile(): the index is p% of the last one, rounded half up.          *)
percentile(sorted, p) == sorted[1 + (2 * p * (Len(sorted) - 1) + 100) \div 200]

(* The bounds of a bucket; the overflow bucket ends at the maximum observed.*)
lower_bound(i) == TICKS_PER_US * (IF i = 0 THEN 0 ELSE BUCKET_BOUNDS[i])
upper_bound(i, max_us) ==
  IF i < Len(BUCKET_BOUNDS) THEN TICKS_PER_US * BUCKET_BOUNDS[i + 1]
                            ELSE Max({TICKS_PER_US * max_us, lower_bound(i)})

Cumulative(buckets, i) == MapThenSumSet(LAMBDA j : buckets[j], 0 .. i)

(* The first bucket that reaches the rank.                                  *)
rank_bucket_Over(p, buckets) ==
  Min({i \in 0 .. NUM_BUCKETS - 1 :
         100 * Cumulative(buckets, i) > p * Cumulative(buckets, NUM_BUCKETS - 1)})

rank_bucket(p, buckets) ==
  Min({i \in 0 .. NUM_BUCKETS - 1 :
         100 * Cumulative(buckets, i) >= p * Cumulative(buckets, NUM_BUCKETS - 1)})

(* histogram_quantile(): the place of the rank between that bucket's bounds.*)
histogram_quantile(p, buckets, max_us) ==
  LET total  == Cumulative(buckets, NUM_BUCKETS - 1)
      i      == rank_bucket(p, buckets)
      before == Cumulative(buckets, i) - buckets[i]
      lower  == lower_bound(i)
  IN  IF total = 0 THEN Rat(0)
      ELSE IF buckets[i] = 0 THEN Rat(lower)
      ELSE <<lower * 100 * buckets[i]
               + (upper_bound(i, max_us) - lower) * (p * total - 100 * before),
             100 * buckets[i]>>

-----------------------------------------------------------------------------
(* compute().  An error rate is the rational errors per request.            *)

NoMetrics ==
  [total |-> 0, errors |-> 0, error_rate |-> Rat(0), avg |-> Rat(0),
   min |-> Rat(0), max |-> Rat(0), p50 |-> Rat(0), p95 |-> Rat(0), p99 |-> Rat(0)]

aggregate_from_merged(m) ==
  LET q(p) == histogram_quantile(p, m.buckets, m.max_us)
  IN  [total |-> m.total, errors |-> m.errors, error_rate |-> <<m.errors, m.total>>,
       avg |-> <<TICKS_PER_US * m.sum_us, m.total>>,
       min |-> IF m.min_us = MIN_EMPTY THEN Rat(0) ELSE Ticks(m.min_us),
       max |-> Ticks(m.max_us), p50 |-> q(50), p95 |-> q(95), p99 |-> q(99)]

Failed(reqs)       == Cardinality({k \in DOMAIN reqs : reqs[k].status >= 400})
TickSum(durations) == MapThenSumSet(LAMBDA k : durations[k], DOMAIN durations)

(* The k-th smallest of the values of f on S.                               *)
Ranked(f, S, k) ==
  CHOOSE t \in {f[x] : x \in S} :
    /\ Cardinality({x \in S : f[x] < t}) < k
    /\ Cardinality({x \in S : f[x] <= t}) >= k

Sorted_Not(durations) == durations
Sorted(durations) == [k \in DOMAIN durations |-> Ranked(durations, DOMAIN durations, k)]

aggregate_from_store(reqs) ==
  LET total     == Len(reqs)
      durations == [k \in DOMAIN reqs |-> reqs[k].ticks]
      sorted    == Sorted(durations)
  IN  [total |-> total, errors |-> Failed(reqs), error_rate |-> <<Failed(reqs), total>>,
       avg |-> <<TickSum(durations), total>>,
       min |-> Rat(sorted[1]), max |-> Rat(sorted[total]),
       p50 |-> Rat(percentile(sorted, 50)),
       p95 |-> Rat(percentile(sorted, 95)),
       p99 |-> Rat(percentile(sorted, 99))]

compute_Local(w) == IF store[w] = <<>> THEN NoMetrics ELSE aggregate_from_store(store[w])

compute(w) ==
  IF enabled[w]
    THEN LET m == Merged(shard) IN IF m.total = 0 THEN NoMetrics ELSE aggregate_from_merged(m)
    ELSE IF store[w] = <<>> THEN NoMetrics ELSE aggregate_from_store(store[w])

-----------------------------------------------------------------------------
(* All the requests counted in the shards, and the k-th fastest of them.    *)
All == {r \in Worker \X (1 .. MaxRecords) : r[2] \in DOMAIN counted[r[1]]}
Latency == [r \in All |-> counted[r[1]][r[2]].ticks]

Failures == {r \in All : counted[r[1]][r[2]].status >= 400}

KthFastest(k) == Ranked(Latency, All, k)

(* In multiproc mode every worker reports the same numbers, those of the    *)
(* requests of all of them: exact counts, the extremes cut to microseconds, *)
(* and an average less than a microsecond too small.                        *)
MergedExact ==
  \A w \in Worker : enabled[w] =>
    LET agg == compute(w)
        sum == MapThenSumSet(LAMBDA r : Latency[r], All)
        n   == Cardinality(All)
    IN  /\ agg.total = n
        /\ agg.errors = Cardinality(Failures)
        /\ n > 0 =>
             /\ agg.min = Ticks(micros(KthFastest(1)))
             /\ agg.max = Ticks(micros(KthFastest(n)))
             /\ Leq(agg.avg, <<sum, n>>)
             /\ sum * agg.avg[2] < (agg.avg[1] + TICKS_PER_US * agg.avg[2]) * n

(* A quantile estimated from the merged histogram lies in the bucket of the *)
(* request that is exactly at that rank, whichever worker served it.        *)
EstimateInBucket ==
  \A w \in Worker : enabled[w] /\ All # {} =>
    LET agg == compute(w)
        near(est, p) ==
          LET exact == KthFastest((p * Cardinality(All) + 99) \div 100)
              i     == bucket_index(exact)
          IN  /\ Leq(Rat(lower_bound(i)), est)
              /\ Leq(est, IF i < Len(BUCKET_BOUNDS) THEN Rat(TICKS_PER_US * BUCKET_BOUNDS[i + 1])
                          ELSE Rat(KthFastest(Cardinality(All))))
    IN  near(agg.p50, 50) /\ near(agg.p95, 95) /\ near(agg.p99, 99)

(* In both modes the percentiles are in order, and those of the store lie   *)
(* between its extremes, as the average does.                               *)
PercentilesOrdered ==
  \A w \in Worker :
    LET agg == compute(w)
    IN  /\ Leq(agg.p50, agg.p95) /\ Leq(agg.p95, agg.p99)
        /\ Leq(agg.min, agg.avg) /\ Leq(agg.avg, agg.max)
        /\ ~enabled[w] => Leq(agg.min, agg.p50) /\ Leq(agg.p99, agg.max)
=============================================================================
