-------------------------- MODULE AggregatorProofs --------------------------
(***************************************************************************)
(* Proofs about Aggregator for any workers, bucket bounds, latencies and   *)
(* capacity of the store.                                                  *)
(***************************************************************************)
EXTENDS Aggregator, ShardLayoutProofs

-----------------------------------------------------------------------------
(* Type correctness.                                                        *)
IType ==
  /\ AggregatorTypeOK
  /\ store \in [Worker -> Seq(Requests)]
  /\ counted \in [Worker -> Seq(Requests)]
  /\ \A w \in Worker : Len(counted[w]) <= issued

LEMMA RetainedType ==
  ASSUME NEW S, NEW reqs \in Seq(S), Len(reqs) <= MAX_REQUESTS + 1
  PROVE  Retained(reqs) \in Seq(S) /\ Len(Retained(reqs)) <= MAX_REQUESTS
<1>1. MAX_REQUESTS \in Nat \ {0} /\ Len(reqs) \in Nat
  BY AggregatorAssumption
<1>2. CASE Len(reqs) > MAX_REQUESTS
  <2>1. reqs # <<>>
    BY <1>1, <1>2
  <2>2. Tail(reqs) \in Seq(S) /\ Len(Tail(reqs)) = Len(reqs) - 1
    BY <2>1
  <2> QED BY <1>1, <1>2, <2>2 DEF Retained
<1>3. CASE Len(reqs) <= MAX_REQUESTS
  BY <1>1, <1>3 DEF Retained
<1> QED BY <1>1, <1>2, <1>3

(* What recording a request makes of the shard of a worker.                 *)
Recorded(slots, req) ==
  [s \in MergeSlots |-> IF s \in RecordSlots(req) THEN Added(s, slots[s], micros(req.ticks))
                                                  ELSE slots[s]]

LEMMA RecordedType ==
  ASSUME NEW slots \in [MergeSlots -> Nat], NEW req \in Requests
  PROVE  Recorded(slots, req) \in [MergeSlots -> Nat]
<1>1. micros(req.ticks) \in Nat
  BY RequestAssumption, MicrosType
<1>2. ASSUME NEW s \in MergeSlots
      PROVE  Added(s, slots[s], micros(req.ticks)) \in Nat
  BY <1>1, SlotType, AddedType
<1> QED BY <1>2 DEF Recorded

(* The two things record() does.                                            *)
LEMMA RecordIs ==
  ASSUME IType, NEW w \in Worker, NEW req \in Requests, record(w, req)
  PROVE  /\ IF enabled[w]
              THEN /\ shard' = [shard EXCEPT ![w] = Recorded(shard[w], req)]
                   /\ counted' = [counted EXCEPT ![w] = Append(counted[w], req)]
              ELSE UNCHANGED <<shard, counted>>
         /\ store' = [store EXCEPT ![w] = Retained(Append(store[w], req))]
         /\ issued' = issued + 1 /\ issued < MaxRecords /\ enabled' = enabled
<1>1. enabled[w] => shard' = [shard EXCEPT ![w] =
                      [s \in MergeSlots |-> IF s \in RecordSlots(req)
                                              THEN Added(s, shard[w][s], micros(req.ticks))
                                              ELSE shard[w][s]]]
  BY DEF record, IType, AggregatorTypeOK
<1>2. enabled[w] => counted' = [counted EXCEPT ![w] = Append(counted[w], req)]
  BY DEF record, IType
<1> QED BY <1>1, <1>2 DEF record, Recorded, IType

LEMMA InitIType == Init => IType
<1> SUFFICES ASSUME Init PROVE IType
  OBVIOUS
<1>1. EmptyReading \in [MergeSlots -> Nat]
  BY RequestAssumption DEF EmptyReading
<1>2. <<>> \in Seq(Requests) /\ Len(<<>>) = 0
  OBVIOUS
<1> QED BY <1>1, <1>2, AggregatorAssumption DEF Init, IType, AggregatorTypeOK

LEMMA NextIType == IType /\ [Next]_vars => IType'
<1> SUFFICES ASSUME IType, [Next]_vars PROVE IType'
  OBVIOUS
<1> USE DEF IType, AggregatorTypeOK
<1>1. ASSUME NEW w \in Worker, NEW req \in Requests, record(w, req)
      PROVE  IType'
  <2>1. /\ store' = [store EXCEPT ![w] = Retained(Append(store[w], req))]
        /\ issued' = issued + 1 /\ issued < MaxRecords /\ enabled' = enabled
        /\ IF enabled[w]
             THEN /\ shard' = [shard EXCEPT ![w] = Recorded(shard[w], req)]
                  /\ counted' = [counted EXCEPT ![w] = Append(counted[w], req)]
             ELSE UNCHANGED <<shard, counted>>
    BY <1>1, RecordIs
  <2>2. Append(store[w], req) \in Seq(Requests) /\ Len(Append(store[w], req)) <= MAX_REQUESTS + 1
    BY AggregatorAssumption
  <2> DEFINE kept == Retained(Append(store[w], req))
  <2>3. kept \in Seq(Requests) /\ Len(kept) <= MAX_REQUESTS
    BY <2>2, RetainedType
  <2>4. Recorded(shard[w], req) \in [MergeSlots -> Nat]
    BY RecordedType
  <2>5. /\ Append(counted[w], req) \in Seq(Requests)
        /\ Len(Append(counted[w], req)) = Len(counted[w]) + 1 /\ Len(counted[w]) \in Nat
    OBVIOUS
  <2> HIDE DEF kept
  <2>6. store' \in [Worker -> Seq(Requests)] /\ \A v \in Worker : Len(store'[v]) <= MAX_REQUESTS
    BY <2>1, <2>3 DEF kept
  <2>7. shard' \in [Worker -> [MergeSlots -> Nat]] /\ counted' \in [Worker -> Seq(Requests)]
    BY <2>1, <2>4, <2>5
  <2>8. issued' \in 0 .. MaxRecords
    BY <2>1, AggregatorAssumption
  <2>9. \A v \in Worker : Len(counted'[v]) <= issued'
    <3> TAKE v \in Worker
    <3>1. Len(counted[v]) \in Nat /\ Len(counted[v]) <= issued
      OBVIOUS
    <3>2. Len(counted'[v]) = Len(counted[v]) \/ Len(counted'[v]) = Len(counted[v]) + 1
      BY <2>1, <2>5
    <3> QED BY <2>1, <3>1, <3>2
  <2> QED BY <2>1, <2>6, <2>7, <2>8, <2>9
<1>2. ASSUME NEW w \in Worker, clear(w)
      PROVE  IType'
  <2>1. <<>> \in Seq(Requests) /\ Len(<<>>) <= MAX_REQUESTS
    BY AggregatorAssumption
  <2> QED BY <1>2, <2>1 DEF clear
<1>3. ASSUME NEW w \in Worker, NEW on \in BOOLEAN, set_dir(w, on)
      PROVE  IType'
  BY <1>3 DEF set_dir
<1>4. CASE UNCHANGED vars
  BY <1>4 DEF vars
<1> QED BY <1>1, <1>2, <1>3, <1>4 DEF Next

(* The stores stay within their capacity, and the shards hold numbers.      *)
THEOREM AggregatorTypeCorrect == Spec => []AggregatorTypeOK
<1>1. IType => AggregatorTypeOK
  BY DEF IType
<1> QED BY <1>1, InitIType, NextIType, PTL DEF Spec

-----------------------------------------------------------------------------
(* What the merged shards say of all the requests counted in any of them.   *)
Micros == [r \in All |-> micros(Latency[r])]
Bucket == [r \in All |-> bucket_index(Latency[r])]
InBucket(b) == {r \in All : Bucket[r] = b}

(* The extremes of a shard are those of the requests of its worker.         *)
Own(w) ==
  LET us(k) == micros(counted[w][k].ticks)
  IN  /\ \A k \in DOMAIN counted[w] : shard[w][I_MIN_US] <= us(k) /\ us(k) <= shard[w][I_MAX_US]
      /\ shard[w][I_MIN_US] = MIN_EMPTY \/ \E k \in DOMAIN counted[w] : shard[w][I_MIN_US] = us(k)
      /\ shard[w][I_MAX_US] = 0 \/ \E k \in DOMAIN counted[w] : shard[w][I_MAX_US] = us(k)

Ledger ==
  /\ \A w \in Worker : Own(w)
  /\ Sum(shard, I_TOTAL) = Cardinality(All)
  /\ Sum(shard, I_ERRORS) = Cardinality(Failures)
  /\ Sum(shard, I_SUM_US) = SumOf(Micros, All)
  /\ \A b \in 0 .. NUM_BUCKETS - 1 :
       Sum(shard, I_BUCKETS_START + b) = Cardinality(InBucket(b))

LEMMA SumIs ==
  ASSUME NEW view, NEW s, DOMAIN view = Worker
  PROVE  Sum(view, s) = SumOf([w \in Worker |-> view[w][s]], Worker)
<1> DEFINE f == [w \in Worker |-> view[w][s]]
<1>1. Sum(view, s) = SumOf([w \in DOMAIN view |-> view[w][s]], DOMAIN view)
  BY DEF Sum, SumOf, MapThenSumSet, MapThenFoldSet
<1> QED BY <1>1

(* The slots by name.                                                       *)
LEMMA SlotNames ==
  /\ {I_TOTAL, I_ERRORS, I_SUM_US, I_MIN_US, I_MAX_US} \subseteq MergeSlots
  /\ \A b \in 0 .. NUM_BUCKETS - 1 : I_BUCKETS_START + b \in BucketSlots
  /\ BucketSlots \subseteq MergeSlots
  /\ NUM_BUCKETS = Len(BUCKET_BOUNDS) + 1 /\ NUM_BUCKETS \in Nat \ {0}
BY SlotType DEF MergeSlots, BucketSlots, SHARD_LEN_U64, NUM_BUCKETS, I_BUCKETS_START, I_TOTAL,
   I_ERRORS, I_SUM_US, I_MIN_US, I_MAX_US

LEMMA AllType ==
  ASSUME IType
  PROVE  /\ IsFiniteSet(All) /\ Cardinality(All) \in Nat
         /\ \A r \in All : /\ r[1] \in Worker /\ r[2] \in DOMAIN counted[r[1]] /\ r = <<r[1], r[2]>>
                          /\ counted[r[1]][r[2]] \in Requests
                          /\ Latency[r] = counted[r[1]][r[2]].ticks
                          /\ Latency[r] \in Int /\ Micros[r] \in Nat
                          /\ Bucket[r] \in 0 .. NUM_BUCKETS - 1
         /\ \A w \in Worker : \A k \in DOMAIN counted[w] : <<w, k>> \in All
<1>1. IsFiniteSet(All)
  <2>1. IsFiniteSet(1 .. MaxRecords) /\ IsFiniteSet(Worker)
    BY AggregatorAssumption, FS_Interval
  <2>2. IsFiniteSet(Worker \X (1 .. MaxRecords))
    BY ONLY <2>1, FS_Product
  <2>3. All \in SUBSET (Worker \X (1 .. MaxRecords))
    BY DEF All
  <2> QED BY ONLY <2>2, <2>3, FS_Subset
<1>2. ASSUME NEW r \in All
      PROVE  /\ r[1] \in Worker /\ r[2] \in DOMAIN counted[r[1]] /\ r = <<r[1], r[2]>>
             /\ counted[r[1]][r[2]] \in Requests
             /\ Latency[r] = counted[r[1]][r[2]].ticks
             /\ Latency[r] \in Int /\ Micros[r] \in Nat
             /\ Bucket[r] \in 0 .. NUM_BUCKETS - 1
  <2>1. r[1] \in Worker /\ r[2] \in DOMAIN counted[r[1]] /\ r = <<r[1], r[2]>>
    BY DEF All
  <2>2. counted[r[1]] \in Seq(Requests)
    BY <2>1 DEF IType
  <2>3. counted[r[1]][r[2]] \in Requests
    BY <2>1, <2>2
  <2>4. Latency[r] = counted[r[1]][r[2]].ticks
    BY DEF Latency
  <2>5. Latency[r] \in Int
    BY <2>3, <2>4, RequestAssumption
  <2>6. Micros[r] \in Nat
    BY <2>5, MicrosType DEF Micros
  <2>7. Bucket[r] \in 0 .. Len(BUCKET_BOUNDS)
    BY <2>5, BucketType DEF Bucket
  <2> QED BY <2>1, <2>3, <2>4, <2>5, <2>6, <2>7, SlotNames
<1>3. ASSUME NEW w \in Worker, NEW k \in DOMAIN counted[w]
      PROVE  <<w, k>> \in All
  <2>1. counted[w] \in Seq(Requests) /\ Len(counted[w]) <= issued /\ issued \in 0 .. MaxRecords
    BY DEF IType, AggregatorTypeOK
  <2>2. k \in 1 .. MaxRecords
    BY <2>1, AggregatorAssumption
  <2> QED BY <2>2 DEF All
<1> QED BY <1>1, <1>2, <1>3, FS_CardinalityType

(* A request that is recorded joins them.                                   *)
LEMMA AllGrows ==
  ASSUME IType, NEW w \in Worker, NEW req \in Requests, record(w, req), enabled[w]
  PROVE  LET new == <<w, Len(counted[w]) + 1>>
         IN  /\ All' = All \cup {new} /\ new \notin All
             /\ \A r \in All : Latency'[r] = Latency[r]
             /\ Latency'[new] = req.ticks
             /\ Failures' = Failures \cup {r \in {new} : req.status >= 400}
<1> DEFINE n == Len(counted[w])
           new == <<w, n + 1>>
<1>1. /\ counted' = [counted EXCEPT ![w] = Append(counted[w], req)]
      /\ issued' = issued + 1 /\ issued < MaxRecords
  BY RecordIs
<1>2. n \in Nat /\ n <= issued /\ issued \in 0 .. MaxRecords /\ counted[w] \in Seq(Requests)
  BY DEF IType, AggregatorTypeOK
<1>3. /\ DOMAIN counted[w] = 1 .. n /\ DOMAIN Append(counted[w], req) = 1 .. n + 1
      /\ \A k \in 1 .. n : Append(counted[w], req)[k] = counted[w][k]
      /\ Append(counted[w], req)[n + 1] = req
  BY <1>2
<1>4. /\ counted'[w] = Append(counted[w], req)
      /\ \A v \in Worker \ {w} : counted'[v] = counted[v]
  BY <1>1 DEF IType
<1>5. n + 1 \in 1 .. MaxRecords
  BY <1>1, <1>2, AggregatorAssumption
<1>6. new \notin All
  BY <1>3 DEF All
<1>7. ASSUME NEW r \in Worker \X (1 .. MaxRecords)
      PROVE  r[2] \in DOMAIN counted'[r[1]] <=> r[2] \in DOMAIN counted[r[1]] \/ r = new
  <2>1. CASE r[1] = w
    <3>1. r = new <=> r[2] = n + 1
      BY <2>1
    <3> HIDE DEF new
    <3> QED BY <1>2, <1>3, <1>4, <2>1, <3>1
  <2>2. CASE r[1] # w
    BY <1>4, <2>2
  <2> QED BY <2>1, <2>2
<1>8. new \in Worker \X (1 .. MaxRecords)
  BY <1>5
<1>9. All' = All \cup {new}
  <2> HIDE DEF new
  <2> QED BY <1>7, <1>8 DEF All
<1>10. ASSUME NEW r \in All
       PROVE  Latency'[r] = Latency[r]
  <2>1. counted'[r[1]][r[2]] = counted[r[1]][r[2]]
    BY <1>3, <1>4 DEF All
  <2> QED BY <1>9, <2>1 DEF Latency
<1>11. Latency'[new] = req.ticks
  <2>1. counted'[new[1]][new[2]] = req
    BY <1>3, <1>4
  <2> QED BY <1>9, <2>1 DEF Latency
<1>12. Failures' = Failures \cup {r \in {new} : req.status >= 400}
  <2>1. counted'[new[1]][new[2]] = req
    BY <1>3, <1>4
  <2>2. \A r \in All : counted'[r[1]][r[2]] = counted[r[1]][r[2]]
    BY <1>3, <1>4 DEF All
  <2> HIDE DEF new
  <2> QED BY <1>9, <2>1, <2>2 DEF Failures
<1> QED BY <1>6, <1>9, <1>10, <1>11, <1>12

LEMMA RecordedSlots ==
  ASSUME NEW slots \in [MergeSlots -> Nat], NEW req \in Requests
  PROVE  LET new == Recorded(slots, req)
             us  == micros(req.ticks)
         IN  /\ new[I_TOTAL] = slots[I_TOTAL] + 1
             /\ new[I_SUM_US] = slots[I_SUM_US] + us
             /\ new[I_ERRORS] = slots[I_ERRORS] + (IF req.status >= 400 THEN 1 ELSE 0)
             /\ new[I_MIN_US] = IF us < slots[I_MIN_US] THEN us ELSE slots[I_MIN_US]
             /\ new[I_MAX_US] = IF us > slots[I_MAX_US] THEN us ELSE slots[I_MAX_US]
             /\ \A b \in 0 .. NUM_BUCKETS - 1 :
                  new[I_BUCKETS_START + b] =
                    slots[I_BUCKETS_START + b] + (IF b = bucket_index(req.ticks) THEN 1 ELSE 0)
<1> DEFINE us == micros(req.ticks)
           i  == bucket_index(req.ticks)
<1>1. i \in 0 .. Len(BUCKET_BOUNDS) /\ us \in Nat
  BY RequestAssumption, BucketType, MicrosType
<1>2. Len(BUCKET_BOUNDS) \in Nat
  BY SlotType
<1>3. \A s \in MergeSlots : slots[s] \in Nat
  OBVIOUS
<1>4. \A s \in MergeSlots : Recorded(slots, req)[s] =
        IF s \in RecordSlots(req) THEN Added(s, slots[s], us) ELSE slots[s]
  BY DEF Recorded
<1>5. RecordSlots(req) = {I_TOTAL, I_SUM_US, I_MIN_US, I_MAX_US, I_BUCKETS_START + i}
                           \cup {s \in {I_ERRORS} : req.status >= 400}
  BY DEF RecordSlots
<1> HIDE DEF us, i
<1>6. ASSUME NEW b \in 0 .. NUM_BUCKETS - 1
      PROVE  Recorded(slots, req)[I_BUCKETS_START + b] =
               slots[I_BUCKETS_START + b] + (IF b = i THEN 1 ELSE 0)
  <2>1. I_BUCKETS_START + b \in MergeSlots /\ b \in Nat /\ slots[I_BUCKETS_START + b] \in Nat
    BY SlotNames, <1>3
  <2>2. I_BUCKETS_START + b \in RecordSlots(req) <=> b = i
    BY <1>1, <1>5, <2>1 DEF I_BUCKETS_START, I_TOTAL, I_ERRORS, I_SUM_US, I_MIN_US, I_MAX_US
  <2>3. Added(I_BUCKETS_START + b, slots[I_BUCKETS_START + b], us)
          = slots[I_BUCKETS_START + b] + 1
    BY <2>1 DEF Added, I_BUCKETS_START, I_SUM_US, I_MIN_US, I_MAX_US
  <2> QED BY <1>4, <2>1, <2>2, <2>3
<1>7. ASSUME NEW s \in {I_TOTAL, I_ERRORS, I_SUM_US, I_MIN_US, I_MAX_US}
      PROVE  s \in MergeSlots /\ slots[s] \in Nat
               /\ (s \in RecordSlots(req) <=> s # I_ERRORS \/ req.status >= 400)
  <2>1. s \in MergeSlots
    BY SlotNames
  <2> QED BY <1>1, <1>3, <1>5, <2>1 DEF I_BUCKETS_START, I_TOTAL, I_ERRORS, I_SUM_US, I_MIN_US, I_MAX_US
<1>8. /\ Recorded(slots, req)[I_TOTAL] = slots[I_TOTAL] + 1
      /\ Recorded(slots, req)[I_SUM_US] = slots[I_SUM_US] + us
      /\ Recorded(slots, req)[I_ERRORS] =
           slots[I_ERRORS] + (IF req.status >= 400 THEN 1 ELSE 0)
  BY <1>4, <1>7 DEF Added, I_TOTAL, I_ERRORS, I_SUM_US, I_MIN_US, I_MAX_US
<1>9. /\ Recorded(slots, req)[I_MIN_US] = IF us < slots[I_MIN_US] THEN us ELSE slots[I_MIN_US]
      /\ Recorded(slots, req)[I_MAX_US] = IF us > slots[I_MAX_US] THEN us ELSE slots[I_MAX_US]
  BY <1>4, <1>7 DEF Added, I_TOTAL, I_ERRORS, I_SUM_US, I_MIN_US, I_MAX_US
<1> QED BY <1>6, <1>8, <1>9 DEF us, i

(* A worker that records changes its own term of each sum.                  *)
LEMMA SumRecorded ==
  ASSUME IType, NEW w \in Worker, NEW new \in [MergeSlots -> Nat],
         shard' = [shard EXCEPT ![w] = new], NEW s \in MergeSlots
  PROVE  Sum(shard', s) = Sum(shard, s) - shard[w][s] + new[s]
           /\ Sum(shard, s) \in Nat
<1> DEFINE f == [v \in Worker |-> shard[v][s]]
           g == [v \in Worker |-> shard'[v][s]]
<1>1. /\ IsFiniteSet(Worker) /\ DOMAIN shard = Worker /\ DOMAIN shard' = Worker
      /\ shard'[w] = new /\ \A v \in Worker : v # w => shard'[v] = shard[v]
      /\ \A v \in Worker : shard[v][s] \in Nat
  BY AggregatorAssumption DEF IType, AggregatorTypeOK
<1>2. Sum(shard, s) = SumOf(f, Worker)
  BY <1>1, SumIs
<1>3. Sum(shard', s) = SumOf(g, Worker)
  <2>1. \A view : DOMAIN view = Worker =>
          Sum(view, s) = SumOf([v \in Worker |-> view[v][s]], Worker)
    BY SumIs
  <2> QED BY <1>1, <2>1
<1>4. /\ \A v \in Worker : f[v] \in Nat /\ g[v] \in Nat /\ (v # w => g[v] = f[v])
      /\ f[w] = shard[w][s] /\ g[w] = new[s]
  BY <1>1
<1> HIDE DEF f, g
<1>5. SumOf(g, Worker) = SumOf(f, Worker) - f[w] + g[w]
  <2>1. \A v \in Worker : f[v] \in Int /\ g[v] \in Int /\ (v # w => g[v] = f[v])
    BY <1>4
  <2> QED BY ONLY <1>1, <2>1, SumChange, w \in Worker
<1>6. SumOf(f, Worker) \in Nat
  BY <1>1, <1>4, SumNat
<1> QED BY <1>2, <1>3, <1>4, <1>5, <1>6

(* Nothing else touches the shards.                                         *)
LEMMA LedgerKept ==
  ASSUME Ledger, UNCHANGED <<shard, counted>>
  PROVE  Ledger'
<1>1. All' = All /\ Latency' = Latency
  BY DEF Latency, All
<1>2. Failures' = Failures /\ Micros' = Micros /\ Bucket' = Bucket
  BY <1>1 DEF Failures, Micros, Bucket
<1>3. \A b : InBucket(b)' = InBucket(b)
  BY <1>1, <1>2 DEF InBucket
<1>4. \A w \in Worker : Own(w) => Own(w)'
  BY DEF Own
<1> QED BY <1>1, <1>2, <1>3, <1>4 DEF Ledger

LEMMA InitLedger == Init => Ledger
<1> SUFFICES ASSUME Init PROVE Ledger
  OBVIOUS
<1>1. All = {}
  BY DEF Init, All
<1>2. /\ IsFiniteSet(Worker) /\ DOMAIN shard = Worker
      /\ \A w \in Worker : \A s \in MergeSlots : s # I_MIN_US => shard[w][s] = 0
      /\ \A w \in Worker : shard[w][I_MIN_US] = MIN_EMPTY
  BY AggregatorAssumption, SlotNames DEF Init, EmptyReading
<1>3. ASSUME NEW s \in MergeSlots, s # I_MIN_US
      PROVE  Sum(shard, s) = 0
  <2> DEFINE f == [v \in Worker |-> shard[v][s]]
  <2>1. Sum(shard, s) = SumOf(f, Worker)
    BY <1>2, SumIs
  <2>2. \A v \in Worker : f[v] = 0
    BY <1>2, <1>3
  <2> HIDE DEF f
  <2> QED BY <1>2, <2>1, <2>2, SumZero
<1>4. ASSUME NEW w \in Worker
      PROVE  Own(w)
  <2>1. counted[w] = <<>>
    BY DEF Init
  <2> QED BY <1>2, <2>1, SlotNames DEF Own, I_MIN_US, I_MAX_US
<1>5. SumOf(Micros, {}) = 0 /\ Cardinality({}) = 0
  BY SumEmpty, FS_EmptySet
<1>6. \A b : InBucket(b) = {}
  BY <1>1 DEF InBucket
<1>7. /\ Sum(shard, I_TOTAL) = Cardinality(All) /\ Sum(shard, I_SUM_US) = SumOf(Micros, All)
      /\ Sum(shard, I_ERRORS) = Cardinality(Failures)
  BY <1>1, <1>3, <1>5, SlotNames DEF I_TOTAL, I_ERRORS, I_SUM_US, I_MIN_US, Failures
<1>8. \A b \in 0 .. NUM_BUCKETS - 1 :
        Sum(shard, I_BUCKETS_START + b) = Cardinality(InBucket(b))
  <2> TAKE b \in 0 .. NUM_BUCKETS - 1
  <2>1. I_BUCKETS_START + b \in MergeSlots /\ I_BUCKETS_START + b # I_MIN_US
    BY SlotNames, BucketSlotsType
  <2> QED BY <1>3, <1>5, <1>6, <2>1
<1> QED BY <1>4, <1>7, <1>8 DEF Ledger

(* The worker's own counters follow its requests.                           *)
LEMMA RecordOwn ==
  ASSUME IType, Ledger, NEW w \in Worker, NEW req \in Requests, record(w, req), enabled[w],
         NEW v \in Worker
  PROVE  Own(v)'
<1> DEFINE us == micros(req.ticks)
           n  == Len(counted[w])
<1>1. /\ shard' = [shard EXCEPT ![w] = Recorded(shard[w], req)]
      /\ counted' = [counted EXCEPT ![w] = Append(counted[w], req)]
  BY RecordIs
<1>2. CASE v # w
  <2>1. shard'[v] = shard[v] /\ counted'[v] = counted[v]
    BY <1>1, <1>2 DEF IType, AggregatorTypeOK
  <2> QED BY <2>1 DEF Ledger, Own
<1>3. CASE v = w
  <2>1. /\ shard'[w] = Recorded(shard[w], req) /\ counted'[w] = Append(counted[w], req)
        /\ shard[w] \in [MergeSlots -> Nat] /\ counted[w] \in Seq(Requests)
    BY <1>1 DEF IType, AggregatorTypeOK
  <2>2. /\ n \in Nat /\ DOMAIN counted[w] = 1 .. n /\ DOMAIN counted'[w] = 1 .. n + 1
        /\ \A k \in 1 .. n : counted'[w][k] = counted[w][k]
        /\ counted'[w][n + 1] = req
    BY <2>1
  <2> DEFINE mn  == shard[w][I_MIN_US]
             mx  == shard[w][I_MAX_US]
             mn1 == shard'[w][I_MIN_US]
             mx1 == shard'[w][I_MAX_US]
             U(k) == micros(counted[w][k].ticks)
             U1(k) == micros(counted'[w][k].ticks)
  <2>4. mn1 = (IF us < mn THEN us ELSE mn) /\ mx1 = (IF us > mx THEN us ELSE mx)
    BY <2>1, RecordedSlots
  <2>5. mn \in Nat /\ mx \in Nat /\ us \in Nat
    BY <2>1, SlotNames, RequestAssumption, MicrosType
  <2>6. /\ \A k \in 1 .. n : U(k) \in Nat /\ mn <= U(k) /\ U(k) <= mx
        /\ mn = MIN_EMPTY \/ \E k \in 1 .. n : mn = U(k)
        /\ mx = 0 \/ \E k \in 1 .. n : mx = U(k)
    <3>1. \A k \in 1 .. n : U(k) \in Nat
      <4> TAKE k \in 1 .. n
      <4>1. counted[w][k] \in Requests
        BY <2>1, <2>2
      <4> QED BY <4>1, RequestAssumption, MicrosType
    <3> QED BY <2>2, <3>1 DEF Ledger, Own
  <2>7. (\A k \in 1 .. n : U1(k) = U(k)) /\ U1(n + 1) = us
    BY <2>2
  <2> HIDE DEF mn, mx, mn1, mx1, U, U1, us, n
  <2>8. \A k \in 1 .. n + 1 : mn1 <= U1(k) /\ U1(k) <= mx1
    <3> TAKE k \in 1 .. n + 1
    <3>1. CASE k \in 1 .. n
      BY <2>4, <2>5, <2>6, <2>7, <3>1
    <3>2. CASE k = n + 1
      BY <2>4, <2>5, <2>7, <3>2
    <3> QED BY <2>2, <3>1, <3>2
  <2>9. 1 .. n \subseteq 1 .. n + 1 /\ n + 1 \in 1 .. n + 1
    BY <2>2
  <2>10. mn1 = MIN_EMPTY \/ \E k \in 1 .. n + 1 : mn1 = U1(k)
    BY <2>4, <2>6, <2>7, <2>9
  <2>11. mx1 = 0 \/ \E k \in 1 .. n + 1 : mx1 = U1(k)
    BY <2>4, <2>6, <2>7, <2>9
  <2> QED BY <1>3, <2>2, <2>8, <2>10, <2>11 DEF Own, mn1, mx1, U1
<1> QED BY <1>2, <1>3

(* The merged shards follow the requests of all workers.                    *)
LEMMA RecordLedger ==
  ASSUME IType, Ledger, NEW w \in Worker, NEW req \in Requests, record(w, req), enabled[w]
  PROVE  Ledger'
<1> DEFINE us  == micros(req.ticks)
           i   == bucket_index(req.ticks)
           new == <<w, Len(counted[w]) + 1>>
           made == Recorded(shard[w], req)
<1>1. /\ shard' = [shard EXCEPT ![w] = made]
      /\ shard[w] \in [MergeSlots -> Nat] /\ made \in [MergeSlots -> Nat]
  BY RecordIs, RecordedType DEF IType, AggregatorTypeOK
<1>2. /\ All' = All \cup {new} /\ new \notin All
      /\ \A r \in All : Latency'[r] = Latency[r]
      /\ Latency'[new] = req.ticks
      /\ Failures' = Failures \cup {r \in {new} : req.status >= 400}
  BY AllGrows
<1>3. us \in Nat
  BY RequestAssumption, MicrosType
<1>4. \A s \in MergeSlots : /\ Sum(shard', s) = Sum(shard, s) - shard[w][s] + made[s]
                            /\ Sum(shard, s) \in Nat /\ shard[w][s] \in Nat
  BY <1>1, SumRecorded
<1>5. /\ \A r \in All : Micros'[r] = Micros[r] /\ Bucket'[r] = Bucket[r]
      /\ Micros'[new] = us /\ Bucket'[new] = i
  BY <1>2 DEF Micros, Bucket
<1>6. IsFiniteSet(All) /\ Cardinality(All) \in Nat /\ \A r \in All : Micros[r] \in Nat
  BY AllType
<1>7. Sum(shard', I_TOTAL) = Cardinality(All')
  <2>1. made[I_TOTAL] = shard[w][I_TOTAL] + 1
    BY <1>1, RecordedSlots
  <2>2. Sum(shard', I_TOTAL) = Sum(shard, I_TOTAL) + 1
    BY <1>4, <2>1, SlotNames
  <2>3. Cardinality(All') = Cardinality(All) + 1
    <3> HIDE DEF new
    <3> QED BY <1>2, <1>6, FS_AddElement
  <2> QED BY <2>2, <2>3 DEF Ledger
<1>8. Sum(shard', I_SUM_US) = SumOf(Micros', All')
  <2>1. made[I_SUM_US] = shard[w][I_SUM_US] + us
    BY <1>1, RecordedSlots
  <2>2. Sum(shard', I_SUM_US) = Sum(shard, I_SUM_US) + us
    BY <1>3, <1>4, <2>1, SlotNames
  <2>3. SumOf(Micros', All') = us + SumOf(Micros, All)
    <3> DEFINE f == Micros'
               S == All'
    <3>1. IsFiniteSet(S) /\ new \in S /\ S \ {new} = All
      <4> HIDE DEF new
      <4> QED BY <1>2, <1>6, FS_AddElement
    <3>2. (\A x \in S : f[x] \in Int) /\ f[new] = us /\ \A x \in All : f[x] = Micros[x]
      BY <1>2, <1>3, <1>5, <1>6
    <3> HIDE DEF f, S, new, us
    <3>3. SumOf(f, S) = f[new] + SumOf(f, S \ {new})
      BY <3>1, <3>2, SumRemove
    <3>4. SumOf(f, All) = SumOf(Micros, All)
      BY <1>6, <3>2, SumSame
    <3> QED BY <3>1, <3>2, <3>3, <3>4 DEF f, S
  <2>4. SumOf(Micros, All) \in Nat
    BY <1>6, SumNat
  <2> QED BY <1>3, <2>2, <2>3, <2>4 DEF Ledger
<1>9. ASSUME NEW b \in 0 .. NUM_BUCKETS - 1
      PROVE  Sum(shard', I_BUCKETS_START + b) = Cardinality(InBucket(b)')
  <2>1. made[I_BUCKETS_START + b] = shard[w][I_BUCKETS_START + b] + (IF b = i THEN 1 ELSE 0)
    BY <1>1, RecordedSlots
  <2>2. I_BUCKETS_START + b \in MergeSlots
    BY SlotNames
  <2>3. Sum(shard', I_BUCKETS_START + b)
          = Sum(shard, I_BUCKETS_START + b) + (IF b = i THEN 1 ELSE 0)
    BY <1>4, <2>1, <2>2
  <2> DEFINE B  == InBucket(b)
             B1 == InBucket(b)'
  <2>4. B1 = IF b = i THEN B \cup {new} ELSE B
    <3> HIDE DEF new, i
    <3> QED BY <1>2, <1>5 DEF InBucket
  <2>5. B \in SUBSET All /\ new \notin B
    BY <1>2 DEF InBucket
  <2>6. Sum(shard, I_BUCKETS_START + b) = Cardinality(B)
    BY DEF Ledger
  <2> HIDE DEF B, B1, new, i
  <2>7. IsFiniteSet(B) /\ Cardinality(B) \in Nat
    BY <1>6, <2>5, FS_Subset, FS_CardinalityType
  <2>8. Cardinality(B \cup {new}) = Cardinality(B) + 1
    BY <2>5, <2>7, FS_AddElement
  <2>9. Cardinality(B1) = Cardinality(B) + (IF b = i THEN 1 ELSE 0)
    BY <2>4, <2>7, <2>8
  <2> QED BY <2>3, <2>6, <2>9 DEF B1
<1>10. \A v \in Worker : Own(v)'
  BY RecordOwn
<1>11. Sum(shard', I_ERRORS) = Cardinality(Failures')
  <2>1. made[I_ERRORS] = shard[w][I_ERRORS] + (IF req.status >= 400 THEN 1 ELSE 0)
    BY <1>1, RecordedSlots
  <2>2. Sum(shard', I_ERRORS) = Sum(shard, I_ERRORS) + (IF req.status >= 400 THEN 1 ELSE 0)
    BY <1>4, <2>1, SlotNames
  <2>3. Failures \in SUBSET All /\ new \notin Failures
    BY <1>2 DEF Failures
  <2> HIDE DEF new
  <2>4. IsFiniteSet(Failures) /\ Cardinality(Failures) \in Nat
    BY <1>6, <2>3, FS_Subset, FS_CardinalityType
  <2>5. Cardinality(Failures \cup {new}) = Cardinality(Failures) + 1
    BY <2>3, <2>4, FS_AddElement
  <2>6. Failures' = IF req.status >= 400 THEN Failures \cup {new} ELSE Failures
    BY <1>2
  <2>7. Cardinality(Failures') = Cardinality(Failures) + (IF req.status >= 400 THEN 1 ELSE 0)
    BY <2>4, <2>5, <2>6
  <2> QED BY <2>2, <2>7 DEF Ledger
<1> QED BY <1>7, <1>8, <1>9, <1>10, <1>11 DEF Ledger

LEMMA NextLedger == IType /\ Ledger /\ [Next]_vars => Ledger'
<1> SUFFICES ASSUME IType, Ledger, [Next]_vars PROVE Ledger'
  OBVIOUS
<1>1. ASSUME NEW w \in Worker, NEW req \in Requests, record(w, req), enabled[w]
      PROVE  Ledger'
  BY <1>1, RecordLedger
<1>2. ASSUME NEW w \in Worker, NEW req \in Requests, record(w, req), ~enabled[w]
      PROVE  Ledger'
  BY <1>2, LedgerKept DEF record
<1>3. ASSUME NEW w \in Worker, clear(w)
      PROVE  Ledger'
  BY <1>3, LedgerKept DEF clear
<1>4. ASSUME NEW w \in Worker, NEW on \in BOOLEAN, set_dir(w, on)
      PROVE  Ledger'
  BY <1>4, LedgerKept DEF set_dir
<1>5. CASE UNCHANGED vars
  BY <1>5, LedgerKept DEF vars
<1> QED BY <1>1, <1>2, <1>3, <1>4, <1>5 DEF Next

(* What the merged shards hold is what the requests of all workers made of  *)
(* them.                                                                    *)
LEMMA LedgerInvariant == Spec => [](IType /\ Ledger)
BY InitIType, NextIType, InitLedger, NextLedger, PTL DEF Spec

-----------------------------------------------------------------------------
(* The k-th smallest of some numbers.                                       *)
Below(f, S, t)  == {x \in S : f[x] < t}
UpTo(f, S, t)   == {x \in S : f[x] <= t}

LEMMA RankSets ==
  ASSUME NEW S, IsFiniteSet(S), NEW f, NEW t
  PROVE  /\ IsFiniteSet(Below(f, S, t)) /\ Cardinality(Below(f, S, t)) \in Nat
         /\ IsFiniteSet(UpTo(f, S, t)) /\ Cardinality(UpTo(f, S, t)) \in Nat
         /\ Cardinality(UpTo(f, S, t)) <= Cardinality(S)
<1>1. Below(f, S, t) \in SUBSET S /\ UpTo(f, S, t) \in SUBSET S
  BY DEF Below, UpTo
<1> QED BY <1>1, FS_Subset, FS_CardinalityType

LEMMA RankedIs ==
  ASSUME NEW S, IsFiniteSet(S), NEW f, \A x \in S : f[x] \in Int, NEW k \in 1 .. Cardinality(S)
  PROVE  LET t == Ranked(f, S, k)
         IN  /\ \E x \in S : f[x] = t
             /\ t \in Int
             /\ Cardinality(Below(f, S, t)) < k /\ k <= Cardinality(UpTo(f, S, t))
<1> DEFINE U == {x \in S : k <= Cardinality(UpTo(f, S, f[x]))}
<1>1. Cardinality(S) \in Nat /\ S # {}
  BY FS_CardinalityType, FS_EmptySet
<1>2. U # {} /\ U \in SUBSET S
  <2>1. PICK x \in S : \A y \in S : f[y] <= f[x]
    BY <1>1, GreatestExists
  <2>2. UpTo(f, S, f[x]) = S
    BY <2>1 DEF UpTo
  <2> QED BY <1>1, <2>1, <2>2
<1>3. IsFiniteSet(U) /\ \A x \in U : f[x] \in Int
  BY <1>2, FS_Subset
<1>4. PICK x \in U : \A y \in U : f[x] <= f[y]
  <2> HIDE DEF U
  <2> QED BY <1>2, <1>3, LeastExists
<1> DEFINE t == f[x]
           B == Below(f, S, t)
<1>5. x \in S /\ t \in Int /\ k <= Cardinality(UpTo(f, S, t))
  BY <1>4
<1>6. Cardinality(B) < k
  <2> SUFFICES ASSUME ~(Cardinality(B) < k) PROVE FALSE
    OBVIOUS
  <2>1. IsFiniteSet(B) /\ Cardinality(B) \in Nat
    BY RankSets
  <2>2. B # {}
    <3>1. Cardinality({}) = 0
      BY FS_EmptySet
    <3> HIDE DEF B
    <3> QED BY <2>1, <3>1
  <2>3. B \subseteq S /\ \A y \in B : f[y] \in Int /\ f[y] < t
    BY DEF Below
  <2>4. PICK z \in B : \A y \in B : f[y] <= f[z]
    <3> HIDE DEF B
    <3> QED BY <2>1, <2>2, <2>3, GreatestExists
  <2>5. UpTo(f, S, f[z]) = B
    <3>1. \A y \in S : y \in B <=> f[y] < t
      BY DEF Below
    <3>2. \A y \in S : f[y] <= f[z] <=> y \in B
      <4> HIDE DEF B, t
      <4> QED BY <1>5, <2>3, <2>4, <3>1
    <3> HIDE DEF B
    <3> QED BY <2>3, <3>2 DEF UpTo
  <2>6. z \in U
    <3> HIDE DEF B
    <3> QED BY <2>1, <2>3, <2>5
  <2> HIDE DEF U, B
  <2>7. f[x] <= f[z] /\ f[z] < f[x]
    BY <1>4, <2>3, <2>6
  <2> QED BY <2>7, <1>5, <2>3
<1>7. \E u \in {f[y] : y \in S} : /\ Cardinality({y \in S : f[y] < u}) < k
                                  /\ Cardinality({y \in S : f[y] <= u}) >= k
  BY <1>5, <1>6, RankSets DEF Below, UpTo
<1> HIDE DEF U, t, B
<1>8. /\ Ranked(f, S, k) \in {f[y] : y \in S}
      /\ Cardinality({y \in S : f[y] < Ranked(f, S, k)}) < k
      /\ Cardinality({y \in S : f[y] <= Ranked(f, S, k)}) >= k
  BY <1>7 DEF Ranked
<1>9. Cardinality(UpTo(f, S, Ranked(f, S, k))) \in Nat
  BY RankSets
<1> QED BY <1>8, <1>9 DEF Below, UpTo

LEMMA RankMonotone ==
  ASSUME NEW S, IsFiniteSet(S), NEW f, \A x \in S : f[x] \in Int,
         NEW k \in 1 .. Cardinality(S), NEW l \in 1 .. Cardinality(S), k <= l
  PROVE  Ranked(f, S, k) <= Ranked(f, S, l)
<1> DEFINE t == Ranked(f, S, k)
           u == Ranked(f, S, l)
<1>1. t \in Int /\ Cardinality(Below(f, S, t)) < k
  BY RankedIs
<1>2. u \in Int /\ l <= Cardinality(UpTo(f, S, u))
  BY RankedIs
<1> HIDE DEF t, u
<1> SUFFICES ASSUME u < t PROVE FALSE
  BY <1>1, <1>2 DEF t, u
<1>3. UpTo(f, S, u) \in SUBSET Below(f, S, t)
  BY <1>1, <1>2 DEF UpTo, Below
<1>4. /\ Cardinality(UpTo(f, S, u)) <= Cardinality(Below(f, S, t))
      /\ Cardinality(UpTo(f, S, u)) \in Nat /\ Cardinality(Below(f, S, t)) \in Nat
  BY <1>3, RankSets, FS_Subset
<1>5. k \in Int /\ l \in Int /\ k <= l
  BY FS_CardinalityType
<1> QED BY <1>1, <1>2, <1>4, <1>5

(* The first is the least and the last the greatest.                        *)
LEMMA RankExtremes ==
  ASSUME NEW S, IsFiniteSet(S), S # {}, NEW f, \A x \in S : f[x] \in Int, NEW x \in S
  PROVE  Ranked(f, S, 1) <= f[x] /\ f[x] <= Ranked(f, S, Cardinality(S))
<1> DEFINE n == Cardinality(S)
           t == Ranked(f, S, 1)
           u == Ranked(f, S, n)
<1>1. n \in Nat \ {0} /\ 1 \in 1 .. n /\ n \in 1 .. n
  <2>1. n \in Nat /\ n # 0
    BY FS_CardinalityType, FS_EmptySet
  <2> QED BY <2>1
<1>2. t \in Int /\ Cardinality(Below(f, S, t)) < 1
  BY <1>1, RankedIs
<1>3. u \in Int /\ n <= Cardinality(UpTo(f, S, u))
  <2> HIDE DEF n
  <2> QED BY <1>1, RankedIs DEF n
<1> HIDE DEF t, u
<1>4. Below(f, S, t) = {}
  <2>1. Cardinality(Below(f, S, t)) = 0 /\ IsFiniteSet(Below(f, S, t))
    BY <1>2, RankSets
  <2> QED BY <2>1, FS_EmptySet
<1>5. UpTo(f, S, u) = S
  <2>1. UpTo(f, S, u) \in SUBSET S
    BY DEF UpTo
  <2>2. n = Cardinality(UpTo(f, S, u))
    BY <1>1, <1>3, RankSets
  <2> QED BY <2>1, <2>2, FS_Subset
<1>6. ~(f[x] < t)
  BY <1>4 DEF Below
<1>7. f[x] <= u
  BY <1>5 DEF UpTo
<1> QED BY <1>2, <1>3, <1>6, <1>7 DEF t, u, n

-----------------------------------------------------------------------------
(* The Merged struct, in terms of the requests.                             *)
LEMMA MergedCounts ==
  ASSUME IType, Ledger
  PROVE  LET m == Merged(shard)
         IN  /\ m.total = Cardinality(All) /\ m.errors = Cardinality(Failures)
             /\ m.sum_us = SumOf(Micros, All)
             /\ m.buckets = [b \in 0 .. NUM_BUCKETS - 1 |-> Cardinality(InBucket(b))]
BY DEF Merged, Ledger

LEMMA MergedExtremes ==
  ASSUME IType, Ledger, Worker # {}
  PROVE  LET m == Merged(shard)
         IN  /\ m.min_us \in Nat /\ m.max_us \in Nat
             /\ \A r \in All : m.min_us <= Micros[r] /\ Micros[r] <= m.max_us
             /\ m.min_us = MIN_EMPTY \/ \E r \in All : m.min_us = Micros[r]
             /\ m.max_us = 0 \/ \E r \in All : m.max_us = Micros[r]
<1> DEFINE f == [v \in Worker |-> shard[v][I_MIN_US]]
           g == [v \in Worker |-> shard[v][I_MAX_US]]
<1>1. /\ IsFiniteSet(Worker) /\ DOMAIN shard = Worker
      /\ \A v \in Worker : f[v] \in Nat /\ g[v] \in Nat
  BY AggregatorAssumption, SlotNames DEF IType, AggregatorTypeOK
<1>2. /\ Merged(shard).min_us = Min({f[v] : v \in Worker})
      /\ Merged(shard).max_us = Max({g[v] : v \in Worker})
  BY <1>1 DEF Merged
<1>3. /\ \A r \in All : f[r[1]] <= Micros[r] /\ Micros[r] <= g[r[1]] /\ r[1] \in Worker
      /\ \A v \in Worker : f[v] = MIN_EMPTY \/ \E r \in All : f[v] = Micros[r]
      /\ \A v \in Worker : g[v] = 0 \/ \E r \in All : g[v] = Micros[r]
  <2>1. /\ \A r \in All : Micros[r] = micros(counted[r[1]][r[2]].ticks)
        /\ \A r \in All : r[1] \in Worker /\ r[2] \in DOMAIN counted[r[1]]
        /\ \A v \in Worker : \A k \in DOMAIN counted[v] : <<v, k>> \in All
    BY AllType DEF Micros
  <2>2. \A v \in Worker : \A k \in DOMAIN counted[v] :
          <<v, k>> \in All /\ Micros[<<v, k>>] = micros(counted[v][k].ticks)
    BY <2>1
  <2>3. \A v \in Worker : Own(v)
    BY DEF Ledger
  <2>4. \A r \in All : f[r[1]] <= Micros[r] /\ Micros[r] <= g[r[1]]
    BY <2>1, <2>3 DEF Own
  <2>5. ASSUME NEW v \in Worker
        PROVE  f[v] = MIN_EMPTY \/ \E r \in All : f[v] = Micros[r]
    BY <2>2, <2>3 DEF Own
  <2>6. ASSUME NEW v \in Worker
        PROVE  g[v] = 0 \/ \E r \in All : g[v] = Micros[r]
    BY <2>2, <2>3 DEF Own
  <2> QED BY <2>1, <2>4, <2>5, <2>6
<1>4. \A r \in All : Micros[r] \in Nat
  BY AllType
<1> HIDE DEF f, g
<1>5. \E v \in Worker : Min({f[u] : u \in Worker}) = f[v] /\ \A u \in Worker : f[v] <= f[u]
  <2>1. PICK v \in Worker : \A u \in Worker : f[v] <= f[u]
    <3>1. \A x \in Worker : f[x] \in Int
      BY <1>1
    <3> QED BY <1>1, <3>1, LeastExists
  <2>2. \E x \in {f[u] : u \in Worker} : \A y \in {f[u] : u \in Worker} : x <= y
    BY <2>1
  <2>3. Min({f[u] : u \in Worker}) \in {f[u] : u \in Worker}
          /\ \A y \in {f[u] : u \in Worker} : Min({f[u] : u \in Worker}) <= y
    BY <2>2 DEF Min
  <2> QED BY <2>3
<1>6. \E v \in Worker : Max({g[u] : u \in Worker}) = g[v] /\ \A u \in Worker : g[u] <= g[v]
  <2>1. PICK v \in Worker : \A u \in Worker : g[u] <= g[v]
    <3>1. \A x \in Worker : g[x] \in Int
      BY <1>1
    <3> QED BY <1>1, <3>1, GreatestExists
  <2>2. \E x \in {g[u] : u \in Worker} : \A y \in {g[u] : u \in Worker} : x >= y
    BY <1>1, <2>1
  <2>3. Max({g[u] : u \in Worker}) \in {g[u] : u \in Worker}
          /\ \A y \in {g[u] : u \in Worker} : Max({g[u] : u \in Worker}) >= y
    BY <2>2 DEF Max
  <2> QED BY <1>1, <2>3
<1>7. PICK a \in Worker : Merged(shard).min_us = f[a] /\ \A u \in Worker : f[a] <= f[u]
  BY <1>2, <1>5
<1>8. PICK b \in Worker : Merged(shard).max_us = g[b] /\ \A u \in Worker : g[u] <= g[b]
  BY <1>2, <1>6
<1>9. \A r \in All : f[a] <= Micros[r] /\ Micros[r] <= g[b]
  <2> TAKE r \in All
  <2>1. /\ f[a] \in Nat /\ g[b] \in Nat /\ Micros[r] \in Nat /\ f[r[1]] \in Nat /\ g[r[1]] \in Nat
        /\ f[a] <= f[r[1]] /\ g[r[1]] <= g[b]
        /\ f[r[1]] <= Micros[r] /\ Micros[r] <= g[r[1]]
    BY <1>1, <1>3, <1>4, <1>7, <1>8
  <2> QED BY <2>1
<1> QED BY <1>1, <1>3, <1>7, <1>8, <1>9

(* Counting the buckets up to the i-th counts the requests in them.         *)
LEMMA CumulativeIs ==
  ASSUME IType, Ledger, NEW i \in 0 .. NUM_BUCKETS - 1
  PROVE  /\ Cumulative(Merged(shard).buckets, i) = Cardinality({r \in All : Bucket[r] <= i})
         /\ Cumulative(Merged(shard).buckets, NUM_BUCKETS - 1) = Cardinality(All)
<1> DEFINE f == Merged(shard).buckets
<1>1. NUM_BUCKETS \in Nat \ {0} /\ IsFiniteSet(All)
      /\ \A r \in All : Bucket[r] \in 0 .. NUM_BUCKETS - 1
  BY SlotNames, AllType
<1>2. ASSUME NEW j \in 0 .. NUM_BUCKETS - 1
      PROVE  Cumulative(f, j) = Cardinality({r \in All : Bucket[r] <= j})
  <2>1. \A b \in 0 .. j : f[b] = Cardinality({r \in All : Bucket[r] = b})
    BY <1>1, MergedCounts DEF InBucket
  <2>2. IsFiniteSet(0 .. j)
    BY <1>1, FS_Interval
  <2>3. Cumulative(f, j) = SumOf(f, 0 .. j)
    BY DEF Cumulative, SumOf
  <2> DEFINE T == 0 .. j
  <2>4. SumOf(f, T) = Cardinality({r \in All : Bucket[r] \in T})
    <3> HIDE DEF f, T
    <3>1. IsFiniteSet(All) /\ IsFiniteSet(T)
      BY <1>1, <2>2 DEF T
    <3>2. \A b \in T : f[b] = Cardinality({r \in All : Bucket[r] = b})
      BY <2>1 DEF T
    <3>3. \A b \in T : f[b] = Cardinality(Within(All, Bucket, {b}))
      <4>1. \A b : Within(All, Bucket, {b}) = {r \in All : Bucket[r] = b}
        BY DEF Within
      <4> QED BY <3>2, <4>1
    <3>4. SumOf(f, T) = Cardinality(Within(All, Bucket, T))
      BY ONLY <3>1, <3>3, SumOfClasses
    <3> QED BY <3>4 DEF Within
  <2>5. {r \in All : Bucket[r] \in 0 .. j} = {r \in All : Bucket[r] <= j}
    BY <1>1
  <2> QED BY <2>3, <2>4, <2>5
<1>3. {r \in All : Bucket[r] <= NUM_BUCKETS - 1} = All
  BY <1>1
<1>4. NUM_BUCKETS - 1 \in 0 .. NUM_BUCKETS - 1
  BY <1>1
<1> QED BY <1>2, <1>3, <1>4

-----------------------------------------------------------------------------
(* The bucket of the rank of a quantile: with those before it it reaches    *)
(* the rank, and without it they do not.                                    *)
Reached(i) == Cardinality({r \in All : Bucket[r] <= i})

LEMMA ReachedType ==
  ASSUME IType, NEW i \in Int
  PROVE  Reached(i) \in Nat /\ Reached(i) = Reached(i - 1) + Cardinality(InBucket(i))
           /\ Cardinality(InBucket(i)) \in Nat /\ (i < 0 => Reached(i) = 0)
<1> DEFINE A == {r \in All : Bucket[r] <= i}
           B == {r \in All : Bucket[r] <= i - 1}
           D == InBucket(i)
<1>1. IsFiniteSet(All) /\ \A r \in All : Bucket[r] \in 0 .. NUM_BUCKETS - 1
  BY AllType
<1>2. NUM_BUCKETS \in Nat
  BY SlotNames
<1>3. A = B \cup D /\ B \cap D = {}
  BY <1>1, <1>2 DEF InBucket
<1>4. A \in SUBSET All /\ B \in SUBSET All /\ D \in SUBSET All
  BY DEF InBucket
<1>5. i < 0 => A = {}
  BY <1>1, <1>2
<1>6. Reached(i) = Cardinality(A) /\ Reached(i - 1) = Cardinality(B)
  BY DEF Reached
<1> HIDE DEF A, B, D
<1>7. IsFiniteSet(A) /\ IsFiniteSet(B) /\ IsFiniteSet(D)
  BY <1>1, <1>4, FS_Subset
<1>8. Cardinality(A) \in Nat /\ Cardinality(B) \in Nat /\ Cardinality(D) \in Nat
      /\ Cardinality({}) = 0
  BY <1>7, FS_CardinalityType, FS_EmptySet
<1>9. Cardinality(B \cup D) = Cardinality(B) + Cardinality(D) - Cardinality(B \cap D)
  BY <1>7, FS_Union
<1>10. Cardinality(A) = Cardinality(B) + Cardinality(D)
  <2>1. Cardinality(B \cap D) = 0 /\ Cardinality(A) = Cardinality(B \cup D)
    BY ONLY <1>3, <1>8
  <2> QED BY ONLY <1>8, <1>9, <2>1
<1> QED BY <1>5, <1>6, <1>8, <1>10 DEF D

(* The rank is p% of n, not rounded.                                        *)
LEMMA RankType ==
  ASSUME NEW p \in 1 .. 100, NEW n \in Nat
  PROVE  p * n \in Nat /\ p * n <= 100 * n /\ (n > 0 => p * n > 0)
<1>1. PICK q \in Nat : 100 = p + q
  <2>1. 100 - p \in Nat /\ 100 = p + (100 - p)
    OBVIOUS
  <2> QED BY <2>1
<1>2. PICK o \in Nat : p = o + 1
  <2>1. p - 1 \in Nat /\ p = (p - 1) + 1
    OBVIOUS
  <2> QED BY <2>1
<1>3. p * n \in Nat /\ q * n \in Nat /\ o * n \in Nat /\ 100 * n = p * n + q * n
  BY <1>1, <1>2
<1>4. p * n = o * n + n
  BY <1>2
<1> QED BY <1>3, <1>4

LEMMA RankBucketIs ==
  ASSUME IType, Ledger, NEW p \in 1 .. 100, All # {}
  PROVE  LET i == rank_bucket(p, Merged(shard).buckets)
         IN  /\ i \in 0 .. NUM_BUCKETS - 1
             /\ 100 * Reached(i - 1) < p * Cardinality(All)
             /\ p * Cardinality(All) <= 100 * Reached(i)
             /\ \A j \in 0 .. NUM_BUCKETS - 1 :
                  p * Cardinality(All) <= 100 * Reached(j) => i <= j
<1> DEFINE N  == 0 .. NUM_BUCKETS - 1
           pn == p * Cardinality(All)
           C  == {j \in N : 100 * Reached(j) >= pn}
<1>1. NUM_BUCKETS \in Nat \ {0} /\ IsFiniteSet(N)
  BY SlotNames, FS_Interval
<1>2. Cardinality(All) \in Nat \ {0}
  BY AllType, FS_EmptySet
<1>3. pn \in Nat /\ pn <= 100 * Cardinality(All) /\ pn > 0
  BY <1>2, RankType
<1>4. rank_bucket(p, Merged(shard).buckets) = Min(C)
  <2>1. \A j \in N : Cumulative(Merged(shard).buckets, j) = Reached(j)
    BY CumulativeIs DEF Reached
  <2>2. Cumulative(Merged(shard).buckets, NUM_BUCKETS - 1) = Cardinality(All)
    <3>1. NUM_BUCKETS - 1 \in N
      BY <1>1
    <3> QED BY <3>1, CumulativeIs
  <2>3. C = {j \in N : 100 * Cumulative(Merged(shard).buckets, j)
                         >= p * Cumulative(Merged(shard).buckets, NUM_BUCKETS - 1)}
    BY <2>1, <2>2
  <2> QED BY <2>3 DEF rank_bucket
<1>5. NUM_BUCKETS - 1 \in C
  <2>1. NUM_BUCKETS - 1 \in N /\ Reached(NUM_BUCKETS - 1) = Cardinality(All)
    <3>1. NUM_BUCKETS - 1 \in N
      BY <1>1
    <3> QED BY <3>1, CumulativeIs DEF Reached
  <2> QED BY <1>3, <2>1
<1>6. \A j \in N : Reached(j) \in Nat /\ Reached(j - 1) \in Nat
                     /\ (j = 0 => Reached(j - 1) = 0)
  <2>1. \A j \in Int : Reached(j) \in Nat /\ (j < 0 => Reached(j) = 0)
    BY ReachedType
  <2>2. \A j \in N : j \in Int /\ j - 1 \in Int /\ (j = 0 => j - 1 < 0)
    BY <1>1
  <2> QED BY <2>1, <2>2
<1>7. C \in SUBSET N /\ \A j \in C : j \in Int
  OBVIOUS
<1>8. \E j \in C : \A k \in C : j <= k
  <2> HIDE DEF C, N
  <2>1. IsFiniteSet(C)
    BY <1>1, <1>7, FS_Subset
  <2> DEFINE f == [j \in C |-> j]
  <2>2. \A j \in C : f[j] = j
    OBVIOUS
  <2> HIDE DEF f
  <2> QED BY <1>5, <1>7, <2>1, <2>2, LeastExists
<1> DEFINE i == Min(C)
<1>9. i \in C /\ \A k \in C : i <= k
  BY <1>8 DEF Min
<1>10. i \in N /\ pn <= 100 * Reached(i)
  <2> HIDE DEF i, pn
  <2> QED BY <1>3, <1>6, <1>9
<1>11. \A j \in N : pn <= 100 * Reached(j) => i <= j
  <2> HIDE DEF i, pn
  <2> QED BY <1>3, <1>6, <1>9
<1>12. 100 * Reached(i - 1) < pn
  <2> HIDE DEF i, pn, C
  <2>1. CASE i = 0
    BY <1>3, <1>6, <1>10, <2>1
  <2>2. CASE i # 0
    <3>1. i - 1 \in N /\ ~(i <= i - 1)
      BY <1>1, <1>10, <2>2
    <3>2. Reached(i - 1) \in Nat
      BY <1>6, <3>1
    <3> QED BY <1>3, <1>11, <3>1, <3>2
  <2> QED BY <2>1, <2>2
<1> QED BY <1>4, <1>10, <1>11, <1>12

(* Between the bounds of that bucket, as far as the rank is into it.        *)
LEMMA QuantileIs ==
  ASSUME IType, Ledger, NEW p \in 1 .. 100, All # {}
  PROVE  LET i == rank_bucket(p, Merged(shard).buckets)
             B == Cardinality(InBucket(i))
             x == p * Cardinality(All) - 100 * Reached(i - 1)
             l == lower_bound(i)
             u == upper_bound(i, Merged(shard).max_us)
         IN  /\ B \in Nat \ {0} /\ x \in Nat \ {0} /\ x <= 100 * B
             /\ histogram_quantile(p, Merged(shard).buckets, Merged(shard).max_us)
                  = <<l * 100 * B + (u - l) * x, 100 * B>>
<1> DEFINE m  == Merged(shard)
           i  == rank_bucket(p, m.buckets)
           B  == Cardinality(InBucket(i))
           pn == p * Cardinality(All)
           x  == pn - 100 * Reached(i - 1)
<1>1. /\ i \in 0 .. NUM_BUCKETS - 1
      /\ 100 * Reached(i - 1) < pn /\ pn <= 100 * Reached(i)
  BY RankBucketIs
<1>2. NUM_BUCKETS \in Nat \ {0} /\ Cardinality(All) \in Nat \ {0}
  BY SlotNames, AllType, FS_EmptySet
<1>3. pn \in Nat
  BY <1>2, RankType
<1>4. /\ Reached(i) \in Nat /\ Reached(i - 1) \in Nat /\ B \in Nat
      /\ Reached(i) = Reached(i - 1) + B
  <2>1. i \in Int /\ i - 1 \in Int
    BY <1>1, <1>2
  <2> HIDE DEF i
  <2> QED BY <2>1, ReachedType
<1>5. Cumulative(m.buckets, i) = Reached(i)
      /\ Cumulative(m.buckets, NUM_BUCKETS - 1) = Cardinality(All)
  <2> HIDE DEF i
  <2> QED BY <1>1, CumulativeIs DEF Reached
<1>6. m.buckets[i] = B
  <2> HIDE DEF i
  <2> QED BY <1>1, MergedCounts
<1>7. B > 0 /\ x \in Nat \ {0} /\ x <= 100 * B
  <2> HIDE DEF B, pn, i
  <2> QED BY <1>1, <1>3, <1>4
<1>8. Cumulative(m.buckets, i) - m.buckets[i] = Reached(i - 1)
  <2> HIDE DEF B, i
  <2> QED BY <1>4, <1>5, <1>6
<1>9. histogram_quantile(p, m.buckets, m.max_us)
        = <<lower_bound(i) * 100 * B + (upper_bound(i, m.max_us) - lower_bound(i)) * x, 100 * B>>
  <2>1. Cumulative(m.buckets, NUM_BUCKETS - 1) # 0 /\ m.buckets[i] # 0
    BY <1>2, <1>4, <1>5, <1>6, <1>7
  <2> QED BY <2>1, <1>5, <1>6, <1>8 DEF histogram_quantile
<1> QED BY <1>4, <1>7, <1>9

-----------------------------------------------------------------------------
(* Rationals.                                                               *)
Ratio == Int \X (Nat \ {0})

LEMMA TimesLeq ==
  ASSUME NEW a \in Int, NEW b \in Int, NEW c \in Nat, a <= b
  PROVE  a * c <= b * c
<1>1. PICK d \in Nat : b = a + d
  <2>1. b - a \in Nat /\ b = a + (b - a)
    OBVIOUS
  <2> QED BY <2>1
<1>2. b * c = a * c + d * c /\ d * c \in Nat /\ a * c \in Int
  BY <1>1
<1> QED BY <1>2

LEMMA TimesCancel ==
  ASSUME NEW a \in Int, NEW b \in Int, NEW c \in Nat \ {0}, a * c <= b * c
  PROVE  a <= b
<1> SUFFICES ASSUME b < a PROVE FALSE
  OBVIOUS
<1>1. b + 1 \in Int /\ b + 1 <= a /\ c \in Nat
  OBVIOUS
<1>2. (b + 1) * c <= a * c
  BY <1>1, TimesLeq
<1>3. (b + 1) * c = b * c + c /\ b * c \in Int /\ a * c \in Int
  OBVIOUS
<1> QED BY <1>2, <1>3

LEMMA LeqTransitive ==
  ASSUME NEW a \in Ratio, NEW b \in Ratio, NEW c \in Ratio, Leq(a, b), Leq(b, c)
  PROVE  Leq(a, c)
<1>1. PICK a1 \in Int, a2 \in Nat \ {0}, b1 \in Int, b2 \in Nat \ {0}, c1 \in Int,
           c2 \in Nat \ {0} : a = <<a1, a2>> /\ b = <<b1, b2>> /\ c = <<c1, c2>>
  BY DEF Ratio
<1>2. a1 * b2 <= b1 * a2 /\ b1 * c2 <= c1 * b2
  BY <1>1 DEF Leq
<1>3. /\ a1 * b2 \in Int /\ b1 * a2 \in Int /\ b1 * c2 \in Int /\ c1 * b2 \in Int
      /\ a1 * c2 \in Int /\ c1 * a2 \in Int
  BY <1>1
<1>4. (a1 * b2) * c2 <= (b1 * a2) * c2 /\ (b1 * c2) * a2 <= (c1 * b2) * a2
  <2>1. c2 \in Nat /\ a2 \in Nat
    BY <1>1
  <2> QED BY ONLY <1>2, <1>3, <2>1, TimesLeq
<1>5. /\ (a1 * b2) * c2 = (a1 * c2) * b2 /\ (b1 * a2) * c2 = (b1 * c2) * a2
      /\ (c1 * b2) * a2 = (c1 * a2) * b2
  BY <1>1
<1>6. (a1 * c2) * b2 <= (c1 * a2) * b2
  <2>1. (a1 * c2) * b2 \in Int /\ (b1 * c2) * a2 \in Int /\ (c1 * a2) * b2 \in Int
    BY <1>1, <1>3
  <2> QED BY ONLY <1>4, <1>5, <2>1
<1>7. a1 * c2 <= c1 * a2
  <2>1. b2 \in Nat \ {0}
    BY <1>1
  <2> QED BY ONLY <1>3, <1>6, <2>1, TimesCancel
<1> QED BY <1>1, <1>7 DEF Leq

LEMMA RatType ==
  ASSUME NEW n \in Int
  PROVE  Rat(n) \in Ratio
BY DEF Rat, Ratio

LEMMA RatLeq ==
  ASSUME NEW a \in Int, NEW b \in Int
  PROVE  Leq(Rat(a), Rat(b)) <=> a <= b
BY DEF Leq, Rat

(* A fraction of the way from l to l + d.                                   *)
LEMMA Interpolated ==
  ASSUME NEW l \in Nat, NEW d \in Nat, NEW D \in Nat \ {0}, NEW x \in Nat, x <= D
  PROVE  /\ <<l * D + d * x, D>> \in Ratio
         /\ Leq(Rat(l), <<l * D + d * x, D>>)
         /\ Leq(<<l * D + d * x, D>>, Rat(l + d))
         /\ \A y \in Nat : y <= x => Leq(<<l * D + d * y, D>>, <<l * D + d * x, D>>)
<1>1. l * D \in Nat /\ d * x \in Nat /\ d * D \in Nat
  OBVIOUS
<1>2. d * x <= d * D
  <2>1. x * d <= D * d
    BY TimesLeq
  <2> QED BY <2>1
<1>3. l * D + d * x \in Nat
  BY <1>1
<1>4. <<l * D + d * x, D>> \in Ratio
  <2> DEFINE a == l * D + d * x
  <2> HIDE DEF a
  <2>1. a \in Int
    BY <1>3 DEF a
  <2>2. <<a, D>> \in Ratio
    BY <2>1 DEF Ratio
  <2> QED BY <2>2 DEF a
<1>5. Leq(Rat(l), <<l * D + d * x, D>>)
  <2>1. l * D <= (l * D + d * x) * 1
    BY <1>1
  <2> QED BY <2>1 DEF Leq, Rat
<1>6. Leq(<<l * D + d * x, D>>, Rat(l + d))
  <2>1. (l + d) * D = l * D + d * D
    OBVIOUS
  <2>2. (l * D + d * x) * 1 <= (l + d) * D
    BY <1>1, <1>2, <2>1
  <2> QED BY <2>2 DEF Leq, Rat
<1>7. ASSUME NEW y \in Nat, y <= x
      PROVE  Leq(<<l * D + d * y, D>>, <<l * D + d * x, D>>)
  <2>1. y * d <= x * d
    BY <1>7, TimesLeq
  <2>2. l * D + d * y \in Int /\ l * D + d * x \in Int /\ l * D + d * y <= l * D + d * x
    BY <1>1, <2>1
  <2>3. (l * D + d * y) * D <= (l * D + d * x) * D
    <3>1. D \in Nat
      OBVIOUS
    <3> QED BY ONLY <2>2, <3>1, TimesLeq
  <2> QED BY <2>3 DEF Leq
<1> QED BY <1>4, <1>5, <1>6, <1>7

-----------------------------------------------------------------------------
(* The bounds of the buckets follow one another.                            *)
LEMMA BoundsType ==
  ASSUME NEW i \in 0 .. NUM_BUCKETS - 1, NEW max_us \in Nat
  PROVE  /\ lower_bound(i) \in Nat /\ upper_bound(i, max_us) \in Nat
         /\ lower_bound(i) <= upper_bound(i, max_us)
         /\ \A j \in 0 .. NUM_BUCKETS - 1 : i < j => upper_bound(i, max_us) <= lower_bound(j)
<1> DEFINE L == Len(BUCKET_BOUNDS)
<1>1. /\ L \in Nat /\ NUM_BUCKETS = L + 1
      /\ \A k \in 1 .. L : BUCKET_BOUNDS[k] \in Nat
      /\ \A k, h \in 1 .. L : k < h => BUCKET_BOUNDS[k] < BUCKET_BOUNDS[h]
  BY BoundsAssumption DEF NUM_BUCKETS
<1>2. i \in 0 .. L
  BY <1>1
<1>3. \A j \in 0 .. L : lower_bound(j) \in Nat
  <2> TAKE j \in 0 .. L
  <2>1. j # 0 => BUCKET_BOUNDS[j] \in Nat
    BY <1>1
  <2> QED BY <2>1 DEF lower_bound, TICKS_PER_US
<1>4. CASE i < L
  <2>1. i + 1 \in 1 .. L /\ BUCKET_BOUNDS[i + 1] \in Nat
    BY <1>1, <1>2, <1>4
  <2>2. upper_bound(i, max_us) = 2 * BUCKET_BOUNDS[i + 1]
    BY <1>4 DEF upper_bound, TICKS_PER_US
  <2>3. lower_bound(i) <= upper_bound(i, max_us)
    <3>1. i # 0 => i \in 1 .. L /\ BUCKET_BOUNDS[i] \in Nat
                     /\ BUCKET_BOUNDS[i] < BUCKET_BOUNDS[i + 1]
      BY <1>1, <1>2, <2>1
    <3> HIDE DEF L
    <3> QED BY <2>1, <2>2, <3>1 DEF lower_bound, TICKS_PER_US
  <2>4. ASSUME NEW j \in 0 .. L, i < j
        PROVE  upper_bound(i, max_us) <= lower_bound(j)
    <3>1. j \in 1 .. L /\ BUCKET_BOUNDS[j] \in Nat /\ j # 0
            /\ (i + 1 < j \/ i + 1 = j)
      BY <1>1, <1>2, <2>4
    <3>2. BUCKET_BOUNDS[i + 1] <= BUCKET_BOUNDS[j]
      <4> HIDE DEF L
      <4> QED BY <1>1, <2>1, <3>1
    <3>3. lower_bound(j) = 2 * BUCKET_BOUNDS[j]
      BY <3>1 DEF lower_bound, TICKS_PER_US
    <3> HIDE DEF L
    <3> QED BY <2>1, <2>2, <3>1, <3>2, <3>3
  <2>5. upper_bound(i, max_us) \in Nat
    BY <2>1, <2>2
  <2> QED BY <1>1, <1>2, <1>3, <2>3, <2>4, <2>5
<1>5. CASE i = L
  <2> DEFINE a == TICKS_PER_US * max_us
             b == lower_bound(i)
  <2>1. a \in Nat /\ b \in Nat
    BY <1>2, <1>3 DEF TICKS_PER_US
  <2>2. upper_bound(i, max_us) = Max({a, b})
    BY <1>1, <1>5 DEF upper_bound
  <2> HIDE DEF a, b
  <2>3. Max({a, b}) \in {a, b} /\ Max({a, b}) >= b
    <3>1. \E x \in {a, b} : \A y \in {a, b} : x >= y
      BY <2>1
    <3> QED BY <3>1 DEF Max
  <2>4. ~\E j \in 0 .. NUM_BUCKETS - 1 : i < j
    BY <1>1, <1>5
  <2> QED BY <2>1, <2>2, <2>3, <2>4 DEF b
<1> QED BY <1>1, <1>2, <1>4, <1>5

-----------------------------------------------------------------------------
(* The estimates.                                                           *)
Estimate(p) == histogram_quantile(p, Merged(shard).buckets, Merged(shard).max_us)

LEMMA EstimateBetween ==
  ASSUME IType, Ledger, Worker # {}, NEW p \in 1 .. 100, All # {}
  PROVE  LET i == rank_bucket(p, Merged(shard).buckets)
         IN  /\ Estimate(p) \in Ratio
             /\ Leq(Rat(lower_bound(i)), Estimate(p))
             /\ Leq(Estimate(p), Rat(upper_bound(i, Merged(shard).max_us)))
<1> DEFINE i == rank_bucket(p, Merged(shard).buckets)
           B == Cardinality(InBucket(i))
           x == p * Cardinality(All) - 100 * Reached(i - 1)
           l == lower_bound(i)
           u == upper_bound(i, Merged(shard).max_us)
<1>1. /\ B \in Nat \ {0} /\ x \in Nat /\ x <= 100 * B
      /\ Estimate(p) = <<l * 100 * B + (u - l) * x, 100 * B>>
  BY QuantileIs DEF Estimate
<1>2. l \in Nat /\ u \in Nat /\ l <= u
  <2>1. i \in 0 .. NUM_BUCKETS - 1 /\ Merged(shard).max_us \in Nat
    BY RankBucketIs, MergedExtremes
  <2> HIDE DEF i
  <2> QED BY <2>1, BoundsType
<1> DEFINE D == 100 * B
           d == u - l
<1> HIDE DEF B, x, l, u
<1>3. D \in Nat \ {0} /\ d \in Nat /\ u = l + d /\ l * 100 * B = l * D
  BY <1>1, <1>2
<1>4. Estimate(p) = <<l * D + d * x, D>> /\ x <= D
  BY <1>1, <1>3
<1> HIDE DEF D, d
<1>5. /\ <<l * D + d * x, D>> \in Ratio
      /\ Leq(Rat(l), <<l * D + d * x, D>>)
      /\ Leq(<<l * D + d * x, D>>, Rat(l + d))
  <2>1. l \in Nat /\ d \in Nat /\ D \in Nat \ {0} /\ x \in Nat /\ x <= D
    BY <1>1, <1>2, <1>3, <1>4
  <2> QED BY ONLY <2>1, Interpolated
<1>6. /\ Estimate(p) \in Ratio /\ Leq(Rat(l), Estimate(p)) /\ Leq(Estimate(p), Rat(u))
  BY ONLY <1>3, <1>4, <1>5
<1> QED BY <1>6 DEF l, u

LEMMA EstimatesOrdered ==
  ASSUME IType, Ledger, Worker # {}, All # {},
         NEW p \in 1 .. 100, NEW q \in 1 .. 100, p <= q
  PROVE  Leq(Estimate(p), Estimate(q))
<1> DEFINE n == Cardinality(All)
           i == rank_bucket(p, Merged(shard).buckets)
           j == rank_bucket(q, Merged(shard).buckets)
           max_us == Merged(shard).max_us
           pn == p * n
           qn == q * n
<1>1. n \in Nat /\ pn \in Nat /\ qn \in Nat /\ pn <= qn
  <2>1. n \in Nat
    BY AllType
  <2> HIDE DEF n
  <2> QED BY <2>1, TimesLeq
<1>2. /\ i \in 0 .. NUM_BUCKETS - 1 /\ j \in 0 .. NUM_BUCKETS - 1
      /\ 100 * Reached(i - 1) < pn /\ 100 * Reached(j - 1) < qn /\ qn <= 100 * Reached(j)
      /\ \A k \in 0 .. NUM_BUCKETS - 1 : pn <= 100 * Reached(k) => i <= k
  BY RankBucketIs
<1>3. max_us \in Nat
  BY MergedExtremes
<1>4. NUM_BUCKETS \in Nat
  BY SlotNames
<1>5. Reached(j) \in Nat /\ Reached(i - 1) \in Nat
  <2>1. j \in Int /\ i - 1 \in Int
    BY <1>2, <1>4
  <2>2. \A k \in Int : Reached(k) \in Nat
    BY ReachedType
  <2> QED BY <2>1, <2>2
<1>6. i <= j
  <2> HIDE DEF i, j, pn, qn, n
  <2>1. pn <= 100 * Reached(j)
    BY <1>1, <1>2, <1>5
  <2> QED BY <1>2, <2>1
<1>7. CASE i = j
  <2> DEFINE B == Cardinality(InBucket(i))
             l == lower_bound(i)
             u == upper_bound(i, max_us)
             b == 100 * Reached(i - 1)
             y == pn - b
             x == qn - b
  <2>1. /\ B \in Nat \ {0} /\ y \in Nat
        /\ Estimate(p) = <<l * 100 * B + (u - l) * y, 100 * B>>
    BY QuantileIs DEF Estimate
  <2>2. /\ x \in Nat /\ x <= 100 * B
        /\ Estimate(q) = <<l * 100 * B + (u - l) * x, 100 * B>>
    <3>1. LET xx == qn - 100 * Reached(j - 1)
              ll == lower_bound(j)
              uu == upper_bound(j, max_us)
              BB == Cardinality(InBucket(j))
          IN  /\ xx \in Nat /\ xx <= 100 * BB
              /\ Estimate(q) = <<ll * 100 * BB + (uu - ll) * xx, 100 * BB>>
      BY QuantileIs DEF Estimate
    <3> HIDE DEF i, j, max_us, qn
    <3> QED BY <1>7, <3>1
  <2>3. y <= x
    <3> HIDE DEF i, pn, qn, n
    <3> QED BY <1>1, <1>5
  <2>4. l \in Nat /\ u \in Nat /\ l <= u
    <3> HIDE DEF i, max_us
    <3> QED BY <1>2, <1>3, BoundsType
  <2> DEFINE D == 100 * B
             d == u - l
  <2> HIDE DEF B, x, y, l, u
  <2>5. D \in Nat \ {0} /\ d \in Nat /\ l * 100 * B = l * D
    BY <2>1, <2>4
  <2>6. /\ Estimate(p) = <<l * D + d * y, D>> /\ Estimate(q) = <<l * D + d * x, D>>
        /\ x <= D
    BY <2>1, <2>2, <2>5
  <2> HIDE DEF D, d
  <2>7. l \in Nat /\ d \in Nat /\ D \in Nat \ {0} /\ x \in Nat /\ x <= D /\ y \in Nat /\ y <= x
    BY <2>1, <2>2, <2>3, <2>4, <2>5, <2>6
  <2>8. Leq(<<l * D + d * y, D>>, <<l * D + d * x, D>>)
    BY ONLY <2>7, Interpolated
  <2> QED BY ONLY <2>6, <2>8
<1>8. CASE i < j
  <2> DEFINE u == upper_bound(i, max_us)
             l == lower_bound(j)
  <2>1. u \in Nat /\ l \in Nat /\ u <= l
    <3> HIDE DEF i, j, max_us
    <3> QED BY <1>2, <1>3, <1>8, BoundsType
  <2>2. /\ Estimate(p) \in Ratio /\ Estimate(q) \in Ratio
        /\ Leq(Estimate(p), Rat(u)) /\ Leq(Rat(l), Estimate(q))
    BY EstimateBetween
  <2> HIDE DEF u, l
  <2>3. Rat(u) \in Ratio /\ Rat(l) \in Ratio /\ Leq(Rat(u), Rat(l))
    BY <2>1, RatType, RatLeq
  <2>4. Leq(Estimate(p), Rat(l))
    BY <2>2, <2>3, LeqTransitive
  <2> QED BY <2>2, <2>3, <2>4, LeqTransitive
<1> QED
  <2>1. i \in Int /\ j \in Int
    BY <1>2, <1>4
  <2> HIDE DEF i, j
  <2> QED BY <1>6, <1>7, <1>8, <2>1


(* It is the bucket of the request that is exactly at the rank.             *)
LEMMA ExactBucket ==
  ASSUME IType, Ledger, NEW p \in 1 .. 100, All # {}
  PROVE  LET k == (p * Cardinality(All) + 99) \div 100
         IN  /\ k \in 1 .. Cardinality(All)
             /\ KthFastest(k) \in Int
             /\ rank_bucket(p, Merged(shard).buckets) = bucket_index(KthFastest(k))
<1> DEFINE n  == Cardinality(All)
           pn == p * n
           k  == (pn + 99) \div 100
           t  == KthFastest(k)
           h  == bucket_index(t)
           i  == rank_bucket(p, Merged(shard).buckets)
<1>1. /\ n \in Nat \ {0} /\ IsFiniteSet(All) /\ NUM_BUCKETS \in Nat
      /\ \A r \in All : /\ Latency[r] \in Int /\ Bucket[r] = bucket_index(Latency[r])
                        /\ Bucket[r] \in 0 .. NUM_BUCKETS - 1
  BY AllType, FS_EmptySet, SlotNames DEF Bucket
<1>2. pn \in Nat /\ pn <= 100 * n /\ pn > 0
  <2> HIDE DEF n
  <2> QED BY <1>1, RankType
<1>3. k \in 1 .. n /\ pn <= 100 * k /\ 100 * (k - 1) < pn
  <2> HIDE DEF pn, n
  <2> QED BY <1>1, <1>2
<1>4. /\ t \in Int
      /\ Cardinality(Below(Latency, All, t)) < k /\ k <= Cardinality(UpTo(Latency, All, t))
  <2> HIDE DEF k
  <2>1. (\A r \in All : Latency[r] \in Int) /\ k \in 1 .. Cardinality(All)
    BY <1>1, <1>3
  <2> QED BY <1>1, <2>1, RankedIs DEF KthFastest
<1>5. h \in 0 .. NUM_BUCKETS - 1
  <2> HIDE DEF t
  <2> QED BY <1>4, BucketType, SlotNames
<1>6. /\ i \in 0 .. NUM_BUCKETS - 1
      /\ pn <= 100 * Reached(i)
      /\ \A j \in 0 .. NUM_BUCKETS - 1 : pn <= 100 * Reached(j) => i <= j
  BY RankBucketIs
<1>7. Reached(h) \in Nat /\ Reached(i) \in Nat
  <2> HIDE DEF h, i
  <2> QED BY <1>1, <1>5, <1>6, ReachedType
<1>8. /\ Cardinality(Below(Latency, All, t)) \in Nat
      /\ Cardinality(UpTo(Latency, All, t)) \in Nat
      /\ IsFiniteSet(Below(Latency, All, t))
  BY <1>1, RankSets
<1>9. Cardinality(UpTo(Latency, All, t)) <= Reached(h)
  <2> DEFINE S == {r \in All : Bucket[r] <= h}
  <2>1. UpTo(Latency, All, t) \in SUBSET S
    <3> HIDE DEF t
    <3> QED BY <1>1, <1>4, BucketMonotone DEF UpTo
  <2>2. S \in SUBSET All
    OBVIOUS
  <2> HIDE DEF S
  <2>3. IsFiniteSet(S)
    BY <1>1, <2>2, FS_Subset
  <2>4. Cardinality(UpTo(Latency, All, t)) <= Cardinality(S)
    BY <2>1, <2>3, FS_Subset
  <2> QED BY <2>4 DEF Reached, S
<1>10. i <= h
  <2> HIDE DEF h, i, pn, t, k
  <2>1. pn <= 100 * Reached(h)
    BY <1>1, <1>2, <1>3, <1>4, <1>7, <1>8, <1>9
  <2> QED BY <1>5, <1>6, <2>1
<1>11. ~(i < h)
  <2> SUFFICES ASSUME i < h PROVE FALSE
    OBVIOUS
  <2> DEFINE S == {r \in All : Bucket[r] <= i}
  <2>1. \A r \in All : Bucket[r] <= i => ~(t <= Latency[r])
    <3> TAKE r \in All
    <3> HAVE Bucket[r] <= i
    <3> SUFFICES ASSUME t <= Latency[r] PROVE FALSE
      OBVIOUS
    <3>1. Latency[r] \in Int /\ t \in Int /\ t <= Latency[r]
      BY <1>1, <1>4
    <3>2. h <= Bucket[r]
      <4> HIDE DEF t
      <4> QED BY <1>1, <3>1, BucketMonotone
    <3>3. h \in Int /\ i \in Int /\ Bucket[r] \in Int
      BY <1>1, <1>5, <1>6
    <3> HIDE DEF h, i
    <3> QED BY <3>2, <3>3
  <2>2. S \in SUBSET Below(Latency, All, t)
    <3> HIDE DEF t, i
    <3> QED BY <1>1, <1>4, <2>1 DEF Below
  <2> HIDE DEF S
  <2>3. Cardinality(S) <= Cardinality(Below(Latency, All, t)) /\ Cardinality(S) = Reached(i)
    BY <1>8, <2>2, FS_Subset DEF S, Reached
  <2> HIDE DEF i, pn, k, t, n
  <2> QED BY <1>1, <1>2, <1>3, <1>4, <1>6, <1>7, <1>8, <2>3
<1>12. i = h
  <2> HIDE DEF i, h
  <2> QED BY <1>1, <1>5, <1>6, <1>10, <1>11
<1> QED BY <1>3, <1>4, <1>12

-----------------------------------------------------------------------------
(* What a worker reports in multiproc mode.                                 *)
LEMMA SharedReport ==
  ASSUME IType, Ledger, NEW w \in Worker, enabled[w]
  PROVE  /\ All = {} => compute(w) = NoMetrics
         /\ All # {} => /\ compute(w) = aggregate_from_merged(Merged(shard))
                        /\ compute(w).p50 = Estimate(50)
                        /\ compute(w).p95 = Estimate(95)
                        /\ compute(w).p99 = Estimate(99)
<1>1. Merged(shard).total = Cardinality(All)
  BY MergedCounts
<1>2. IsFiniteSet(All) /\ Cardinality(All) \in Nat
  BY AllType
<1>3. Cardinality(All) = 0 <=> All = {}
  BY <1>2, FS_EmptySet
<1>4. All = {} => compute(w) = NoMetrics
  BY <1>1, <1>3 DEF compute
<1>5. All # {} => compute(w) = aggregate_from_merged(Merged(shard))
  BY <1>1, <1>3 DEF compute
<1> QED BY <1>4, <1>5 DEF aggregate_from_merged, Estimate

(* Requests take time, and less than the u64 that stands for no minimum.    *)
Measured == \A req \in Requests : req.ticks >= 0 /\ micros(req.ticks) < MIN_EMPTY

LEMMA CutToMicros ==
  ASSUME Measured, IType, NEW r \in All
  PROVE  /\ Latency[r] \in Nat /\ Micros[r] \in Nat /\ Micros[r] < MIN_EMPTY
         /\ 2 * Micros[r] <= Latency[r] /\ Latency[r] <= 2 * Micros[r] + 1
<1>1. /\ counted[r[1]][r[2]] \in Requests /\ Latency[r] = counted[r[1]][r[2]].ticks
      /\ Latency[r] \in Int /\ Micros[r] = micros(Latency[r])
  BY AllType DEF Micros
<1> QED BY <1>1 DEF Measured, micros, TICKS_PER_US

(* The extremes of the merged shards are those of the latencies.            *)
LEMMA ExactExtremes ==
  ASSUME Measured, IType, Ledger, Worker # {}, All # {}
  PROVE  /\ KthFastest(1) \in Nat /\ KthFastest(Cardinality(All)) \in Nat
         /\ \A r \in All : KthFastest(1) <= Latency[r] /\ Latency[r] <= KthFastest(Cardinality(All))
         /\ Merged(shard).min_us = micros(KthFastest(1))
         /\ Merged(shard).min_us # MIN_EMPTY
         /\ Merged(shard).max_us = micros(KthFastest(Cardinality(All)))
<1> DEFINE n == Cardinality(All)
           a == KthFastest(1)
           b == KthFastest(n)
           m == Merged(shard)
<1>1. /\ n \in Nat \ {0} /\ 1 \in 1 .. n /\ n \in 1 .. n /\ IsFiniteSet(All)
      /\ \A r \in All : Latency[r] \in Int /\ Micros[r] = micros(Latency[r])
  <2>1. n \in Nat \ {0} /\ IsFiniteSet(All)
    BY AllType, FS_EmptySet
  <2>2. \A r \in All : Latency[r] \in Int /\ Micros[r] = micros(Latency[r])
    BY AllType DEF Micros
  <2> HIDE DEF n
  <2> QED BY <2>1, <2>2
<1>2. PICK x \in All : Latency[x] = a
  BY <1>1, RankedIs DEF KthFastest
<1>3. PICK y \in All : Latency[y] = b
  <2> HIDE DEF n
  <2> QED BY <1>1, RankedIs DEF KthFastest, n
<1>4. \A r \in All : a <= Latency[r] /\ Latency[r] <= b
  BY <1>1, RankExtremes DEF KthFastest
<1>5. \A r \in All : /\ Latency[r] \in Nat /\ Micros[r] \in Nat /\ Micros[r] < MIN_EMPTY
                     /\ 2 * Micros[r] <= Latency[r] /\ Latency[r] <= 2 * Micros[r] + 1
  BY CutToMicros
<1>6. a \in Nat /\ b \in Nat /\ Micros[x] = micros(a) /\ Micros[y] = micros(b)
  <2> HIDE DEF a, b
  <2> QED BY <1>1, <1>2, <1>3, <1>5
<1>7. /\ m.min_us \in Nat /\ m.max_us \in Nat
      /\ \A r \in All : m.min_us <= Micros[r] /\ Micros[r] <= m.max_us
      /\ m.min_us = MIN_EMPTY \/ \E r \in All : m.min_us = Micros[r]
      /\ m.max_us = 0 \/ \E r \in All : m.max_us = Micros[r]
  BY MergedExtremes
<1>8. \A r \in All : Micros[x] <= Micros[r] /\ Micros[r] <= Micros[y]
  <2> TAKE r \in All
  <2>1. Latency[x] <= Latency[r] /\ Latency[r] <= Latency[y]
    BY <1>2, <1>3, <1>4
  <2> HIDE DEF a, b
  <2> QED BY <1>5, <2>1
<1>9. m.min_us = Micros[x] /\ m.max_us = Micros[y] /\ Micros[x] < MIN_EMPTY
  <2>1. Micros[x] \in Nat /\ Micros[y] \in Nat /\ Micros[x] < MIN_EMPTY
    BY <1>5
  <2>2. m.min_us <= Micros[x] /\ Micros[y] <= m.max_us
    BY <1>7
  <2>3. m.min_us # MIN_EMPTY
    BY <1>7, <2>1, <2>2, RequestAssumption
  <2>4. Micros[x] <= m.min_us
    BY <1>7, <1>8, <2>3
  <2>5. m.max_us <= Micros[y]
    BY <1>7, <1>8, <2>1
  <2> HIDE DEF m
  <2> QED BY <1>7, <2>1, <2>2, <2>4, <2>5
<1> HIDE DEF a, b, m
<1>10. m.min_us # MIN_EMPTY
  BY <1>7, <1>9, RequestAssumption
<1> QED BY <1>4, <1>6, <1>9, <1>10 DEF a, b, m

(* In multiproc mode each worker reports the numbers of the requests of all *)
(* of them: exact counts, the extremes cut to microseconds, the average     *)
(* less than a microsecond too small.                                       *)
THEOREM MergedReportExact == Measured => (Spec => []MergedExact)
<1> SUFFICES ASSUME Measured PROVE Spec => []MergedExact
  OBVIOUS
<1>1. IType /\ Ledger => MergedExact
  <2> SUFFICES ASSUME IType, Ledger, NEW w \in Worker, enabled[w]
               PROVE  LET agg == compute(w)
                          sum == SumOf(Latency, All)
                          n   == Cardinality(All)
                      IN  /\ agg.total = n
                          /\ agg.errors = Cardinality(Failures)
                          /\ n > 0 =>
                               /\ agg.min = Ticks(micros(KthFastest(1)))
                               /\ agg.max = Ticks(micros(KthFastest(n)))
                               /\ Leq(agg.avg, <<sum, n>>)
                               /\ sum * agg.avg[2] < (agg.avg[1] + TICKS_PER_US * agg.avg[2]) * n
    BY DEF MergedExact, SumOf
  <2> DEFINE n == Cardinality(All)
  <2>1. n \in Nat /\ IsFiniteSet(All) /\ (n = 0 <=> All = {})
    BY AllType, FS_EmptySet
  <2>2. CASE All = {}
    <3>1. compute(w) = NoMetrics /\ Failures = {}
      BY <2>2, SharedReport DEF Failures
    <3>2. n = 0 /\ Cardinality({}) = 0
      BY <2>1, <2>2, FS_EmptySet
    <3> QED BY <3>1, <3>2 DEF NoMetrics
  <2>3. CASE All # {}
    <3> DEFINE m   == Merged(shard)
               sum == SumOf(Latency, All)
               us  == SumOf(Micros, All)
    <3>1. compute(w) = aggregate_from_merged(m)
      BY <2>3, SharedReport
    <3>2. m.total = n /\ m.errors = Cardinality(Failures) /\ m.sum_us = us
      BY MergedCounts
    <3>3. /\ m.min_us = micros(KthFastest(1)) /\ m.min_us # MIN_EMPTY
          /\ m.max_us = micros(KthFastest(n))
      BY <2>3, ExactExtremes
    <3>4. /\ compute(w).total = n /\ compute(w).errors = Cardinality(Failures)
          /\ compute(w).avg = <<TICKS_PER_US * us, n>>
          /\ compute(w).min = Ticks(micros(KthFastest(1)))
          /\ compute(w).max = Ticks(micros(KthFastest(n)))
      BY <3>1, <3>2, <3>3 DEF aggregate_from_merged
    <3>5. sum \in Int /\ us \in Int /\ 2 * us <= sum /\ sum <= 2 * us + n
      <4>1. \A r \in All : /\ Latency[r] \in Int /\ Micros[r] \in Int
                           /\ 2 * Micros[r] <= Latency[r] /\ Latency[r] <= 2 * Micros[r] + 1
        BY CutToMicros
      <4>2. sum \in Int /\ us \in Int
        BY <2>1, <4>1, SumType
      <4>3. 2 * us <= sum /\ sum <= 2 * us + n
        BY ONLY <2>1, <4>1, SumCut
      <4> QED BY <4>2, <4>3
    <3> HIDE DEF m, sum, us, n
    <3>6. n > 0
      BY <2>1, <2>3
    <3>7. (2 * us) * n <= sum * n
      <4>1. 2 * us \in Int
        BY <3>5
      <4> QED BY ONLY <2>1, <3>5, <4>1, TimesLeq
    <3>8. sum * n < (2 * us + 2 * n) * n
      <4>1. 2 * us + n \in Int /\ n \in Nat
        BY <2>1, <3>5
      <4>2. sum * n <= (2 * us + n) * n
        BY ONLY <3>5, <4>1, TimesLeq
      <4>3. (2 * us + 2 * n) * n = (2 * us + n) * n + n * n
        BY <2>1, <3>5
      <4>4. n * n > 0 /\ n * n \in Int /\ sum * n \in Int /\ (2 * us + n) * n \in Int
        BY <2>1, <3>5, <3>6
      <4> QED BY <4>2, <4>3, <4>4
    <3>9. Leq(<<2 * us, n>>, <<sum, n>>)
      BY <3>7 DEF Leq
    <3> QED BY <3>4, <3>8, <3>9 DEF n, sum, TICKS_PER_US
  <2> QED BY <2>2, <2>3
<1> QED BY <1>1, LedgerInvariant, PTL


(* A quantile estimated from the merged histogram lies in the bucket of the *)
(* request that is exactly at its rank.                                     *)
LEMMA EstimateNear ==
  ASSUME Measured, IType, Ledger, Worker # {}, All # {}, NEW p \in 1 .. 100
  PROVE  LET exact == KthFastest((p * Cardinality(All) + 99) \div 100)
             i     == bucket_index(exact)
         IN  /\ Leq(Rat(lower_bound(i)), Estimate(p))
             /\ Leq(Estimate(p),
                    IF i < Len(BUCKET_BOUNDS) THEN Rat(TICKS_PER_US * BUCKET_BOUNDS[i + 1])
                                              ELSE Rat(KthFastest(Cardinality(All))))
<1> DEFINE k     == (p * Cardinality(All) + 99) \div 100
           exact == KthFastest(k)
           i     == bucket_index(exact)
           last  == KthFastest(Cardinality(All))
           L     == Len(BUCKET_BOUNDS)
           u     == upper_bound(i, Merged(shard).max_us)
<1>1. /\ k \in 1 .. Cardinality(All) /\ exact \in Int
      /\ rank_bucket(p, Merged(shard).buckets) = i
  BY ExactBucket
<1>2. /\ Estimate(p) \in Ratio
      /\ Leq(Rat(lower_bound(i)), Estimate(p)) /\ Leq(Estimate(p), Rat(u))
  <2>1. LET j == rank_bucket(p, Merged(shard).buckets)
        IN  /\ Estimate(p) \in Ratio
            /\ Leq(Rat(lower_bound(j)), Estimate(p))
            /\ Leq(Estimate(p), Rat(upper_bound(j, Merged(shard).max_us)))
    BY EstimateBetween
  <2> HIDE DEF i
  <2> QED BY <1>1, <2>1
<1>3. i \in 0 .. L /\ L \in Nat /\ NUM_BUCKETS = L + 1
  <2> HIDE DEF exact
  <2> QED BY <1>1, BucketType, SlotType DEF NUM_BUCKETS
<1>4. CASE i < L
  BY <1>2, <1>4 DEF upper_bound
<1>5. CASE i = L
  <2>1. /\ last \in Nat /\ \A r \in All : Latency[r] <= last
        /\ Merged(shard).max_us = micros(last) /\ Merged(shard).max_us \in Nat
    BY ExactExtremes, MergedExtremes
  <2>2. exact <= last
    <3>1. PICK r \in All : Latency[r] = exact
      <4>1. IsFiniteSet(All) /\ \A r \in All : Latency[r] \in Int
        BY AllType
      <4> HIDE DEF k
      <4> QED BY <1>1, <4>1, RankedIs DEF KthFastest
    <3> QED BY <2>1, <3>1
  <2>3. lower_bound(i) \in Nat /\ lower_bound(i) <= last
    <3>1. i # 0 => i \in 1 .. L /\ BUCKET_BOUNDS[i] \in Nat /\ TICKS_PER_US * BUCKET_BOUNDS[i] < exact
      <4>1. \A j \in 1 .. L : TICKS_PER_US * BUCKET_BOUNDS[j] < exact
        <5> HIDE DEF exact
        <5> QED BY <1>1, <1>5, Overflow DEF i
      <4> HIDE DEF i, exact
      <4> QED BY <1>3, <4>1, BoundsAssumption
    <3> HIDE DEF i, exact, last
    <3> QED BY <1>1, <2>1, <2>2, <3>1 DEF lower_bound, TICKS_PER_US
  <2>4. u = Max({TICKS_PER_US * micros(last), lower_bound(i)})
    BY <1>3, <1>5, <2>1 DEF upper_bound
  <2>5. TICKS_PER_US * micros(last) \in Nat /\ TICKS_PER_US * micros(last) <= last
    <3> HIDE DEF last
    <3> QED BY <2>1 DEF micros, TICKS_PER_US
  <2>6. u \in Nat /\ u <= last
    <3> DEFINE a == TICKS_PER_US * micros(last)
               b == lower_bound(i)
    <3> HIDE DEF a, b, last, u
    <3>1. \E x \in {a, b} : \A y \in {a, b} : x >= y
      BY <2>3, <2>5 DEF a, b
    <3>2. Max({a, b}) \in {a, b}
      BY <3>1 DEF Max
    <3> QED BY <2>3, <2>4, <2>5, <3>2 DEF a, b
  <2> HIDE DEF u, last, i
  <2>7. Rat(u) \in Ratio /\ Rat(last) \in Ratio /\ Leq(Rat(u), Rat(last))
    BY <2>1, <2>6, RatType, RatLeq
  <2>8. Leq(Estimate(p), Rat(last))
    BY <1>2, <2>7, LeqTransitive
  <2>9. ~(i < L)
    BY <1>3, <1>5
  <2> QED BY <1>2, <2>8, <2>9 DEF i, last
<1> QED
  <2> HIDE DEF i
  <2> QED BY <1>3, <1>4, <1>5 DEF i

(* In multiproc mode each percentile a worker reports lies in the bucket of *)
(* the request that is exactly at that rank, whichever worker served it.    *)
THEOREM EstimatesNearExact == Measured => (Spec => []EstimateInBucket)
<1> SUFFICES ASSUME Measured PROVE Spec => []EstimateInBucket
  OBVIOUS
<1>1. IType /\ Ledger => EstimateInBucket
  <2> SUFFICES ASSUME IType, Ledger, NEW w \in Worker, enabled[w], All # {}
               PROVE  LET agg == compute(w)
                          near(est, p) ==
                            LET exact == KthFastest((p * Cardinality(All) + 99) \div 100)
                                i     == bucket_index(exact)
                            IN  /\ Leq(Rat(lower_bound(i)), est)
                                /\ Leq(est, IF i < Len(BUCKET_BOUNDS)
                                              THEN Rat(TICKS_PER_US * BUCKET_BOUNDS[i + 1])
                                              ELSE Rat(KthFastest(Cardinality(All))))
                      IN  near(agg.p50, 50) /\ near(agg.p95, 95) /\ near(agg.p99, 99)
    BY DEF EstimateInBucket
  <2>1. /\ compute(w).p50 = Estimate(50) /\ compute(w).p95 = Estimate(95)
        /\ compute(w).p99 = Estimate(99)
    BY SharedReport
  <2>2. Worker # {} /\ 50 \in 1 .. 100 /\ 95 \in 1 .. 100 /\ 99 \in 1 .. 100
    OBVIOUS
  <2> DEFINE near(p) ==
        LET exact == KthFastest((p * Cardinality(All) + 99) \div 100)
            i     == bucket_index(exact)
        IN  /\ Leq(Rat(lower_bound(i)), Estimate(p))
            /\ Leq(Estimate(p), IF i < Len(BUCKET_BOUNDS)
                                  THEN Rat(TICKS_PER_US * BUCKET_BOUNDS[i + 1])
                                  ELSE Rat(KthFastest(Cardinality(All))))
  <2>3. ASSUME NEW p \in 1 .. 100
        PROVE  near(p)
    BY <2>2, EstimateNear
  <2>4. near(50) /\ near(95) /\ near(99)
    <3> HIDE DEF near
    <3> QED BY <2>2, <2>3
  <2> QED BY <2>1, <2>4
<1> QED BY <1>1, LedgerInvariant, PTL


-----------------------------------------------------------------------------
(* What a worker reports of its own store.                                  *)
Durations(reqs) == [k \in DOMAIN reqs |-> reqs[k].ticks]

LEMMA SortedIs ==
  ASSUME NEW reqs \in Seq(Requests), reqs # <<>>
  PROVE  LET n == Len(reqs)
             d == Durations(reqs)
             s == Sorted(d)
         IN  /\ n \in Nat \ {0} /\ Len(s) = n
             /\ \A k \in 1 .. n : s[k] \in Int
             /\ \A k \in 1 .. n : \A l \in 1 .. n : k <= l => s[k] <= s[l]
             /\ TickSum(d) \in Int
             /\ s[1] * n <= TickSum(d) /\ TickSum(d) <= s[n] * n
<1> DEFINE n == Len(reqs)
           D == DOMAIN reqs
           d == Durations(reqs)
           s == Sorted(d)
<1>1. n \in Nat \ {0} /\ D = 1 .. n
  OBVIOUS
<1>2. IsFiniteSet(D) /\ Cardinality(D) = n
  <2> HIDE DEF n, D
  <2>1. n \in Int /\ 1 \in Int /\ n > 0
    BY <1>1
  <2>2. IsFiniteSet(1 .. n) /\ Cardinality(1 .. n) = IF 1 > n THEN 0 ELSE n - 1 + 1
    BY ONLY <2>1, FS_Interval
  <2> QED BY <1>1, <2>1, <2>2
<1>3. DOMAIN d = D /\ \A k \in D : d[k] \in Int
  <2>1. \A k \in D : reqs[k] \in Requests
    OBVIOUS
  <2> QED BY <2>1, RequestAssumption DEF Durations
<1>4. /\ s = [k \in 1 .. n |-> Ranked(d, D, k)] /\ Len(s) = n
      /\ \A k \in 1 .. n : s[k] = Ranked(d, D, k)
  <2>1. s = [k \in 1 .. n |-> Ranked(d, D, k)]
    <3> HIDE DEF n, D, d
    <3> QED BY <1>1, <1>3 DEF Sorted
  <2> HIDE DEF s, d, n, D
  <2>2. DOMAIN s = 1 .. n /\ s = [k \in 1 .. n |-> s[k]]
    BY <2>1
  <2>3. Len(s) = n
    BY <1>1, <2>1
  <2> QED BY <2>1, <2>3
<1> HIDE DEF n, D, d, s
<1>5. \A k \in 1 .. n : s[k] \in Int
  BY <1>2, <1>3, <1>4, RankedIs
<1>6. ASSUME NEW k \in 1 .. n, NEW l \in 1 .. n, k <= l
      PROVE  s[k] <= s[l]
  <2>1. Ranked(d, D, k) <= Ranked(d, D, l)
    BY <1>2, <1>3, <1>6, RankMonotone
  <2> QED BY <1>4, <2>1
<1>7. 1 \in 1 .. n /\ n \in 1 .. n
  BY <1>1
<1>8. \A x \in D : s[1] <= d[x] /\ d[x] <= s[n]
  <2>1. D # {}
    BY <1>1, <1>7
  <2>2. \A x \in D : Ranked(d, D, 1) <= d[x] /\ d[x] <= Ranked(d, D, n)
    BY <1>2, <1>3, <2>1, RankExtremes
  <2> QED BY <1>4, <1>7, <2>2
<1>9. TickSum(d) = SumOf(d, D)
  BY <1>3 DEF TickSum, SumOf
<1>10. SumOf(d, D) \in Int
  BY <1>2, <1>3, SumType
<1>11. n * s[1] <= SumOf(d, D) /\ SumOf(d, D) <= n * s[n]
  <2>1. s[1] \in Int /\ s[n] \in Int
    BY <1>5, <1>7
  <2>2. Cardinality(D) * s[1] <= SumOf(d, D)
    BY ONLY <1>2, <1>3, <1>8, <2>1, SumAtLeast
  <2>3. SumOf(d, D) <= Cardinality(D) * s[n]
    BY ONLY <1>2, <1>3, <1>8, <2>1, SumAtMost
  <2> QED BY <1>2, <2>2, <2>3
<1>12. n * s[1] = s[1] * n /\ n * s[n] = s[n] * n
  BY <1>1, <1>5, <1>7
<1> QED BY <1>1, <1>4, <1>5, <1>6, <1>9, <1>10, <1>11, <1>12 DEF n, d, s

(* The index of a percentile is within the sorted durations.                *)
LEMMA PercentileIndex ==
  ASSUME NEW n \in Nat \ {0}
  PROVE  LET at(p) == 1 + (2 * p * (n - 1) + 100) \div 200
         IN  /\ at(50) \in 1 .. n /\ at(95) \in 1 .. n /\ at(99) \in 1 .. n
             /\ at(50) <= at(95) /\ at(95) <= at(99)
<1>1. n - 1 \in Nat
  OBVIOUS
<1>2. PICK m \in Nat : n = m + 1 /\ n - 1 = m
  BY <1>1
<1>3. /\ 1 + (2 * 50 * m + 100) \div 200 \in 1 .. m + 1
      /\ 1 + (2 * 95 * m + 100) \div 200 \in 1 .. m + 1
      /\ 1 + (2 * 99 * m + 100) \div 200 \in 1 .. m + 1
  OBVIOUS
<1>4. /\ (2 * 50 * m + 100) \div 200 <= (2 * 95 * m + 100) \div 200
      /\ (2 * 95 * m + 100) \div 200 <= (2 * 99 * m + 100) \div 200
  OBVIOUS
<1> QED BY <1>2, <1>3, <1>4

LEMMA StoreOrdered ==
  ASSUME NEW reqs \in Seq(Requests), reqs # <<>>
  PROVE  LET agg == aggregate_from_store(reqs)
         IN  /\ Leq(agg.p50, agg.p95) /\ Leq(agg.p95, agg.p99)
             /\ Leq(agg.min, agg.avg) /\ Leq(agg.avg, agg.max)
             /\ Leq(agg.min, agg.p50) /\ Leq(agg.p99, agg.max)
<1> DEFINE n == Len(reqs)
           d == Durations(reqs)
           s == Sorted(d)
           at(p) == 1 + (2 * p * (n - 1) + 100) \div 200
           agg == aggregate_from_store(reqs)
<1>1. /\ n \in Nat \ {0} /\ Len(s) = n
      /\ \A k \in 1 .. n : s[k] \in Int
      /\ \A k \in 1 .. n : \A l \in 1 .. n : k <= l => s[k] <= s[l]
      /\ TickSum(d) \in Int
      /\ s[1] * n <= TickSum(d) /\ TickSum(d) <= s[n] * n
  BY SortedIs
<1>2. /\ at(50) \in 1 .. n /\ at(95) \in 1 .. n /\ at(99) \in 1 .. n
      /\ at(50) <= at(95) /\ at(95) <= at(99)
  BY <1>1, PercentileIndex
<1>3. /\ agg.min = Rat(s[1]) /\ agg.max = Rat(s[n]) /\ agg.avg = <<TickSum(d), n>>
      /\ agg.p50 = Rat(percentile(s, 50)) /\ agg.p95 = Rat(percentile(s, 95))
      /\ agg.p99 = Rat(percentile(s, 99))
  BY DEF aggregate_from_store, Durations
<1>4. /\ percentile(s, 50) = s[at(50)] /\ percentile(s, 95) = s[at(95)]
      /\ percentile(s, 99) = s[at(99)]
  BY <1>1 DEF percentile
<1> DEFINE a == at(50)
           b == at(95)
           c == at(99)
           t == TickSum(d)
<1> HIDE DEF n, d, s, at, agg, a, b, c, t
<1>5. /\ a \in 1 .. n /\ b \in 1 .. n /\ c \in 1 .. n /\ a <= b /\ b <= c
  BY <1>2 DEF a, b, c
<1>6. 1 \in 1 .. n /\ n \in 1 .. n /\ 1 <= a /\ c <= n
  BY <1>1, <1>5
<1>7. /\ s[1] <= s[a] /\ s[a] <= s[b] /\ s[b] <= s[c] /\ s[c] <= s[n]
      /\ s[1] \in Int /\ s[a] \in Int /\ s[b] \in Int /\ s[c] \in Int /\ s[n] \in Int
  BY <1>1, <1>5, <1>6
<1>8. /\ Leq(Rat(s[a]), Rat(s[b])) /\ Leq(Rat(s[b]), Rat(s[c]))
      /\ Leq(Rat(s[1]), Rat(s[a])) /\ Leq(Rat(s[c]), Rat(s[n]))
  BY <1>7, RatLeq
<1>9. Leq(Rat(s[1]), <<t, n>>) /\ Leq(<<t, n>>, Rat(s[n]))
  <2>1. s[1] * n <= t * 1 /\ t * 1 <= s[n] * n
    BY <1>1 DEF t
  <2> QED BY <2>1 DEF Leq, Rat
<1> QED BY <1>3, <1>4, <1>8, <1>9 DEF a, b, c, t, agg

LEMMA SharedOrdered ==
  ASSUME IType, Ledger, Worker # {}, All # {}
  PROVE  LET agg == aggregate_from_merged(Merged(shard))
         IN  /\ Leq(agg.p50, agg.p95) /\ Leq(agg.p95, agg.p99)
             /\ Leq(agg.min, agg.avg) /\ Leq(agg.avg, agg.max)
<1> DEFINE m   == Merged(shard)
           agg == aggregate_from_merged(m)
           n   == Cardinality(All)
           us  == SumOf(Micros, All)
<1>1. n \in Nat \ {0} /\ IsFiniteSet(All) /\ \A r \in All : Micros[r] \in Int
  <2>1. n \in Nat \ {0} /\ IsFiniteSet(All) /\ \A r \in All : Micros[r] \in Nat
    BY AllType, FS_EmptySet
  <2> QED BY <2>1
<1>2. /\ m.min_us \in Nat /\ m.max_us \in Nat
      /\ \A r \in All : m.min_us <= Micros[r] /\ Micros[r] <= m.max_us
  BY MergedExtremes
<1>3. m.sum_us = us /\ m.total = n
  BY MergedCounts
<1>4. /\ agg.p50 = Estimate(50) /\ agg.p95 = Estimate(95) /\ agg.p99 = Estimate(99)
      /\ agg.min = IF m.min_us = MIN_EMPTY THEN Rat(0) ELSE Ticks(m.min_us)
      /\ agg.max = Ticks(m.max_us) /\ agg.avg = <<TICKS_PER_US * us, n>>
  BY <1>3 DEF aggregate_from_merged, Estimate
<1>5. Leq(Estimate(50), Estimate(95)) /\ Leq(Estimate(95), Estimate(99))
  BY EstimatesOrdered
<1> DEFINE lo == m.min_us
           hi == m.max_us
<1>6. us \in Int /\ n * lo <= us /\ us <= n * hi
  <2> HIDE DEF lo, hi, m
  <2>1. us \in Int
    BY <1>1, SumType
  <2>2. lo \in Int /\ hi \in Int /\ \A r \in All : lo <= Micros[r] /\ Micros[r] <= hi
    BY <1>2 DEF lo, hi
  <2>3. n * lo <= us
    BY ONLY <1>1, <2>2, SumAtLeast
  <2>4. us <= n * hi
    BY ONLY <1>1, <2>2, SumAtMost
  <2> QED BY <2>1, <2>3, <2>4
<1>7. lo \in Nat /\ hi \in Nat
  BY <1>2
<1> HIDE DEF m, agg, n, us, lo, hi
<1>8. n * lo \in Nat /\ n * hi \in Nat /\ (2 * lo) * n = 2 * (n * lo) /\ (2 * hi) * n = 2 * (n * hi)
  BY <1>1, <1>7
<1>9. Leq(Ticks(lo), <<2 * us, n>>) /\ Leq(Rat(0), <<2 * us, n>>) /\ Leq(<<2 * us, n>>, Ticks(hi))
  <2>1. (2 * lo) * n <= (2 * us) * 1 /\ 0 * n <= (2 * us) * 1 /\ (2 * us) * 1 <= (2 * hi) * n
    BY <1>1, <1>6, <1>8
  <2> QED BY <2>1 DEF Leq, Ticks, Rat, TICKS_PER_US
<1> QED BY <1>4, <1>5, <1>9 DEF lo, hi, agg, m, TICKS_PER_US

(* In both modes the percentiles a worker reports are in order, and the     *)
(* average is between the extremes; those of the store are too.             *)
THEOREM ReportsOrdered == Spec => []PercentilesOrdered
<1>1. IType /\ Ledger => PercentilesOrdered
  <2> SUFFICES ASSUME IType, Ledger, NEW w \in Worker
               PROVE  LET agg == compute(w)
                      IN  /\ Leq(agg.p50, agg.p95) /\ Leq(agg.p95, agg.p99)
                          /\ Leq(agg.min, agg.avg) /\ Leq(agg.avg, agg.max)
                          /\ ~enabled[w] => Leq(agg.min, agg.p50) /\ Leq(agg.p99, agg.max)
    BY DEF PercentilesOrdered
  <2>1. CASE compute(w) = NoMetrics
    <3>1. Leq(Rat(0), Rat(0))
      BY RatLeq
    <3> QED BY <2>1, <3>1 DEF NoMetrics
  <2>2. CASE enabled[w] /\ All # {}
    <3>1. compute(w) = aggregate_from_merged(Merged(shard))
      BY <2>2, SharedReport
    <3> QED BY <2>2, <3>1, SharedOrdered
  <2>3. CASE ~enabled[w] /\ store[w] # <<>>
    <3>1. compute(w) = aggregate_from_store(store[w]) /\ store[w] \in Seq(Requests)
      BY <2>3 DEF compute, IType
    <3> QED BY <2>3, <3>1, StoreOrdered
  <2>4. CASE enabled[w] /\ All = {}
    BY <2>1, <2>4, SharedReport
  <2>5. CASE ~enabled[w] /\ store[w] = <<>>
    BY <2>1, <2>5 DEF compute
  <2> QED BY <2>2, <2>3, <2>4, <2>5
<1> QED BY <1>1, LedgerInvariant, PTL
=============================================================================
