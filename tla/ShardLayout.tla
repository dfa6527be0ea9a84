---------------------------- MODULE ShardLayout ----------------------------
(***************************************************************************)
(* The layout of a shard of src/multiproc.rs, a flat array of 64-bit       *)
(* slots, and what recording one request does to each of them.             *)
(***************************************************************************)
EXTENDS Integers, Sequences, FiniteSetsExt

CONSTANTS
  BUCKET_BOUNDS,    (* Inclusive upper bounds of the finite buckets, in us. *)
  MIN_EMPTY,        (* The sentinel u64::MAX of the minimum slot.           *)
  Requests          (* What a worker may record: [status, ticks].           *)

ASSUME BoundsAssumption ==
  /\ BUCKET_BOUNDS \in Seq(Nat)
  /\ \A i, j \in DOMAIN BUCKET_BOUNDS : i < j => BUCKET_BOUNDS[i] < BUCKET_BOUNDS[j]
ASSUME RequestAssumption ==
  /\ MIN_EMPTY \in Nat
  /\ Requests \subseteq [status : Nat, ticks : Int]

-----------------------------------------------------------------------------

FORMAT_VERSION  == 1
I_VERSION       == 0
I_PID           == 1
I_TOTAL         == 2
I_ERRORS        == 3
I_SUM_US        == 4
I_MIN_US        == 5
I_MAX_US        == 6
I_BUCKETS_START == 8
NUM_BUCKETS     == Len(BUCKET_BOUNDS) + 1
SHARD_LEN_U64   == I_BUCKETS_START + NUM_BUCKETS
Slot            == 0 .. SHARD_LEN_U64 - 1

(* A latency, a float of milliseconds in the code, is counted in ticks of   *)
(* half a microsecond: an odd number stands for any latency between two     *)
(* whole microseconds.  A negative one is clamped.                          *)
TICKS_PER_US == 2
micros_Rounded(ticks) == IF ticks < 0 THEN 0 ELSE (ticks + 1) \div TICKS_PER_US
micros(ticks) == IF ticks < 0 THEN 0 ELSE ticks \div TICKS_PER_US

(* The conversion to u64 saturates, so no latency exceeds the sentinel.     *)
ASSUME SentinelAssumption == \A req \in Requests : micros(req.ticks) <= MIN_EMPTY

(* The first bucket whose bound is not below the latency, else overflow.    *)
bucket_index_FromOne(ticks) ==
  1 + Cardinality({i \in 1 .. Len(BUCKET_BOUNDS) : TICKS_PER_US * BUCKET_BOUNDS[i] < ticks})

bucket_index(ticks) ==
  Cardinality({i \in 1 .. Len(BUCKET_BOUNDS) : TICKS_PER_US * BUCKET_BOUNDS[i] < ticks})

(* The slots record() adds a request to, and how it changes each of them.   *)
(* The heartbeat slot is left out: it is stored and never loaded.           *)
RecordSlots_SkipFailed(req) ==
  {I_SUM_US, I_MIN_US, I_MAX_US, I_BUCKETS_START + bucket_index(req.ticks)}
    \cup {IF req.status >= 400 THEN I_ERRORS ELSE I_TOTAL}

RecordSlots_NoBucket(req) ==
  {I_TOTAL, I_SUM_US, I_MIN_US, I_MAX_US} \cup {s \in {I_ERRORS} : req.status >= 400}

RecordSlots(req) ==
  {I_TOTAL, I_SUM_US, I_MIN_US, I_MAX_US, I_BUCKETS_START + bucket_index(req.ticks)}
    \cup {s \in {I_ERRORS} : req.status >= 400}

Added(s, v, us) ==
  CASE s = I_SUM_US -> v + us
    [] s = I_MIN_US -> IF us < v THEN us ELSE v
    [] s = I_MAX_US -> IF us > v THEN us ELSE v
    [] OTHER        -> v + 1

(* The header open_writer() stores into a shard that is not its own yet.    *)
HeaderSlots_NoMin == {I_VERSION, I_PID}
HeaderSlots == {I_VERSION, I_PID, I_MIN_US}

Header(p, s) ==
  CASE s = I_VERSION -> FORMAT_VERSION
    [] s = I_PID     -> p
    [] OTHER         -> MIN_EMPTY

(* The slots merge_one() adds up, and what an unread shard contributes.     *)
MergeSlots == (I_TOTAL .. I_MAX_US) \cup (I_BUCKETS_START .. SHARD_LEN_U64 - 1)

EmptyReading == [s \in MergeSlots |-> IF s = I_MIN_US THEN MIN_EMPTY ELSE 0]
ZeroShard    == [s \in Slot |-> 0]

(* The Merged struct: the readings of the shards added up.                  *)
Sum(view, s) == MapThenSumSet(LAMBDA n : view[n][s], DOMAIN view)

Merged(view) ==
  [total   |-> Sum(view, I_TOTAL),
   errors  |-> Sum(view, I_ERRORS),
   sum_us  |-> Sum(view, I_SUM_US),
   min_us  |-> Min({view[n][I_MIN_US] : n \in DOMAIN view}),
   max_us  |-> Max({view[n][I_MAX_US] : n \in DOMAIN view}),
   buckets |-> [b \in 0 .. NUM_BUCKETS - 1 |-> Sum(view, I_BUCKETS_START + b)]]
=============================================================================
