-------------------------- MODULE ShardsProperties --------------------------
(***************************************************************************)
(* What src/multiproc.rs promises about the shards, and what it does not.  *)
(* Which environment each property is checked in is said in README.md.     *)
(***************************************************************************)
EXTENDS Shards

Live(p) == proc[p] = "running" /\ mode[p] = "enabled"

(* Has the shard of that name got its header?                               *)
Complete(i) == file[i][I_VERSION] = FORMAT_VERSION /\ file[i][I_PID] = i[1]

-----------------------------------------------------------------------------
(* Safety invariants.                                                       *)

(* Two live workers never write the same shard file: record() runs without  *)
(* any lock between processes because each worker only touches its own.     *)
OwnShardOnly ==
  \A p, q \in Pid : Live(p) /\ Live(q) /\ p # q => writer[p] # writer[q]

(* The shard a live worker writes is the one its name in the directory      *)
(* leads to, so every merged() finds it: neither the pruning of dead        *)
(* workers by other processes nor re-opening detaches it.                   *)
LiveShardListed ==
  \A p \in Pid : Live(p) => dir[writer[p][1]] = writer[p][2]

(* A file some running worker writes.                                       *)
Mapped(i) ==
  \E p \in Pid : proc[p] = "running" /\ mode[p] = "enabled" /\ writer[p] = i

(* A scrape that returns has counted, for every shard a live worker writes, *)
(* at least the requests whose record() had returned when the scrape read   *)
(* the directory, and those any scrape could have seen by then: of a worker *)
(* that lives on, a scrape never reports less than the one before it -      *)
(* however they interleave with recording, pruning, crashes and each other. *)
NoLostRequests ==
  \A r \in Pid : Returning(r) =>
    \A i \in Ino : Mapped(i) =>
      scan[r].view[i[1]][I_TOTAL] >= Max({scan[r].floor[i], scan[r].base[i]})

(* A live worker's shard counts the requests this very process recorded:    *)
(* nothing inherited from a dead worker, nothing lost by switching          *)
(* multiproc mode off and on.                                               *)
OwnCounts ==
  \A p \in Pid : Live(p) /\ pc[p] = "idle" => file[writer[p]][I_TOTAL] = own[p]

BucketSum(slots) ==
  MapThenSumSet(LAMBDA s : slots[s], I_BUCKETS_START .. SHARD_LEN_U64 - 1)

(* Buckets a latency of that many whole microseconds may be counted in: the *)
(* slots are truncated to microseconds, the bucket is chosen before that.   *)
BucketsOf(us) ==
  {I_BUCKETS_START + bucket_index(t) : t \in {TICKS_PER_US * us, TICKS_PER_US * us + 1}}

(* A shard none of whose record() calls is unfinished is a coherent summary *)
(* of the same requests: each in one bucket, errors among them, the         *)
(* extremes in buckets that counted something and the sum between them.     *)
QuiescentCoherent ==
  \A i \in Ino : begun[i] = done[i] =>
    LET total == file[i][I_TOTAL]
        min   == file[i][I_MIN_US]
        max   == file[i][I_MAX_US]
    IN  /\ total = done[i]
        /\ BucketSum(file[i]) = total
        /\ file[i][I_ERRORS] <= total
        /\ total > 0 =>
             /\ \E b \in BucketsOf(min) : file[i][b] > 0
             /\ \E b \in BucketsOf(max) : file[i][b] > 0
             /\ total * min <= file[i][I_SUM_US]
             /\ file[i][I_SUM_US] <= total * max

(* A reading of a shard is not a snapshot: its fields may belong to         *)
(* different moments.  They disagree at most by the requests whose record() *)
(* overlapped the scrape or never returned: so do the buckets, the errors,  *)
(* and the sum, which lies between that many latencies of the fastest and   *)
(* of the slowest kind.                                                     *)
Latencies == {micros(req.ticks) : req \in Requests}

Bounding(lo, hi) == \A us \in Latencies : lo <= us /\ us <= hi

SkewBounded ==
  \A r \in Pid : pc[r] = "scan" /\ scan[r].at # NoFile =>
    LET i     == scan[r].at
        read  == scan[r].view[i[1]]
        slack == begun[i] - scan[r].floor[i]
    IN  /\ read[I_TOTAL] - BucketSum(read) \in -slack .. slack
        /\ read[I_ERRORS] <= read[I_TOTAL] + slack
        /\ \A lo, hi \in Latencies : Bounding(lo, hi) =>
             /\ (read[I_TOTAL] - slack) * lo <= read[I_SUM_US]
             /\ read[I_SUM_US] <= (read[I_TOTAL] + slack) * hi

(* A shard whose header is not complete counts nothing: such a file, of a   *)
(* worker killed or failed in open_writer(), is skipped or never pruned by  *)
(* every scrape, so a request in it would be lost or counted forever.       *)
HeaderFirst ==
  \A i \in Ino : ~Complete(i) =>
    \A s \in MergeSlots \ {I_MIN_US} : file[i][s] = 0

-----------------------------------------------------------------------------
(* Action properties.                                                       *)

(* Nothing but its removal takes requests away from a shard: re-opening it, *)
(* by the same process, by a child or by the next owner of the pid, never   *)
(* clears the counters.                                                     *)
CountersNeverReset ==
  [][\A i \in Ino, s \in {I_TOTAL, I_ERRORS, I_SUM_US, I_MAX_US} :
       file'[i][s] >= file[i][s]]_vars

-----------------------------------------------------------------------------
(* Liveness.  The operating system schedules every running process, no call *)
(* waits for another, and Prometheus keeps scraping: it may be any worker   *)
(* that answers, but as long as one can, one does.                          *)

Scrape(p) == Invoke(p, [op |-> "merged"])

Fairness ==
  /\ \A p \in Pid : WF_vars(Working(p))
  /\ SF_vars(\E p \in Pid : Live(p) /\ Scrape(p))

FairSpec == Spec /\ Fairness

SomeScraper == \E p \in Pid : Live(p) /\ "merged" \in Calls[p]

(* Once the owner of a shard is dead for good, scrapes prune it in the end  *)
(* as long as some worker is there to be scraped - however long strangers   *)
(* that were given the pid made it look alive.  All that may be left under  *)
(* the name is a shard whose owner died in open_writer().                   *)
DeadShardPruned ==
  \A n \in Pid :
    <>[](SomeScraper /\ proc[n] = "free") => <>[](dir[n] = 0 \/ ~Complete(<<n, dir[n]>>))

=============================================================================
