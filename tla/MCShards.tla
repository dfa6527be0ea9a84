------------------------------ MODULE MCShards ------------------------------
(* Values of the constants of Shards for TLC.                               *)
EXTENDS ShardsProperties

(* One finite bucket and the overflow bucket, or the overflow bucket alone. *)
MCBounds == <<2>>
NoBounds == <<>>

(* A fast success, and a failure just over the bound: its latency truncated *)
(* to microseconds would be in the other bucket.                            *)
MCRequests == {[status |-> 200, ticks |-> 1], [status |-> 400, ticks |-> 5]}

OneRequest == {[status |-> 400, ticks |-> 5]}

(* Who calls what.                                                          *)
AllCalls        == [p \in Pid |-> Ops \cup {"unset_dir"}]
RecordAndScrape == [p \in Pid |-> {"record", "merged"}]
OneScraper      == [p \in Pid |-> IF p = 1 THEN {"merged"} ELSE {"record"}]
=============================================================================
