----------------------------- MODULE MCSnapshot -----------------------------
(* Values of the constants of Snapshot for TLC.                             *)
EXTENDS Snapshot, TLC

(* Exactly a megabyte resident, or half of one more; exactly two reserved,  *)
(* or half of one more.                                                     *)
MCMemory ==
  {"memory_rss_mb" :> rss @@ "memory_virtual_mb" :> virt : rss \in {2, 3}, virt \in {4, 5}}

(* No limit, limits for the CPU, and limits that are met exactly and        *)
(* exceeded, of one metric and of all three.                                *)
MCThresholds ==
  {<<>>, "cpu_percent" :> 0, "cpu_percent" :> 150,
   "memory_rss_mb" :> 1,
   "cpu_percent" :> 100 @@ "memory_rss_mb" :> 1 @@ "memory_virtual_mb" :> 2}
=============================================================================
