---------------------------- MODULE MCAggregator ----------------------------
(* Values of the constants of Aggregator for TLC.                           *)
EXTENDS Aggregator, TLC

MCBounds == <<2, 4>>

(* A fast success, a failure just over the first bound, a success at the    *)
(* second bound, and a failure in the overflow bucket, over its lower end   *)
(* by less than a microsecond.                                              *)
MCRequests == {[status |-> 200, ticks |-> 1], [status |-> 404, ticks |-> 5],
               [status |-> 200, ticks |-> 8], [status |-> 500, ticks |-> 9]}

Workers == Permutations(Worker)
=============================================================================
