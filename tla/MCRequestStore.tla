--------------------------- MODULE MCRequestStore ---------------------------
(* Small instances of RequestStore for TLC.  Threads are interchangeable.   *)
EXTENDS RequestStore, TLC

Threads == Permutations(Thread)
=============================================================================
