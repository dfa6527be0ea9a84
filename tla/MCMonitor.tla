----------------------------- MODULE MCMonitor -----------------------------
(* Values of the constants of Monitor for TLC.                              *)
EXTENDS Monitor, TLC

NoBounds == <<>>

(* A success and a server error.                                            *)
MCRequests == [status : {200, 500}, ticks : {1}]

Names == Permutations(Worker) \cup Permutations(Request)
=============================================================================
