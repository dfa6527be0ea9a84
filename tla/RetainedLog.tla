----------------------------- MODULE RetainedLog -----------------------------
(***************************************************************************)
(* What src/request_metrics.rs promises its callers: a log of the requests *)
(* of this process that keeps the newest max_requests() of them, where     *)
(* record(), set_max_requests() and clear() each happen at one moment.     *)
(***************************************************************************)
EXTENDS Integers, Sequences

CONSTANTS Request, DEFAULT_MAX_REQUESTS

VARIABLES kept, cap

(* The last n elements of a sequence, or all of it.                         *)
Newest(s, n) == IF Len(s) <= n THEN s ELSE SubSeq(s, Len(s) - n + 1, Len(s))

LogInit == kept = <<>> /\ cap = DEFAULT_MAX_REQUESTS

LogRecord ==
  /\ \E req \in Request : kept' = Newest(Append(kept, req), cap)
  /\ UNCHANGED cap

LogSetMax ==
  /\ cap' \in Nat \ {0}
  /\ kept' = Newest(kept, cap')

LogClear == kept' = <<>> /\ UNCHANGED cap

LogNext == LogRecord \/ LogSetMax \/ LogClear

LogSpec == LogInit /\ [][LogNext]_<<kept, cap>>
=============================================================================
