---------------------------- MODULE RequestStore ----------------------------
(***************************************************************************)
(* The ring buffer of src/request_metrics.rs: a deque behind a mutex and,  *)
(* outside of it, an atomic capacity.  A call that touches both does so in *)
(* two steps, and the module itself does not make them one; that calls do  *)
(* not overlap is the GIL's doing.                                         *)
(***************************************************************************)
EXTENDS Integers, Sequences

CONSTANTS
  Thread,
  DEFAULT_MAX_REQUESTS,
  Caps,             (* Arguments set_max_requests() is called with.         *)
  GIL,              (* Is a thread alone between the steps of a call?       *)
  MaxRecords        (* Bound: record() calls in a behaviour.                *)

ASSUME StoreAssumption ==
  /\ DEFAULT_MAX_REQUESTS \in Nat \ {0}
  /\ Caps \subseteq Nat
  /\ GIL \in BOOLEAN
  /\ MaxRecords \in Nat

VARIABLES
  STORE,            (* The requests retained, oldest first.                 *)
  MAX_REQUESTS,     (* The capacity.                                        *)
  pc,               (* Where each thread is in its current call.            *)
  max,              (* The capacity that call goes by.                      *)
  req,              (* The request a record() call is about.                *)
  issued,           (* Requests so far; it also names them.                 *)
  log               (* History: requests pushed since the last clear().     *)

vars == <<STORE, MAX_REQUESTS, pc, max, req, issued, log>>

Request == 1 .. MaxRecords

StoreTypeOK ==
  /\ STORE \in Seq(Request)
  /\ MAX_REQUESTS \in Nat \ {0}
  /\ pc \in [Thread -> {"idle", "push", "shrink"}]
  /\ max \in [Thread -> Nat \ {0}]
  /\ req \in [Thread -> 0 .. MaxRecords]
  /\ issued \in 0 .. MaxRecords
  /\ log \in Seq(Request)

Init ==
  /\ STORE = <<>>
  /\ MAX_REQUESTS = DEFAULT_MAX_REQUESTS
  /\ pc = [t \in Thread |-> "idle"]
  /\ max = [t \in Thread |-> DEFAULT_MAX_REQUESTS]
  /\ req = [t \in Thread |-> 0]
  /\ issued = 0
  /\ log = <<>>

(* while store.len() > max { store.pop_front() }                            *)
Evicted_PopBack(store, n) == SubSeq(store, 1, IF Len(store) <= n THEN Len(store) ELSE n)
Evicted_Pop(store, n) == IF Len(store) <= n THEN store ELSE Tail(store)
Evicted(store, n) ==
  IF Len(store) <= n THEN store ELSE SubSeq(store, Len(store) - n + 1, Len(store))

(* A call begins; with the GIL, only if no other call is under way.         *)
Call(t) ==
  /\ pc[t] = "idle"
  /\ GIL => \A other \in Thread : pc[other] = "idle"

(* record(): loads the capacity ...                                         *)
LoadCap(t) ==
  /\ Call(t)
  /\ issued < MaxRecords
  /\ max' = [max EXCEPT ![t] = MAX_REQUESTS]
  /\ pc' = [pc EXCEPT ![t] = "push"]
  /\ issued' = issued + 1
  /\ req' = [req EXCEPT ![t] = issued']
  /\ UNCHANGED <<STORE, MAX_REQUESTS, log>>

(* ... then, under the lock, pushes the request and evicts the oldest.      *)
Push(t) ==
  /\ pc[t] = "push"
  /\ STORE' = Evicted(Append(STORE, req[t]), max[t])
  /\ log' = Append(log, req[t])
  /\ pc' = [pc EXCEPT ![t] = "idle"]
  /\ UNCHANGED <<MAX_REQUESTS, max, req, issued>>

Clamped_Not(n) == n
Clamped(n) == IF n < 1 THEN 1 ELSE n

(* set_max_requests(): stores the capacity, at least 1 ...                  *)
StoreCap(t, n) ==
  /\ Call(t)
  /\ MAX_REQUESTS' = Clamped(n)
  /\ max' = [max EXCEPT ![t] = MAX_REQUESTS']
  /\ pc' = [pc EXCEPT ![t] = "shrink"]
  /\ UNCHANGED <<STORE, req, issued, log>>

(* ... then, under the lock, evicts what is over it.                        *)
Shrink_Skipped(t) ==
  /\ pc[t] = "shrink"
  /\ pc' = [pc EXCEPT ![t] = "idle"]
  /\ UNCHANGED <<STORE, MAX_REQUESTS, max, req, issued, log>>

Shrink(t) ==
  /\ pc[t] = "shrink"
  /\ STORE' = Evicted(STORE, max[t])
  /\ pc' = [pc EXCEPT ![t] = "idle"]
  /\ UNCHANGED <<MAX_REQUESTS, max, req, issued, log>>

clear(t) ==
  /\ Call(t)
  /\ STORE' = <<>>
  /\ log' = <<>>
  /\ UNCHANGED <<MAX_REQUESTS, pc, max, req, issued>>

Next ==
  \E t \in Thread :
    LoadCap(t) \/ Push(t) \/ (\E n \in Caps : StoreCap(t, n)) \/ Shrink(t) \/ clear(t)

Spec == Init /\ [][Next]_vars

-----------------------------------------------------------------------------
(* Nothing younger than a retained request is ever missing: what is kept is *)
(* the end of the log in the order of the pushes, even without the GIL.     *)
NewestKept ==
  /\ Len(STORE) <= Len(log)
  /\ \A i \in 1 .. Len(STORE) : STORE[i] = log[Len(log) - Len(STORE) + i]

(* Between calls the store is within the capacity, whatever the order of    *)
(* record() and set_max_requests() calls that led there.                    *)
WithinCap == (\A t \in Thread : pc[t] = "idle") => Len(STORE) <= MAX_REQUESTS

(* With the GIL, the store implements the abstract log: a call takes effect *)
(* at one moment, and no request is evicted while the capacity in force     *)
(* leaves room for it.  The new capacity counts from the moment it is       *)
(* stored, so what is over it is already gone for the abstract log.         *)
Abstract ==
  INSTANCE RetainedLog WITH kept <- Evicted(STORE, MAX_REQUESTS), cap <- MAX_REQUESTS

Retention == Abstract!LogSpec
=============================================================================
