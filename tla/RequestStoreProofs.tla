------------------------- MODULE RequestStoreProofs -------------------------
(***************************************************************************)
(* Proofs about RequestStore for any threads, capacities and number of     *)
(* requests.                                                               *)
(***************************************************************************)
EXTENDS RequestStore, TLAPS

-----------------------------------------------------------------------------
(* The eviction loop.                                                       *)

(* What is left when it ends: the end of the store, within the capacity.    *)
LEMMA EvictedProperties ==
  ASSUME NEW S, NEW s \in Seq(S), NEW n \in Nat
  PROVE  /\ Evicted(s, n) \in Seq(S)
         /\ Len(Evicted(s, n)) = IF Len(s) <= n THEN Len(s) ELSE n
         /\ \A i \in 1 .. Len(Evicted(s, n)) :
              Evicted(s, n)[i] = s[Len(s) - Len(Evicted(s, n)) + i]
<1>1. CASE Len(s) <= n
  BY <1>1 DEF Evicted
<1>2. CASE Len(s) > n
  <2>1. Evicted(s, n) = SubSeq(s, Len(s) - n + 1, Len(s))
    BY <1>2 DEF Evicted
  <2>2. Len(Evicted(s, n)) = n
    BY <1>2, <2>1
  <2> QED BY <1>2, <2>1, <2>2
<1> QED BY <1>1, <1>2

LEMMA EvictedLength ==
  ASSUME NEW S, NEW s \in Seq(S), NEW n \in Nat
  PROVE  Len(Evicted(s, n)) <= n
BY EvictedProperties

-----------------------------------------------------------------------------
(* A thread about to push has a request to push.                            *)
IType ==
  /\ StoreTypeOK
  /\ \A t \in Thread : pc[t] = "push" => req[t] \in Request

LEMMA InitType == Init => IType
BY StoreAssumption DEF Init, IType, StoreTypeOK

LEMMA NextType == IType /\ [Next]_vars => IType'
<1> SUFFICES ASSUME IType, [Next]_vars PROVE IType'
  OBVIOUS
<1>1. ASSUME NEW t \in Thread, LoadCap(t) PROVE IType'
  BY <1>1, StoreAssumption DEF LoadCap, IType, StoreTypeOK, Request
<1>2. ASSUME NEW t \in Thread, Push(t) PROVE IType'
  <2>1. req[t] \in Request
    BY <1>2 DEF Push, IType
  <2>2. Append(STORE, req[t]) \in Seq(Request) /\ Append(log, req[t]) \in Seq(Request)
    BY <2>1 DEF IType, StoreTypeOK
  <2>3. Evicted(Append(STORE, req[t]), max[t]) \in Seq(Request)
    BY <2>2, EvictedProperties DEF IType, StoreTypeOK
  <2> QED BY <1>2, <2>2, <2>3 DEF Push, IType, StoreTypeOK
<1>3. ASSUME NEW t \in Thread, NEW n \in Caps, StoreCap(t, n) PROVE IType'
  BY <1>3, StoreAssumption DEF StoreCap, Clamped, IType, StoreTypeOK
<1>4. ASSUME NEW t \in Thread, Shrink(t) PROVE IType'
  <2>1. Evicted(STORE, max[t]) \in Seq(Request)
    BY EvictedProperties DEF IType, StoreTypeOK
  <2> QED BY <1>4, <2>1 DEF Shrink, IType, StoreTypeOK
<1>5. ASSUME NEW t \in Thread, clear(t) PROVE IType'
  BY <1>5 DEF clear, IType, StoreTypeOK
<1>6. CASE UNCHANGED vars
  BY <1>6 DEF vars, IType, StoreTypeOK
<1> QED BY <1>1, <1>2, <1>3, <1>4, <1>5, <1>6 DEF Next

(* Every variable keeps its type.                                           *)
THEOREM StoreTypeCorrect == Spec => []StoreTypeOK
<1>1. IType => StoreTypeOK
  BY DEF IType
<1> QED BY <1>1, InitType, NextType, PTL DEF Spec

-----------------------------------------------------------------------------
(* The mutex alone: pushing at the back and evicting at the front.          *)

(* Whatever the threads do, with the GIL or without, the store is the end   *)
(* of the log: no retained request is older than one that was evicted.      *)
THEOREM StoreKeepsNewest == Spec => []NewestKept
<1>1. Init => NewestKept
  BY DEF Init, NewestKept
<1>2. ASSUME IType, NewestKept, [Next]_vars PROVE NewestKept'
  <2>1. ASSUME NEW t \in Thread, Push(t) PROVE NewestKept'
    <3> DEFINE s == Append(STORE, req[t])
    <3>1. /\ STORE' = Evicted(s, max[t]) /\ log' = Append(log, req[t])
          /\ STORE \in Seq(Request) /\ log \in Seq(Request) /\ req[t] \in Request
          /\ max[t] \in Nat
      BY <1>2, <2>1 DEF Push, IType, StoreTypeOK
    <3>2. s \in Seq(Request) /\ Len(s) = Len(STORE) + 1 /\ Len(log') = Len(log) + 1
      BY <3>1
    <3>3. /\ STORE' \in Seq(Request) /\ Len(STORE') <= Len(s)
          /\ \A i \in 1 .. Len(STORE') : STORE'[i] = s[Len(s) - Len(STORE') + i]
      <4> HIDE DEF s
      <4> QED BY <3>1, <3>2, EvictedProperties
    <3>4. ASSUME NEW j \in 1 .. Len(s) PROVE s[j] = log'[Len(log') - Len(s) + j]
      <4>1. CASE j = Len(s)
        BY <3>1, <3>2, <4>1
      <4>2. CASE j # Len(s)
        <5>1. j \in 1 .. Len(STORE) /\ s[j] = STORE[j]
          BY <3>1, <3>2, <4>2
        <5>2. Len(STORE) <= Len(log) /\ STORE[j] = log[Len(log) - Len(STORE) + j]
          BY <1>2, <5>1 DEF NewestKept
        <5>3. /\ Len(log) - Len(STORE) + j \in 1 .. Len(log)
              /\ Len(log') - Len(s) + j = Len(log) - Len(STORE) + j
          BY <3>1, <3>2, <5>1, <5>2
        <5> QED BY <3>1, <5>1, <5>2, <5>3
      <4> QED BY <4>1, <4>2
    <3> HIDE DEF s
    <3>5. ASSUME NEW i \in 1 .. Len(STORE')
          PROVE  STORE'[i] = log'[Len(log') - Len(STORE') + i]
      <4>1. Len(s) - Len(STORE') + i \in 1 .. Len(s)
        BY <3>2, <3>3
      <4>2. STORE'[i] = log'[Len(log') - Len(s) + (Len(s) - Len(STORE') + i)]
        BY <3>3, <3>4, <4>1
      <4>3. Len(log') - Len(s) + (Len(s) - Len(STORE') + i) = Len(log') - Len(STORE') + i
        BY <3>1, <3>2, <3>3
      <4> QED BY <4>2, <4>3
    <3>6. Len(STORE') <= Len(log')
      BY <1>2, <3>1, <3>2, <3>3 DEF NewestKept
    <3> QED BY <3>5, <3>6 DEF NewestKept
  <2>2. ASSUME NEW t \in Thread, Shrink(t) PROVE NewestKept'
    <3>1. /\ STORE' = Evicted(STORE, max[t]) /\ log' = log
          /\ STORE \in Seq(Request) /\ log \in Seq(Request) /\ max[t] \in Nat
      BY <1>2, <2>2 DEF Shrink, IType, StoreTypeOK
    <3>2. /\ STORE' \in Seq(Request) /\ Len(STORE') <= Len(STORE)
          /\ \A i \in 1 .. Len(STORE') : STORE'[i] = STORE[Len(STORE) - Len(STORE') + i]
      BY <3>1, EvictedProperties
    <3>3. ASSUME NEW i \in 1 .. Len(STORE')
          PROVE  STORE'[i] = log[Len(log) - Len(STORE') + i]
      <4> DEFINE j == Len(STORE) - Len(STORE') + i
      <4>1. j \in 1 .. Len(STORE) /\ STORE'[i] = STORE[j]
        BY <3>1, <3>2
      <4>2. STORE[j] = log[Len(log) - Len(STORE) + j]
        BY <1>2, <4>1 DEF NewestKept
      <4>3. Len(log) - Len(STORE) + j = Len(log) - Len(STORE') + i
        BY <3>1, <3>2
      <4> QED BY <4>1, <4>2, <4>3
    <3>4. Len(STORE') <= Len(log)
      BY <1>2, <3>1, <3>2 DEF NewestKept
    <3> QED BY <3>1, <3>3, <3>4 DEF NewestKept
  <2>3. ASSUME NEW t \in Thread, clear(t) PROVE NewestKept'
    BY <2>3 DEF clear, NewestKept
  <2>4. ASSUME NEW t \in Thread, LoadCap(t) \/ \E n \in Caps : StoreCap(t, n)
        PROVE  NewestKept'
    BY <1>2, <2>4 DEF LoadCap, StoreCap, NewestKept
  <2>5. CASE UNCHANGED vars
    BY <1>2, <2>5 DEF vars, NewestKept
  <2> QED BY <1>2, <2>1, <2>2, <2>3, <2>4, <2>5 DEF Next
<1> QED BY <1>1, <1>2, InitType, NextType, PTL DEF Spec

-----------------------------------------------------------------------------
(* With the GIL, calls are serial.                                          *)

(* At most one call is under way, the capacity it goes by is the one in     *)
(* force, and only between the two steps of set_max_requests() can there be *)
(* more requests than that.                                                 *)
Serial ==
  /\ \A t, u \in Thread : pc[t] # "idle" /\ pc[u] # "idle" => t = u
  /\ \A t \in Thread : pc[t] # "idle" => max[t] = MAX_REQUESTS
  /\ (\A t \in Thread : pc[t] # "shrink") => Len(STORE) <= MAX_REQUESTS

LEMMA NextSerial ==
  ASSUME GIL, IType, Serial, [Next]_vars
  PROVE  Serial'
<1>1. ASSUME NEW t \in Thread, LoadCap(t) PROVE Serial'
  BY <1>1 DEF LoadCap, Call, Serial, IType, StoreTypeOK
<1>2. ASSUME NEW t \in Thread, Push(t) PROVE Serial'
  <2>1. Append(STORE, req[t]) \in Seq(Request) /\ max[t] \in Nat
    BY <1>2 DEF Push, IType, StoreTypeOK
  <2>2. Len(Evicted(Append(STORE, req[t]), max[t])) <= max[t]
    BY ONLY <2>1, EvictedLength
  <2>3. Len(STORE') <= max[t] /\ max[t] = MAX_REQUESTS
    BY <1>2, <2>2 DEF Push, Serial
  <2> QED BY <1>2, <2>3 DEF Push, Serial, IType, StoreTypeOK
<1>3. ASSUME NEW t \in Thread, NEW n \in Caps, StoreCap(t, n) PROVE Serial'
  BY <1>3 DEF StoreCap, Clamped, Call, Serial, IType, StoreTypeOK
<1>4. ASSUME NEW t \in Thread, Shrink(t) PROVE Serial'
  <2>1. STORE \in Seq(Request) /\ max[t] \in Nat
    BY DEF IType, StoreTypeOK
  <2>2. Len(STORE') <= max[t] /\ max[t] = MAX_REQUESTS
    BY <1>4, <2>1, EvictedLength DEF Shrink, Serial
  <2> QED BY <1>4, <2>2 DEF Shrink, Serial, IType, StoreTypeOK
<1>5. ASSUME NEW t \in Thread, clear(t) PROVE Serial'
  BY <1>5 DEF clear, Call, Serial, IType, StoreTypeOK
<1>6. CASE UNCHANGED vars
  BY <1>6 DEF vars, Serial
<1> QED BY <1>1, <1>2, <1>3, <1>4, <1>5, <1>6 DEF Next

LEMMA SerialInvariant ==
  ASSUME GIL
  PROVE  Spec => [](IType /\ Serial)
<1>1. Init => Serial
  BY StoreAssumption DEF Init, Serial
<1>2. IType /\ Serial /\ [Next]_vars => (IType /\ Serial)'
  BY NextType, NextSerial
<1> QED BY <1>1, <1>2, InitType, PTL DEF Spec

(* Between calls the store is within the capacity.                          *)
THEOREM StoreWithinCap ==
  ASSUME GIL
  PROVE  Spec => []WithinCap
<1>1. Serial => WithinCap
  BY DEF Serial, WithinCap
<1> QED BY <1>1, SerialInvariant, PTL

-----------------------------------------------------------------------------
(* Refinement.                                                              *)

LEMMA EvictedIdentity ==
  ASSUME NEW s, NEW n, Len(s) <= n
  PROVE  Evicted(s, n) = s
BY DEF Evicted

LEMMA NewestIsEvicted ==
  ASSUME NEW s, NEW n
  PROVE  Abstract!Newest(s, n) = Evicted(s, n)
BY DEF Evicted, Abstract!Newest

(* With the GIL, every behaviour of the store is one of the abstract log:   *)
(* record(), set_max_requests() and clear() take effect at one moment each. *)
THEOREM StoreImplementsLog ==
  ASSUME GIL
  PROVE  Spec => Retention
<1> DEFINE K == Evicted(STORE, MAX_REQUESTS)
<1>1. Init => Abstract!LogInit
  BY StoreAssumption, EvictedIdentity DEF Init, Abstract!LogInit
<1>2. ASSUME IType, Serial, [Next]_vars
      PROVE  [Abstract!LogNext]_<<K, MAX_REQUESTS>>
  <2>1. STORE \in Seq(Request) /\ MAX_REQUESTS \in Nat \ {0}
    BY <1>2 DEF IType, StoreTypeOK
  <2>2. ASSUME NEW t \in Thread, LoadCap(t) PROVE UNCHANGED <<K, MAX_REQUESTS>>
    BY <2>2 DEF LoadCap
  <2>3. ASSUME NEW t \in Thread, Push(t) PROVE Abstract!LogRecord
    <3>1. Len(STORE) <= MAX_REQUESTS /\ max[t] = MAX_REQUESTS /\ req[t] \in Request
      BY <1>2, <2>3 DEF Push, Serial, IType
    <3>2. K = STORE
      BY <3>1, EvictedIdentity
    <3>3. STORE' = Evicted(Append(STORE, req[t]), MAX_REQUESTS) /\ MAX_REQUESTS' = MAX_REQUESTS
      BY <2>3, <3>1 DEF Push
    <3>4. Append(STORE, req[t]) \in Seq(Request)
      BY <2>1, <3>1
    <3>5. Len(STORE') <= MAX_REQUESTS'
      <4>1. Len(Evicted(Append(STORE, req[t]), MAX_REQUESTS)) <= MAX_REQUESTS
        BY ONLY <2>1, <3>4, EvictedLength
      <4> QED BY <3>3, <4>1
    <3>6. K' = STORE'
      BY <3>5, EvictedIdentity
    <3>7. K' = Abstract!Newest(Append(K, req[t]), MAX_REQUESTS)
      BY <3>2, <3>3, <3>6, NewestIsEvicted
    <3> QED BY <3>1, <3>3, <3>7 DEF Abstract!LogRecord
  <2>4. ASSUME NEW t \in Thread, NEW n \in Caps, StoreCap(t, n) PROVE Abstract!LogSetMax
    <3>1. Len(STORE) <= MAX_REQUESTS /\ STORE' = STORE /\ MAX_REQUESTS' \in Nat \ {0}
      BY <1>2, <2>4, StoreAssumption DEF StoreCap, Clamped, Call, Serial
    <3>2. K = STORE
      BY <3>1, EvictedIdentity
    <3>3. K' = Abstract!Newest(K, MAX_REQUESTS')
      BY <3>1, <3>2, NewestIsEvicted
    <3> QED BY <3>1, <3>3 DEF Abstract!LogSetMax
  <2>5. ASSUME NEW t \in Thread, Shrink(t) PROVE UNCHANGED <<K, MAX_REQUESTS>>
    <3>1. STORE' = K /\ MAX_REQUESTS' = MAX_REQUESTS
      BY <1>2, <2>5 DEF Shrink, Serial
    <3>2. Len(K) <= MAX_REQUESTS
      BY <2>1, EvictedLength
    <3>3. K' = STORE'
      BY <3>1, <3>2, EvictedIdentity
    <3> QED BY <3>1, <3>3
  <2>6. ASSUME NEW t \in Thread, clear(t) PROVE Abstract!LogClear
    <3>1. STORE' = <<>> /\ MAX_REQUESTS' = MAX_REQUESTS
      BY <2>6 DEF clear
    <3>2. K' = <<>>
      BY <2>1, <3>1, EvictedIdentity
    <3> QED BY <3>1, <3>2 DEF Abstract!LogClear
  <2>7. CASE UNCHANGED vars
    BY <2>7 DEF vars
  <2> QED BY <1>2, <2>2, <2>3, <2>4, <2>5, <2>6, <2>7 DEF Next, Abstract!LogNext
<1> QED BY <1>1, <1>2, SerialInvariant, PTL DEF Spec, Retention, Abstract!LogSpec
=============================================================================
