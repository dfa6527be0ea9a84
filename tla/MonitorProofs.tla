--------------------------- MODULE MonitorProofs ---------------------------
(***************************************************************************)
(* Proofs about Monitor for any workers, requests, ways to run the         *)
(* middleware and values recorded.  What Aggregator does is taken from     *)
(* AggregatorProofs.                                                       *)
(***************************************************************************)
EXTENDS Monitor, FiniteSetTheorems, TLAPS

Agg == INSTANCE AggregatorProofs WITH MaxRecords <- Cardinality(Request)

(* An instance has its own copy of each operator of a standard module.      *)
LEMMA SameSets ==
  ASSUME NEW S
  PROVE  /\ Agg!IsFiniteSet(S) <=> IsFiniteSet(S)
         /\ Agg!Cardinality(S) = Cardinality(S) /\ Stats!Cardinality(S) = Cardinality(S)
<1>1. Agg!IsFiniteSet(S) <=> IsFiniteSet(S)
  BY DEF Agg!IsFiniteSet, IsFiniteSet
<1>2. Agg!Cardinality(S) = Cardinality(S)
  BY DEF Agg!Cardinality, Cardinality
<1>3. Stats!Cardinality(S) = Cardinality(S)
  BY DEF Stats!Cardinality, Cardinality
<1> QED BY <1>1, <1>2, <1>3

LEMMA Assumptions ==
  /\ Agg!BoundsAssumption /\ Agg!RequestAssumption /\ Agg!SentinelAssumption
  /\ Agg!AggregatorAssumption
<1>1. Agg!BoundsAssumption
  BY LayoutAssumption DEF Agg!BoundsAssumption
<1>2. Agg!RequestAssumption
  <2>1. \A req \in Requests : req \in [status : Nat, ticks : Int]
    <3> TAKE req \in Requests
    <3>1. req \in [status : 100 .. 999, ticks : Int]
      BY MonitorAssumption
    <3> QED BY <3>1
  <2> QED BY <2>1, LayoutAssumption DEF Agg!RequestAssumption
<1>3. Agg!SentinelAssumption
  <2>1. \A t : Agg!micros(t) = Stats!micros(t)
    BY DEF Agg!micros, Stats!micros, Agg!TICKS_PER_US, Stats!TICKS_PER_US
  <2> QED BY <2>1, LayoutAssumption DEF Agg!SentinelAssumption
<1>4. Agg!AggregatorAssumption
  <2>1. Cardinality(Request) \in Nat /\ Agg!IsFiniteSet(Worker)
    BY MonitorAssumption, FS_CardinalityType, SameSets
  <2> QED BY <2>1, LayoutAssumption DEF Agg!AggregatorAssumption
<1> QED BY <1>1, <1>2, <1>3, <1>4

-----------------------------------------------------------------------------
(* What the instances of Aggregator in Monitor and in its proofs share.     *)
LEMMA SameSlots ==
  /\ Stats!I_TOTAL = Agg!I_TOTAL /\ Stats!I_ERRORS = Agg!I_ERRORS
  /\ Stats!I_SUM_US = Agg!I_SUM_US /\ Stats!I_MIN_US = Agg!I_MIN_US
  /\ Stats!I_MAX_US = Agg!I_MAX_US /\ Stats!I_BUCKETS_START = Agg!I_BUCKETS_START
  /\ Stats!MergeSlots = Agg!MergeSlots
BY DEF Stats!I_TOTAL, Agg!I_TOTAL, Stats!I_ERRORS, Agg!I_ERRORS, Stats!I_SUM_US, Agg!I_SUM_US,
   Stats!I_MIN_US, Agg!I_MIN_US, Stats!I_MAX_US, Agg!I_MAX_US,
   Stats!I_BUCKETS_START, Agg!I_BUCKETS_START, Stats!MergeSlots, Agg!MergeSlots,
   Stats!SHARD_LEN_U64, Agg!SHARD_LEN_U64, Stats!NUM_BUCKETS, Agg!NUM_BUCKETS

LEMMA SameRecord ==
  ASSUME NEW w \in Worker, NEW req \in Requests
  PROVE  Stats!record(w, req) <=> Agg!record(w, req)
<1>1. \A t : Stats!micros(t) = Agg!micros(t)
  BY DEF Stats!micros, Agg!micros, Stats!TICKS_PER_US, Agg!TICKS_PER_US
<1>2. Stats!RecordSlots(req) = Agg!RecordSlots(req)
  <2>1. Stats!bucket_index(req.ticks) = Agg!bucket_index(req.ticks)
    <3>1. Stats!TICKS_PER_US = Agg!TICKS_PER_US
      BY DEF Stats!TICKS_PER_US, Agg!TICKS_PER_US
    <3> QED BY <3>1, SameSets DEF Stats!bucket_index, Agg!bucket_index
  <2> QED BY <2>1, SameSlots DEF Stats!RecordSlots, Agg!RecordSlots
<1>3. \A s, v, us : Stats!Added(s, v, us) = Agg!Added(s, v, us)
  BY SameSlots DEF Stats!Added, Agg!Added
<1>4. \A reqs : Stats!Retained(reqs) = Agg!Retained(reqs)
  BY DEF Stats!Retained, Agg!Retained
<1>5. \A slots : [s \in Stats!MergeSlots |->
                    IF s \in Stats!RecordSlots(req)
                      THEN Stats!Added(s, slots[s], Stats!micros(req.ticks)) ELSE slots[s]]
               = [s \in Agg!MergeSlots |->
                    IF s \in Agg!RecordSlots(req)
                      THEN Agg!Added(s, slots[s], Agg!micros(req.ticks)) ELSE slots[s]]
  BY <1>1, <1>2, <1>3, SameSlots
<1> QED BY <1>4, <1>5 DEF Stats!record, Agg!record

LEMMA SameType == Stats!AggregatorTypeOK <=> Agg!AggregatorTypeOK
BY SameSlots DEF Stats!AggregatorTypeOK, Agg!AggregatorTypeOK

-----------------------------------------------------------------------------
(* What can become of a request, and what is recorded of it.                *)
Outcomes == {HTTP!None, HTTP!Raised, HTTP!Cancelled, HTTP!Unawaited}
              \cup {HTTP!Answered(status) : status \in Status}

LEMMA StatusType ==
  /\ \A status \in Status : status \in 100 .. 999
  /\ \A req \in Requests : req.status \in Status
BY MonitorAssumption DEF Status

LEMMA StatusCodeIs ==
  ASSUME NEW o \in Outcomes
  PROVE  /\ HTTP!status_code(o) \in 100 .. 999
         /\ HTTP!status_code(o) = IF o = HTTP!Cancelled THEN 500 ELSE HTTP!Reply(o)
         /\ HTTP!Reply(o) \notin 1 .. 399 <=> HTTP!status_code(o) >= 400
<1>1. /\ HTTP!None.how = "none" /\ HTTP!Raised.how = "raised"
      /\ HTTP!Cancelled.how = "cancelled" /\ HTTP!Unawaited.how = "unawaited"
      /\ HTTP!Answered(500).how = "answered" /\ HTTP!Answered(500).status = 500
  BY DEF HTTP!None, HTTP!Raised, HTTP!Cancelled, HTTP!Unawaited, HTTP!Answered
<1>2. CASE o.how # "answered"
  <2>1. HTTP!status_code(o) = 500
    BY <1>1, <1>2 DEF HTTP!status_code, HTTP!Seen
  <2>2. HTTP!Reply(o) = IF o = HTTP!Cancelled THEN 0 ELSE 500
    BY <1>2 DEF HTTP!Reply
  <2> QED BY <2>1, <2>2
<1>3. CASE o.how = "answered"
  <2>1. PICK status \in Status : o = HTTP!Answered(status)
    BY <1>1, <1>3 DEF Outcomes
  <2>2. o.status = status /\ status \in 100 .. 999
    BY <2>1, StatusType DEF HTTP!Answered
  <2>3. o # HTTP!Cancelled /\ o # HTTP!Raised
    BY <1>1, <1>3
  <2>4. HTTP!status_code(o) = status /\ HTTP!Reply(o) = status
    BY <1>3, <2>2, <2>3 DEF HTTP!status_code, HTTP!Seen, HTTP!Reply
  <2> QED BY <2>2, <2>3, <2>4
<1> QED BY <1>2, <1>3

-----------------------------------------------------------------------------
(* Type correctness.                                                        *)
OsType ==
  /\ proc \in [Worker -> {"running", "taken", "free"}]
  /\ dir \subseteq Worker /\ touched \in BOOLEAN /\ freed \subseteq Worker

TypeInv == HTTP!MiddlewareTypeOK /\ Agg!IType /\ OsType

LEMMA InitTypes == Init => TypeInv
<1> SUFFICES ASSUME Init PROVE TypeInv
  OBVIOUS
<1>1. HTTP!MiddlewareTypeOK
  BY DEF Init, HTTP!Init, HTTP!MiddlewareTypeOK
<1>2. Agg!Init
  <2>1. Stats!EmptyReading = Agg!EmptyReading
    BY SameSlots DEF Stats!EmptyReading, Agg!EmptyReading
  <2> QED BY <2>1 DEF Init, Stats!Init, Agg!Init
<1>3. Agg!IType
  BY <1>2, Assumptions, Agg!InitIType
<1>4. OsType
  BY DEF Init, OsType
<1> QED BY <1>1, <1>3, <1>4 DEF TypeInv

(* A step of the middleware.                                                *)
LEMMA MiddlewareStep ==
  ASSUME HTTP!MiddlewareTypeOK,
         \/ \E r \in Request : \/ HTTP!begin(r) \/ HTTP!finish(r)
                               \/ \E o \in Outcomes : HTTP!handle(r, o)
         \/ \E w \in Worker : HTTP!kill(w)
         \/ UNCHANGED http
  PROVE  HTTP!MiddlewareTypeOK'
<1> USE DEF HTTP!MiddlewareTypeOK
<1>1. ASSUME NEW r \in Request, HTTP!begin(r)
      PROVE  HTTP!MiddlewareTypeOK'
  BY <1>1 DEF HTTP!begin
<1>2. ASSUME NEW r \in Request, NEW o \in Outcomes, HTTP!handle(r, o)
      PROVE  HTTP!MiddlewareTypeOK'
  BY <1>2 DEF HTTP!handle, Outcomes
<1>3. ASSUME NEW r \in Request, HTTP!finish(r)
      PROVE  HTTP!MiddlewareTypeOK'
  <2>1. outcome[r] \in Outcomes
    BY DEF Outcomes
  <2>2. HTTP!status_code(outcome[r]) \in Nat
    <3>1. HTTP!status_code(outcome[r]) \in 100 .. 999
      BY <2>1, StatusCodeIs
    <3> QED BY ONLY <3>1
  <2> QED BY <1>3, <2>2 DEF HTTP!finish
<1>4. ASSUME NEW w \in Worker, HTTP!kill(w)
      PROVE  HTTP!MiddlewareTypeOK'
  <2> DEFINE doing == {r \in Request : at[r] = w /\ phase[r] \in {"handling", "handled"}}
  <2>1. /\ phase' = [r \in Request |-> IF r \in doing THEN "lost" ELSE phase[r]]
        /\ outcome' = [r \in Request |-> IF r \in doing THEN HTTP!None ELSE outcome[r]]
        /\ UNCHANGED <<app, at, recorded>>
    BY <1>4 DEF HTTP!kill
  <2> HIDE DEF doing
  <2> QED BY <2>1
<1>5. CASE UNCHANGED http
  BY <1>5 DEF http
<1> QED BY <1>1, <1>2, <1>3, <1>4, <1>5

(* Each step of Monitor is one of the middleware, or none of it, and one of *)
(* what is recorded, or none of it, or the death of a worker.               *)
LEMMA StepsOf ==
  ASSUME HTTP!MiddlewareTypeOK, [Next]_vars
  PROVE  /\ \/ \E r \in Request : \/ HTTP!begin(r) \/ HTTP!finish(r)
                                  \/ \E o \in Outcomes : HTTP!handle(r, o)
            \/ \E w \in Worker : HTTP!kill(w)
            \/ UNCHANGED http
         /\ [Agg!Next]_(Agg!vars) \/ \E w \in Worker : kill(w)
<1> DEFINE H == \/ \E r \in Request : \/ HTTP!begin(r) \/ HTTP!finish(r)
                                     \/ \E o \in Outcomes : HTTP!handle(r, o)
                \/ \E w \in Worker : HTTP!kill(w)
                \/ UNCHANGED http
           A == [Agg!Next]_(Agg!vars) \/ \E w \in Worker : kill(w)
<1>0. UNCHANGED stats => A
  BY DEF stats, Agg!vars
<1>1. \A r \in Request : begin(r) => H /\ A
  BY <1>0 DEF begin
<1>2. \A r \in Request : \A o \in Outcomes : handle(r, o) => H /\ A
  BY <1>0 DEF handle
<1>3. /\ \A status \in Status : HTTP!Answered(status) \in Outcomes
      /\ HTTP!Raised \in Outcomes /\ HTTP!Cancelled \in Outcomes
  BY DEF Outcomes
<1>4. \A r \in Request : \A req \in Requests : record_request(r, req) => H
  BY DEF record_request
<1>5. ASSUME NEW r \in Request, NEW req \in Requests, record_request(r, req)
      PROVE  A
  <2>1. at[r] \in Worker
    BY DEF HTTP!MiddlewareTypeOK
  <2>2. Agg!record(at[r], req)
    BY <1>5, <2>1, SameRecord DEF record_request
  <2> QED BY <2>1, <2>2 DEF Agg!Next
<1>6. \A r \in Request : metrics_text(r) => H /\ A
  <2>1. 200 \in Status
    BY MonitorAssumption DEF Status
  <2> QED BY <1>0, <1>3, <2>1 DEF metrics_text
<1>7. UNCHANGED http => H
  OBVIOUS
<1>8. ASSUME NEW w \in Worker, clear_requests(w)
      PROVE  H /\ A
  <2>1. Agg!clear(w)
    BY <1>8 DEF clear_requests, Stats!clear, Agg!clear
  <2> QED BY <1>7, <1>8, <2>1 DEF clear_requests, Agg!Next
<1>9. ASSUME NEW w \in Worker, NEW on \in BOOLEAN, set_multiproc_dir(w, on)
      PROVE  H /\ A
  <2>1. Agg!set_dir(w, on)
    BY <1>9 DEF set_multiproc_dir, Stats!set_dir, Agg!set_dir
  <2> QED BY <1>7, <1>9, <2>1 DEF set_multiproc_dir, Agg!Next
<1>10. \A w \in Worker : kill(w) => H /\ A
  BY DEF kill
<1>11. \A w \in Worker : aggregate(w) \/ leave(w) \/ take(w) => H /\ A
  BY <1>0, <1>7 DEF aggregate, leave, take
<1>12. UNCHANGED vars => H /\ A
  BY <1>0, <1>7 DEF vars
<1> HIDE DEF H, A
<1>13. ASSUME NEW r \in Request, NEW status \in Status, handle(r, HTTP!Answered(status))
       PROVE  H /\ A
  BY <1>2, <1>3, <1>13
<1>14. ASSUME NEW r \in Request, handle(r, HTTP!Raised) \/ handle(r, HTTP!Cancelled)
       PROVE  H /\ A
  BY <1>2, <1>3, <1>14
<1>15. ASSUME Next PROVE H /\ A
  BY <1>1, <1>4, <1>5, <1>6, <1>8, <1>9, <1>10, <1>13, <1>14, <1>15, <1>11 DEF Next
<1>16. H /\ A
  BY <1>12, <1>15
<1> QED BY <1>16 DEF H, A

(* A worker dies with its store.                                            *)
LEMMA KillType ==
  ASSUME Agg!IType, NEW w \in Worker, kill(w)
  PROVE  Agg!IType'
<1>1. <<>> \in Seq(Requests) /\ Len(<<>>) = 0
  OBVIOUS
<1>2. /\ store' = [store EXCEPT ![w] = <<>>] /\ enabled' = [enabled EXCEPT ![w] = FALSE]
      /\ shard' = shard /\ counted' = counted /\ issued' = issued
  BY DEF kill
<1> USE DEF Agg!IType, Agg!AggregatorTypeOK
<1>3. store' \in [Worker -> Seq(Requests)] /\ enabled' \in [Worker -> BOOLEAN]
  BY <1>1, <1>2
<1>4. \A v \in Worker : Len(store'[v]) <= MAX_REQUESTS
  <2>1. \A v \in Worker : store'[v] = (IF v = w THEN <<>> ELSE store[v])
    BY <1>2
  <2>2. MAX_REQUESTS \in Nat
    BY LayoutAssumption
  <2> QED BY <1>1, <2>1, <2>2
<1> QED BY <1>2, <1>3, <1>4

LEMMA OsStep == TypeInv /\ [Next]_vars => OsType'
<1> SUFFICES ASSUME TypeInv, [Next]_vars PROVE OsType'
  OBVIOUS
<1>1. OsType /\ at \in [Request -> Worker]
  BY DEF TypeInv, HTTP!MiddlewareTypeOK
<1>2. ASSUME NEW r \in Request, begin(r) \/ metrics_text(r) \/ \E o : handle(r, o)
      PROVE  OsType'
  BY <1>1, <1>2 DEF begin, metrics_text, merge, Merging, handle, os, hist, OsType
<1>3. ASSUME NEW r \in Request, NEW req \in Requests, record_request(r, req)
      PROVE  OsType'
  BY <1>1, <1>3 DEF record_request, os, OsType
<1>4. ASSUME NEW w \in Worker, \/ aggregate(w) \/ clear_requests(w)
                               \/ \E on \in BOOLEAN : set_multiproc_dir(w, on)
      PROVE  OsType'
  BY <1>1, <1>4 DEF aggregate, merge, Merging, clear_requests, set_multiproc_dir, os, hist, OsType
<1>5. ASSUME NEW w \in Worker, kill(w) \/ leave(w) \/ take(w)
      PROVE  OsType'
  BY <1>1, <1>5 DEF kill, leave, take, hist, OsType
<1>6. CASE UNCHANGED vars
  BY <1>1, <1>6 DEF vars, os, hist, OsType
<1> QED BY <1>2, <1>3, <1>4, <1>5, <1>6 DEF Next

LEMMA NextTypes == TypeInv /\ [Next]_vars => TypeInv'
<1> SUFFICES ASSUME TypeInv, [Next]_vars PROVE TypeInv'
  OBVIOUS
<1>1. HTTP!MiddlewareTypeOK'
  BY StepsOf, MiddlewareStep DEF TypeInv
<1>2. Agg!IType'
  <2>1. CASE [Agg!Next]_(Agg!vars)
    BY <2>1, Assumptions, Agg!NextIType DEF TypeInv
  <2>2. CASE \E w \in Worker : kill(w)
    BY <2>2, KillType DEF TypeInv
  <2> QED BY <2>1, <2>2, StepsOf DEF TypeInv
<1> QED BY <1>1, <1>2, OsStep DEF TypeInv

LEMMA TypesInvariant == Spec => []TypeInv
BY InitTypes, NextTypes, PTL DEF Spec

-----------------------------------------------------------------------------
(* The code recorded for a request.                                         *)
Told(o) == IF o = HTTP!Cancelled THEN 500 ELSE HTTP!Reply(o)

Right(r) ==
  /\ phase[r] # "recorded" => recorded[r] = <<>>
  /\ phase[r] = "recorded" => recorded[r] = <<Told(outcome[r])>>

AllRight == \A r \in Request : Right(r)

LEMMA AnsweredIs == RecordedAsAnswered <=> AllRight
<1>1. ASSUME NEW r \in Request
      PROVE  recorded[r] = (IF phase[r] # "recorded" THEN <<>> ELSE <<Told(outcome[r])>>)
               <=> Right(r)
  BY DEF Right
<1> QED BY <1>1 DEF RecordedAsAnswered, HTTP!RecordedAsAnswered, AllRight, Told

LEMMA AnsweredStep ==
  ASSUME HTTP!MiddlewareTypeOK, AllRight, [Next]_vars
  PROVE  AllRight'
<1> SUFFICES \A q \in Request : Right(q)'
  BY DEF AllRight
<1>1. \A r \in Request : Right(r)
  BY DEF AllRight
<1>2. ASSUME NEW r \in Request, phase'[r] = phase[r], outcome'[r] = outcome[r],
             recorded'[r] = recorded[r]
      PROVE  Right(r)'
  BY <1>1, <1>2 DEF Right, Told, HTTP!Reply, HTTP!Cancelled
<1>3. ASSUME NEW r \in Request, phase[r] # "recorded", phase'[r] # "recorded",
             recorded'[r] = recorded[r]
      PROVE  Right(r)'
  BY <1>1, <1>3 DEF Right
<1>4. ASSUME NEW r \in Request, HTTP!finish(r)
      PROVE  \A q \in Request : Right(q)'
  <2>1. /\ phase[r] = "handled" /\ phase' = [phase EXCEPT ![r] = "recorded"]
        /\ recorded' = [recorded EXCEPT ![r] = Append(recorded[r], HTTP!status_code(outcome[r]))]
        /\ outcome' = outcome
    BY <1>4 DEF HTTP!finish
  <2>2. recorded[r] = <<>>
    BY <1>1, <2>1 DEF Right
  <2>3. HTTP!status_code(outcome[r]) = Told(outcome[r])
    <3>1. outcome[r] \in Outcomes
      BY DEF HTTP!MiddlewareTypeOK, Outcomes
    <3> QED BY <3>1, StatusCodeIs DEF Told
  <2>4. recorded'[r] = <<HTTP!status_code(outcome[r])>> /\ phase'[r] = "recorded"
    BY <2>1, <2>2 DEF HTTP!MiddlewareTypeOK
  <2>5. Right(r)'
    BY <2>1, <2>3, <2>4 DEF Right, Told, HTTP!Reply, HTTP!Cancelled
  <2>6. ASSUME NEW q \in Request, q # r
        PROVE  Right(q)'
    <3>1. phase'[q] = phase[q] /\ outcome'[q] = outcome[q] /\ recorded'[q] = recorded[q]
      BY <2>1, <2>6 DEF HTTP!MiddlewareTypeOK
    <3> QED BY <1>2, <3>1
  <2> QED BY <2>5, <2>6
<1>5. ASSUME NEW r \in Request, HTTP!begin(r) \/ \E o \in Outcomes : HTTP!handle(r, o)
      PROVE  \A q \in Request : Right(q)'
  <2>1. /\ phase[r] # "recorded" /\ phase'[r] # "recorded" /\ recorded' = recorded
        /\ \A q \in Request : q # r => phase'[q] = phase[q] /\ outcome'[q] = outcome[q]
    BY <1>5 DEF HTTP!begin, HTTP!handle, HTTP!MiddlewareTypeOK
  <2> QED BY <1>2, <1>3, <2>1
<1>6. ASSUME NEW w \in Worker, HTTP!kill(w)
      PROVE  \A q \in Request : Right(q)'
  <2>1. recorded' = recorded
    BY <1>6 DEF HTTP!kill
  <2>2. \A q \in Request : \/ (phase'[q] = phase[q] /\ outcome'[q] = outcome[q])
                          \/ (phase[q] # "recorded" /\ phase'[q] # "recorded")
    <3> DEFINE doing == {r \in Request : at[r] = w /\ phase[r] \in {"handling", "handled"}}
    <3>1. /\ phase' = [r \in Request |-> IF r \in doing THEN "lost" ELSE phase[r]]
          /\ outcome' = [r \in Request |-> IF r \in doing THEN HTTP!None ELSE outcome[r]]
      BY <1>6 DEF HTTP!kill
    <3>2. \A q \in doing : phase[q] # "recorded"
      OBVIOUS
    <3> HIDE DEF doing
    <3> QED BY <3>1, <3>2
  <2> QED BY <1>2, <1>3, <2>1, <2>2
<1>7. CASE UNCHANGED http
  <2> QED BY <1>2, <1>7 DEF http
<1> QED BY <1>4, <1>5, <1>6, <1>7, StepsOf

(* Under each way to run the middleware a request is recorded exactly once, *)
(* when it is done, with the status its client is told, or as a server      *)
(* error if it is told nothing.                                             *)
THEOREM AnsweredIsRecorded == Spec => []RecordedAsAnswered
<1>1. Init => AllRight
  BY DEF Init, HTTP!Init, AllRight, Right
<1>2. TypeInv /\ AllRight /\ [Next]_vars => AllRight'
  BY AnsweredStep DEF TypeInv
<1> QED BY <1>1, <1>2, AnsweredIs, TypesInvariant, PTL DEF Spec


-----------------------------------------------------------------------------
(* What the workers keep, against the requests they served: each shard      *)
(* counts the requests its worker shared, and each store holds the last of  *)
(* those it served, in their order.                                         *)
Off(w) == IF Len(served[w]) > MAX_REQUESTS THEN Len(served[w]) - MAX_REQUESTS ELSE 0

Counts(w) ==
  /\ shard[w][Agg!I_TOTAL] = Cardinality(shared[w])
  /\ shard[w][Agg!I_ERRORS] = Cardinality({r \in shared[w] : Erred(r)})

Lists(w) ==
  /\ Len(store[w]) = Len(served[w]) - Off(w)
  /\ \A k \in 1 .. Len(store[w]) : store[w][k].status >= 400 <=> Erred(served[w][Off(w) + k])

Done(w) ==
  /\ \A r \in shared[w] : at[r] = w /\ phase[r] = "recorded"
  /\ \A k \in 1 .. Len(served[w]) : phase[served[w][k]] = "recorded"

HistType == served \in [Worker -> Seq(Request)] /\ shared \in [Worker -> SUBSET Request]

Kept == HistType /\ \A w \in Worker : Counts(w) /\ Lists(w) /\ Done(w)

(* A request that is recorded stays as it is.                               *)
LEMMA RecordedStays ==
  ASSUME HTTP!MiddlewareTypeOK, [Next]_vars
  PROVE  /\ at' = at
         /\ \A q \in Request : phase[q] = "recorded" =>
              phase'[q] = "recorded" /\ outcome'[q] = outcome[q]
<1> USE DEF HTTP!MiddlewareTypeOK
<1> DEFINE Stays == /\ at' = at
                    /\ \A q \in Request : phase[q] = "recorded" =>
                         phase'[q] = "recorded" /\ outcome'[q] = outcome[q]
<1>1. ASSUME NEW r \in Request, HTTP!begin(r) \/ \E o \in Outcomes : HTTP!handle(r, o)
      PROVE  Stays
  BY <1>1 DEF HTTP!begin, HTTP!handle
<1>2. ASSUME NEW r \in Request, HTTP!finish(r)
      PROVE  Stays
  BY <1>2 DEF HTTP!finish
<1>3. ASSUME NEW w \in Worker, HTTP!kill(w)
      PROVE  Stays
  <2> DEFINE doing == {r \in Request : at[r] = w /\ phase[r] \in {"handling", "handled"}}
  <2>1. /\ phase' = [r \in Request |-> IF r \in doing THEN "lost" ELSE phase[r]]
        /\ outcome' = [r \in Request |-> IF r \in doing THEN HTTP!None ELSE outcome[r]]
        /\ at' = at
    BY <1>3 DEF HTTP!kill
  <2>2. \A q \in doing : phase[q] # "recorded"
    OBVIOUS
  <2> HIDE DEF doing
  <2> QED BY <2>1, <2>2
<1>4. CASE UNCHANGED http
  BY <1>4 DEF http
<1> QED BY <1>1, <1>2, <1>3, <1>4, StepsOf

(* A step leaves a worker's history right that changes nothing of it.       *)
LEMMA OthersKept ==
  ASSUME HTTP!MiddlewareTypeOK, Kept, [Next]_vars, NEW w \in Worker,
         store'[w] = store[w], shard'[w] = shard[w], served'[w] = served[w], shared'[w] = shared[w]
  PROVE  Counts(w)' /\ Lists(w)' /\ Done(w)'
<1>1. /\ at' = at
      /\ \A q \in Request : phase[q] = "recorded" =>
           phase'[q] = "recorded" /\ outcome'[q] = outcome[q]
  BY RecordedStays
<1>2. /\ served[w] \in Seq(Request) /\ shared[w] \in SUBSET Request
      /\ Counts(w) /\ Lists(w) /\ Done(w)
  BY DEF Kept, HistType
<1>3. \A q \in Request : phase[q] = "recorded" => (Erred(q)' <=> Erred(q))
  BY <1>1 DEF Erred, HTTP!Reply, HTTP!Cancelled
<1>4. Done(w)'
  <2>1. \A k \in 1 .. Len(served[w]) : served[w][k] \in Request
    BY <1>2
  <2> QED BY <1>1, <1>2, <2>1 DEF Done
<1>5. {r \in shared[w] : Erred(r)}' = {r \in shared[w] : Erred(r)}
  <2>1. \A r \in shared[w] : r \in Request /\ phase[r] = "recorded"
    BY <1>2 DEF Done
  <2> QED BY <1>3, <2>1
<1>6. Counts(w)'
  <2>1. Agg!I_TOTAL' = Agg!I_TOTAL /\ Agg!I_ERRORS' = Agg!I_ERRORS
    BY DEF Agg!I_TOTAL, Agg!I_ERRORS
  <2> QED BY <1>2, <1>5 DEF Counts
<1>7. Lists(w)'
  <2>1. Off(w)' = Off(w) /\ Len(store[w])' = Len(store[w])
    BY DEF Off
  <2>2. \A k \in 1 .. Len(store[w]) : Off(w) + k \in 1 .. Len(served[w])
    BY <1>2, LayoutAssumption DEF Lists, Off
  <2>3. \A k \in 1 .. Len(store[w]) : LET q == served[w][Off(w) + k]
                                      IN  q \in Request /\ phase[q] = "recorded"
    BY <1>2, <2>2 DEF Done
  <2>4. ASSUME NEW k \in 1 .. Len(store[w])
        PROVE  store[w][k].status >= 400 <=> Erred(served[w][Off(w) + k])'
    <3> DEFINE q == served[w][Off(w) + k]
    <3>1. q \in Request /\ phase[q] = "recorded"
      BY <2>3
    <3>2. store[w][k].status >= 400 <=> Erred(q)
      BY <1>2 DEF Lists
    <3>3. Erred(served[w][Off(w) + k])' <=> Erred(q)'
      BY <2>1
    <3>4. PICK p : p = q
      OBVIOUS
    <3>5. Erred(p)' <=> Erred(p)
      BY <1>3, <3>1, <3>4
    <3> QED BY <2>1, <3>2, <3>4, <3>5 DEF Erred
  <2> QED BY <1>2, <2>1, <2>4 DEF Lists
<1> QED BY <1>4, <1>6, <1>7

(* An empty shard has counted nothing.                                      *)
LEMMA EmptyShard ==
  /\ Agg!EmptyReading[Agg!I_TOTAL] = 0 /\ Agg!EmptyReading[Agg!I_ERRORS] = 0
  /\ Stats!EmptyReading = Agg!EmptyReading
<1>1. Agg!I_TOTAL \in Agg!MergeSlots /\ Agg!I_ERRORS \in Agg!MergeSlots
  BY Assumptions, Agg!SlotNames
<1>2. Agg!I_TOTAL # Agg!I_MIN_US /\ Agg!I_ERRORS # Agg!I_MIN_US
  BY DEF Agg!I_TOTAL, Agg!I_ERRORS, Agg!I_MIN_US
<1>3. Stats!EmptyReading = Agg!EmptyReading
  BY SameSlots DEF Stats!EmptyReading, Agg!EmptyReading
<1> QED BY <1>1, <1>2, <1>3 DEF Agg!EmptyReading

LEMMA InitKept == Init => Kept
<1> SUFFICES ASSUME Init PROVE Kept
  OBVIOUS
<1>1. HistType
  BY DEF Init, HistType
<1>2. ASSUME NEW w \in Worker
      PROVE  Counts(w) /\ Lists(w) /\ Done(w)
  <2>1. /\ shard[w] = Agg!EmptyReading /\ store[w] = <<>>
        /\ served[w] = <<>> /\ shared[w] = {}
    BY <1>2, EmptyShard DEF Init, Stats!Init
  <2>2. Counts(w)
    <3>1. {r \in shared[w] : Erred(r)} = {} /\ Cardinality({}) = 0
      BY <2>1, FS_EmptySet
    <3> QED BY <2>1, <3>1, EmptyShard DEF Counts
  <2>3. Lists(w)
    <3>1. Off(w) = 0
      BY <2>1, LayoutAssumption DEF Off
    <3> QED BY <2>1, <3>1 DEF Lists
  <2>4. Done(w)
    BY <2>1 DEF Done
  <2> QED BY <2>2, <2>3, <2>4
<1> QED BY <1>1, <1>2 DEF Kept

(* A worker that has lost its store, by clear_requests() or by its death,   *)
(* keeps its shard.                                                         *)
LEMMA StoreLost ==
  ASSUME TypeInv, Kept, [Next]_vars, NEW w \in Worker,
         store' = [store EXCEPT ![w] = <<>>], served' = [served EXCEPT ![w] = <<>>],
         shard' = shard, shared' = shared
  PROVE  Kept'
<1>1. /\ DOMAIN store = Worker
      /\ served \in [Worker -> Seq(Request)] /\ shared \in [Worker -> SUBSET Request]
  BY DEF TypeInv, Agg!IType, Agg!AggregatorTypeOK, Kept, HistType
<1>2. HistType'
  BY <1>1 DEF HistType
<1>3. /\ at' = at
      /\ \A q \in Request : phase[q] = "recorded" =>
           phase'[q] = "recorded" /\ outcome'[q] = outcome[q]
  BY RecordedStays DEF TypeInv
<1>4. Counts(w)' /\ Lists(w)' /\ Done(w)'
  <2>0. Counts(w) /\ Done(w)
    BY DEF Kept
  <2>1. store'[w] = <<>> /\ served'[w] = <<>>
    BY <1>1
  <2>2. Counts(w)'
    <3>1. \A r \in shared[w] : outcome'[r] = outcome[r]
      BY <1>1, <1>3, <2>0 DEF Done
    <3>2. {r \in shared[w] : Erred(r)}' = {r \in shared[w] : Erred(r)}
      BY <3>1 DEF Erred, HTTP!Reply, HTTP!Cancelled
    <3> QED BY <2>0, <3>2 DEF Counts, Agg!I_TOTAL, Agg!I_ERRORS
  <2>3. Lists(w)'
    <3>1. Off(w)' = 0
      BY <2>1, LayoutAssumption DEF Off
    <3> QED BY <2>1, <3>1 DEF Lists
  <2>4. Done(w)'
    BY <1>1, <1>3, <2>0, <2>1 DEF Done
  <2> QED BY <2>2, <2>3, <2>4
<1>5. ASSUME NEW v \in Worker, v # w
      PROVE  Counts(v)' /\ Lists(v)' /\ Done(v)'
  <2>1. store'[v] = store[v] /\ served'[v] = served[v]
    BY <1>1, <1>5
  <2> QED BY <2>1, OthersKept DEF TypeInv
<1> QED BY <1>2, <1>4, <1>5 DEF Kept

(* The new entry is the last of the log, and the oldest may go.             *)
LEMMA RetainedLast ==
  ASSUME NEW log \in Seq(Requests), NEW req \in Requests, Len(log) <= MAX_REQUESTS
  PROVE  LET d   == IF Len(log) = MAX_REQUESTS THEN 1 ELSE 0
             new == Agg!Retained(Append(log, req))
         IN  /\ Len(new) = Len(log) + 1 - d
             /\ new[Len(new)] = req
             /\ \A k \in 1 .. Len(new) - 1 : new[k] = log[k + d]
<1> DEFINE long == Append(log, req)
<1>1. /\ long \in Seq(Requests) /\ Len(long) = Len(log) + 1 /\ Len(log) \in Nat
      /\ long[Len(log) + 1] = req /\ \A k \in 1 .. Len(log) : long[k] = log[k]
      /\ MAX_REQUESTS \in Nat \ {0}
  BY LayoutAssumption
<1> HIDE DEF long
<1>2. CASE Len(log) = MAX_REQUESTS
  <2>1. Agg!Retained(long) = Tail(long)
    BY <1>1, <1>2 DEF Agg!Retained
  <2>2. Len(Tail(long)) = Len(log) /\ \A k \in 1 .. Len(log) : Tail(long)[k] = long[k + 1]
    BY <1>1, <1>2
  <2>3. Tail(long)[Len(log)] = req
    BY <1>1, <1>2, <2>2
  <2>4. \A k \in 1 .. Len(log) - 1 : Tail(long)[k] = log[k + 1]
    BY <1>1, <1>2, <2>2
  <2> QED BY <1>1, <1>2, <2>1, <2>2, <2>3, <2>4 DEF long
<1>3. CASE Len(log) # MAX_REQUESTS
  <2>1. Agg!Retained(long) = long
    BY <1>1, <1>3 DEF Agg!Retained
  <2> QED BY <1>1, <1>3, <2>1 DEF long
<1> QED BY <1>2, <1>3

LEMMA RecordKept ==
  ASSUME TypeInv, Kept, NEW r \in Request, NEW req \in Requests, record_request(r, req)
  PROVE  Kept'
<1> DEFINE w == at[r]
<1>1. /\ w \in Worker /\ outcome[r] \in Outcomes /\ req.status \in 100 .. 999
      /\ store \in [Worker -> Seq(Requests)] /\ Len(store[w]) <= MAX_REQUESTS
      /\ shard \in [Worker -> [Agg!MergeSlots -> Nat]]
      /\ served \in [Worker -> Seq(Request)] /\ shared \in [Worker -> SUBSET Request]
      /\ phase \in [Request -> {"new", "handling", "handled", "recorded", "lost"}]
  <2>1. /\ at \in [Request -> Worker] /\ outcome \in [Request -> Outcomes]
        /\ phase \in [Request -> {"new", "handling", "handled", "recorded", "lost"}]
    BY DEF TypeInv, HTTP!MiddlewareTypeOK, Outcomes
  <2>2. /\ store \in [Worker -> Seq(Requests)] /\ \A v \in Worker : Len(store[v]) <= MAX_REQUESTS
        /\ shard \in [Worker -> [Agg!MergeSlots -> Nat]]
    BY DEF TypeInv, Agg!IType, Agg!AggregatorTypeOK
  <2>3. served \in [Worker -> Seq(Request)] /\ shared \in [Worker -> SUBSET Request]
    BY DEF Kept, HistType
  <2>4. req.status \in 100 .. 999
    BY StatusType
  <2> QED BY <2>1, <2>2, <2>3, <2>4
<1>2. /\ phase[r] = "handled" /\ phase' = [phase EXCEPT ![r] = "recorded"]
      /\ at' = at /\ outcome' = outcome
      /\ req.status = HTTP!status_code(outcome[r])
      /\ served' = [served EXCEPT ![w] = Append(@, r)]
      /\ shared' = [shared EXCEPT ![w] = IF enabled[w] THEN @ \cup {r} ELSE @]
  BY DEF record_request, HTTP!finish
<1>3. /\ IF enabled[w] THEN shard' = [shard EXCEPT ![w] = Agg!Recorded(shard[w], req)]
                       ELSE shard' = shard
      /\ store' = [store EXCEPT ![w] = Agg!Retained(Append(store[w], req))]
  <2>1. Agg!record(w, req) /\ Agg!IType
    BY <1>1, SameRecord DEF record_request, TypeInv
  <2> HIDE DEF w
  <2> QED BY <1>1, <2>1, Assumptions, Agg!RecordIs
<1>4. Erred(r) <=> req.status >= 400
  <2>1. PICK o \in Outcomes : o = outcome[r]
    BY <1>1
  <2>2. HTTP!Reply(o) \notin 1 .. 399 <=> HTTP!status_code(o) >= 400
    BY <2>1, StatusCodeIs
  <2>3. Erred(r) <=> HTTP!Reply(o) \notin 1 .. 399
    BY <2>1 DEF Erred
  <2> QED BY <1>2, <2>1, <2>2, <2>3
<1>5. \A q : Erred(q)' <=> Erred(q)
  BY <1>2 DEF Erred, HTTP!Reply, HTTP!Cancelled
<1>6. Counts(w) /\ Lists(w) /\ Done(w)
  BY <1>1 DEF Kept
<1>7. ASSUME NEW v \in Worker, v # w
      PROVE  Counts(v)' /\ Lists(v)' /\ Done(v)'
  <2>1. store'[v] = store[v] /\ shard'[v] = shard[v] /\ served'[v] = served[v]
        /\ shared'[v] = shared[v]
    BY <1>1, <1>2, <1>3, <1>7
  <2>2. [Next]_vars
    BY DEF Next
  <2> QED BY <2>1, <2>2, OthersKept DEF TypeInv
<1>8. HistType'
  BY <1>1, <1>2 DEF HistType
<1> HIDE DEF w
<1>9. PICK u \in Worker : u = w
  BY <1>1
<1>10. served'[u] = Append(served[u], r) /\ served[u] \in Seq(Request)
  BY <1>1, <1>2, <1>9
<1>11. Done(u)'
  <2>1. Done(u)
    BY <1>6, <1>9
  <2>2. \A q \in shared'[u] : at'[q] = u /\ phase'[q] = "recorded"
    BY <1>1, <1>2, <1>9, <2>1 DEF Done, w
  <2>3. \A k \in 1 .. Len(served'[u]) : phase'[served'[u][k]] = "recorded"
    <3> TAKE k \in 1 .. Len(served'[u])
    <3>1. Len(served'[u]) = Len(served[u]) + 1 /\ Len(served[u]) \in Nat
      BY <1>10
    <3>2. CASE k = Len(served[u]) + 1
      BY <1>1, <1>2, <1>10, <3>2
    <3>3. CASE k \in 1 .. Len(served[u])
      <4>1. served'[u][k] = served[u][k] /\ served[u][k] \in Request
        BY <1>10, <3>3
      <4>2. phase[served[u][k]] = "recorded"
        BY <2>1, <3>3 DEF Done
      <4> QED BY <1>1, <1>2, <4>1, <4>2
    <3> QED BY <3>1, <3>2, <3>3
  <2> QED BY <2>2, <2>3 DEF Done
<1>12. Counts(u)'
  <2> DEFINE bad == {q \in shared[u] : Erred(q)}
  <2>1. Counts(u) /\ Done(u) /\ shared[u] \in SUBSET Request
    BY <1>1, <1>6, <1>9
  <2>2. {q \in shared[u] : Erred(q)}' = {q \in shared'[u] : Erred(q)}
    BY <1>5
  <2>3. CASE enabled[w]
    <3>1. shared'[u] = shared[u] \cup {r} /\ r \notin shared[u]
      BY <1>1, <1>2, <1>9, <2>1, <2>3 DEF Done
    <3>2. IsFiniteSet(shared[u])
      BY <2>1, MonitorAssumption, FS_Subset
    <3>3. Cardinality(shared'[u]) = Cardinality(shared[u]) + 1
      BY <3>1, <3>2, FS_AddElement
    <3>4. IsFiniteSet(bad) /\ r \notin bad
      BY <3>1, <3>2, FS_Subset
    <3>5. {q \in shared'[u] : Erred(q)} = IF Erred(r) THEN bad \cup {r} ELSE bad
      BY <3>1
    <3>6. Cardinality({q \in shared'[u] : Erred(q)}) =
            Cardinality(bad) + (IF Erred(r) THEN 1 ELSE 0)
      <4>1. Cardinality(bad) \in Nat /\ Cardinality(bad \cup {r}) = Cardinality(bad) + 1
        <5> HIDE DEF bad
        <5> QED BY <3>4, FS_AddElement, FS_CardinalityType
      <4> HIDE DEF bad
      <4> QED BY <3>5, <4>1
    <3>7. /\ shard'[u] = Agg!Recorded(shard[u], req)
          /\ shard[u] \in [Agg!MergeSlots -> Nat]
      BY <1>1, <1>3, <1>9, <2>3
    <3>8. /\ shard'[u][Agg!I_TOTAL] = shard[u][Agg!I_TOTAL] + 1
          /\ shard'[u][Agg!I_ERRORS] =
               shard[u][Agg!I_ERRORS] + (IF req.status >= 400 THEN 1 ELSE 0)
      BY <3>7, Assumptions, Agg!RecordedSlots
    <3> QED BY <1>4, <2>1, <2>2, <3>3, <3>6, <3>8 DEF Counts, Agg!I_TOTAL, Agg!I_ERRORS
  <2>4. CASE ~enabled[w]
    <3>1. shared'[u] = shared[u] /\ shard'[u] = shard[u]
      BY <1>1, <1>2, <1>3, <1>9, <2>4
    <3> QED BY <2>1, <2>2, <3>1 DEF Counts, Agg!I_TOTAL, Agg!I_ERRORS
  <2> QED BY <2>3, <2>4
<1>13. Lists(u)'
  <2> DEFINE d == IF Len(store[u]) = MAX_REQUESTS THEN 1 ELSE 0
             n == Len(served[u])
  <2>1. /\ store'[u] = Agg!Retained(Append(store[u], req))
        /\ store[u] \in Seq(Requests) /\ Len(store[u]) <= MAX_REQUESTS /\ Len(store[u]) \in Nat
    BY <1>1, <1>3, <1>9
  <2>2. /\ Len(store'[u]) = Len(store[u]) + 1 - d
        /\ store'[u][Len(store'[u])] = req
        /\ \A k \in 1 .. Len(store'[u]) - 1 : store'[u][k] = store[u][k + d]
    BY <2>1, RetainedLast
  <2>3. /\ Len(served'[u]) = n + 1 /\ n \in Nat
        /\ served'[u][n + 1] = r /\ \A k \in 1 .. n : served'[u][k] = served[u][k]
    BY <1>10
  <2>4. Lists(u) /\ MAX_REQUESTS \in Nat \ {0}
    BY <1>6, <1>9, LayoutAssumption
  <2>5. Len(store[u]) = n - Off(u)
    BY <2>4 DEF Lists
  <2>6. Off(u)' = (IF n + 1 > MAX_REQUESTS THEN n + 1 - MAX_REQUESTS ELSE 0)
    <3>1. Off(u)' = (IF Len(served'[u]) > MAX_REQUESTS THEN Len(served'[u]) - MAX_REQUESTS ELSE 0)
      BY DEF Off
    <3>2. Len(served'[u]) = n + 1 /\ n \in Int /\ MAX_REQUESTS \in Int
      BY <2>3, <2>4
    <3> HIDE DEF n
    <3> QED BY ONLY <3>1, <3>2
  <2>7. Off(u)' = Off(u) + d /\ d \in 0 .. 1 /\ Off(u) \in Nat
    <3>1. PICK a : a = Off(u)
      OBVIOUS
    <3>2. a = IF n > MAX_REQUESTS THEN n - MAX_REQUESTS ELSE 0
      BY <3>1 DEF Off
    <3>3. a \in Nat /\ Len(store[u]) = n - a
      BY <2>3, <2>4, <2>5, <3>1, <3>2
    <3>4. (IF n + 1 > MAX_REQUESTS THEN n + 1 - MAX_REQUESTS ELSE 0) = a + d
      <4>1. n \in Nat /\ MAX_REQUESTS \in Nat \ {0}
        BY <2>3, <2>4
      <4>2. d = IF n - a = MAX_REQUESTS THEN 1 ELSE 0
        BY <3>3
      <4> HIDE DEF d, n
      <4>3. CASE n >= MAX_REQUESTS
        <5>1. n - a = MAX_REQUESTS /\ a \in Int
          BY <4>1, <4>3, <3>2, <3>3
        <5>2. d = 1
          BY <4>2, <5>1
        <5> QED BY ONLY <4>1, <4>3, <5>1, <5>2
      <4>4. CASE n < MAX_REQUESTS
        <5>1. a = 0
          BY <3>2, <4>1, <4>4
        <5>2. d = 0
          BY <4>1, <4>2, <4>4, <5>1
        <5> QED BY ONLY <4>1, <4>4, <5>1, <5>2
      <4> QED BY <4>1, <4>3, <4>4
    <3> QED BY <2>6, <3>1, <3>3, <3>4
  <2> HIDE DEF d, n
  <2>8. Len(store'[u]) = Len(served'[u]) - Off(u)'
    <3>1. Len(store'[u]) = n - Off(u) + 1 - d
      BY <2>2, <2>5
    <3>2. PICK a \in Nat : a = Off(u)
      BY <2>7
    <3> QED BY <2>3, <2>7, <3>1, <3>2
  <2>9. ASSUME NEW k \in 1 .. Len(store'[u])
        PROVE  store'[u][k].status >= 400 <=> Erred(served'[u][Off(u)' + k])
    <3>1. CASE k = Len(store'[u])
      <4>1. Off(u)' + k = n + 1
        <5>1. PICK a \in Nat : a = Off(u)'
          BY <2>7
        <5>2. k = n + 1 - a
          BY <2>3, <2>8, <3>1, <5>1
        <5> QED BY <2>3, <5>1, <5>2
      <4> QED BY <1>4, <2>2, <2>3, <3>1, <4>1
    <3>2. CASE k # Len(store'[u])
      <4>1. PICK a \in Nat : a = Off(u)
        BY <2>7
      <4>2. Len(store'[u]) = Len(store[u]) + 1 - d /\ Len(store[u]) \in Nat
        BY <2>1, <2>2
      <4>3. k \in 1 .. Len(store'[u]) - 1 /\ k + d \in 1 .. Len(store[u])
        BY <2>7, <2>9, <3>2, <4>2
      <4>4. a + (k + d) \in 1 .. n
        BY <2>3, <2>5, <2>7, <4>1, <4>3
      <4>5. Off(u)' + k = a + (k + d)
        BY <2>7, <4>1, <4>3
      <4>6. store[u][k + d].status >= 400 <=> Erred(served[u][a + (k + d)])
        BY <2>4, <4>1, <4>3 DEF Lists
      <4>7. store'[u][k] = store[u][k + d]
        BY <2>2, <4>3
      <4>8. served'[u][a + (k + d)] = served[u][a + (k + d)]
        BY <2>3, <4>4
      <4> QED BY <4>5, <4>6, <4>7, <4>8
    <3> QED BY <3>1, <3>2
  <2>10. \A k \in 1 .. Len(store'[u]) :
           store'[u][k].status >= 400 <=> Erred(served[u][Off(u) + k])'
    <3> TAKE k \in 1 .. Len(store'[u])
    <3>1. PICK q : q = served'[u][Off(u)' + k]
      OBVIOUS
    <3>2. Erred(q)' <=> Erred(q)
      BY <1>5
    <3> QED BY <2>9, <3>1, <3>2 DEF Erred
  <2> QED BY <2>8, <2>10 DEF Lists
<1> QED BY <1>7, <1>8, <1>9, <1>11, <1>12, <1>13 DEF Kept

LEMMA NextKept == TypeInv /\ Kept /\ [Next]_vars => Kept'
<1> SUFFICES ASSUME TypeInv, Kept, [Next]_vars PROVE Kept'
  OBVIOUS
<1>1. CASE UNCHANGED <<store, shard, served, shared>>
  <2>1. HistType'
    BY <1>1 DEF Kept, HistType
  <2>2. ASSUME NEW w \in Worker
        PROVE  Counts(w)' /\ Lists(w)' /\ Done(w)'
    BY <1>1, OthersKept DEF TypeInv
  <2> QED BY <2>1, <2>2 DEF Kept
<1>2. ASSUME NEW r \in Request,
             \/ begin(r) \/ metrics_text(r) \/ handle(r, HTTP!Raised) \/ handle(r, HTTP!Cancelled)
             \/ \E status \in Status : handle(r, HTTP!Answered(status))
      PROVE  Kept'
  BY <1>1, <1>2 DEF begin, metrics_text, handle, stats, hist
<1>3. ASSUME NEW w \in Worker,
             \/ aggregate(w) \/ leave(w) \/ take(w)
             \/ \E on \in BOOLEAN : set_multiproc_dir(w, on)
      PROVE  Kept'
  BY <1>1, <1>3 DEF aggregate, leave, take, set_multiproc_dir, Stats!set_dir, stats, hist
<1>4. ASSUME NEW w \in Worker, clear_requests(w) \/ kill(w)
      PROVE  Kept'
  BY <1>4, StoreLost DEF clear_requests, Stats!clear, kill
<1>5. CASE UNCHANGED vars
  BY <1>1, <1>5 DEF vars, stats, hist
<1> QED BY <1>2, <1>3, <1>4, <1>5, RecordKept DEF Next

LEMMA KeptInvariant == Spec => [](TypeInv /\ Kept)
<1>1. Init => TypeInv /\ Kept
  BY InitTypes, InitKept
<1>2. TypeInv /\ Kept /\ [Next]_vars => (TypeInv /\ Kept)'
  BY NextTypes, NextKept
<1> QED BY <1>1, <1>2, PTL DEF Spec

(* Statuses, outcomes, what the workers keep and what is left of the dead   *)
(* ones are what they should be, whatever the application answers.          *)
THEOREM MonitorTypeCorrect == Spec => []MonitorTypeOK
<1>1. TypeInv /\ Kept => MonitorTypeOK
  BY SameType DEF TypeInv, OsType, Kept, HistType, MonitorTypeOK, Agg!IType
<1> QED BY <1>1, KeptInvariant, PTL

-----------------------------------------------------------------------------
(* Requests shared by some of the workers, and those of them that failed.   *)
FailedOf(workers) == {r \in SharedBy(workers) : Erred(r)}

(* The shards a merge reads, and their requests.                            *)
View    == [w \in Worker |-> IF w \in Merging THEN shard[w] ELSE Stats!EmptyReading]
Ours    == SharedBy(Merging)
Failing == FailedOf(Merging)

LEMMA SharedFinite ==
  ASSUME HistType, NEW W, W \subseteq Worker
  PROVE  /\ SharedBy(W) \subseteq Request /\ FailedOf(W) \subseteq Request
         /\ IsFiniteSet(SharedBy(W)) /\ IsFiniteSet(FailedOf(W))
         /\ Cardinality(SharedBy(W)) \in Nat /\ Cardinality(FailedOf(W)) \in Nat
<1>1. SharedBy(W) \subseteq Request /\ FailedOf(W) \subseteq Request
  BY DEF HistType, SharedBy, FailedOf
<1> QED BY <1>1, MonitorAssumption, FS_Subset, FS_CardinalityType

(* What an instance of ShardLayout adds up does not depend on its shards.   *)
LEMMA SumOfView ==
  ASSUME NEW s
  PROVE  Merge!Sum(View, s) = Agg!SumOf([w \in Worker |-> View[w][s]], Worker)
<1>1. DOMAIN View = Worker
  BY DEF View
<1>2. PICK v : v = View
  OBVIOUS
<1>3. Merge!Sum(v, s) = Agg!Sum(v, s)
  BY DEF Merge!Sum, Agg!Sum, Merge!MapThenSumSet, Agg!MapThenSumSet,
     Merge!MapThenFoldSet, Agg!MapThenFoldSet
<1>4. Agg!Sum(v, s) = Agg!SumOf([w \in Worker |-> v[w][s]], Worker)
  BY <1>1, <1>2, Assumptions, Agg!SumIs
<1> QED BY <1>2, <1>3, <1>4

(* The counters of the shards a merge reads add up to their requests.       *)
LEMMA SumsAre ==
  ASSUME TypeInv, Kept
  PROVE  /\ Merge!Sum(View, Agg!I_TOTAL) = Cardinality(Ours)
         /\ Merge!Sum(View, Agg!I_ERRORS) = Cardinality(Failing)
<1>1. /\ shared \in [Worker -> SUBSET Request] /\ Merging \subseteq Worker
      /\ \A w \in Worker : Counts(w) /\ Done(w)
  BY DEF TypeInv, OsType, Merging, Kept, HistType
<1>2. IsFiniteSet(Ours) /\ IsFiniteSet(Failing)
  BY <1>1, SharedFinite DEF Kept, Ours, Failing
<1>3. ASSUME NEW w \in Worker
      PROVE  /\ Agg!Within(Ours, at, {w}) = IF w \in Merging THEN shared[w] ELSE {}
             /\ Agg!Within(Failing, at, {w}) =
                  IF w \in Merging THEN {r \in shared[w] : Erred(r)} ELSE {}
  <2>1. \A v \in Merging : \A r \in shared[v] : at[r] = v
    BY <1>1 DEF Done
  <2>2. Agg!Within(Ours, at, {w}) = IF w \in Merging THEN shared[w] ELSE {}
    BY <2>1 DEF Agg!Within, Ours, SharedBy
  <2> QED BY <2>2 DEF Agg!Within, Ours, Failing, FailedOf
<1>4. Ours = Agg!Within(Ours, at, Worker) /\ Failing = Agg!Within(Failing, at, Worker)
  BY <1>1 DEF Agg!Within, Ours, Failing, FailedOf, SharedBy, Done
<1>5. ASSUME NEW S, IsFiniteSet(S), S = Agg!Within(S, at, Worker), NEW s,
             \A w \in Worker : View[w][s] = Cardinality(Agg!Within(S, at, {w}))
      PROVE  Merge!Sum(View, s) = Cardinality(S)
  <2> DEFINE f == [w \in Worker |-> View[w][s]]
  <2>1. Merge!Sum(View, s) = Agg!SumOf(f, Worker)
    BY SumOfView
  <2>2. \A w \in Worker : f[w] = Agg!Cardinality(Agg!Within(S, at, {w}))
    BY <1>5, SameSets
  <2>3. Agg!IsFiniteSet(S) /\ Agg!IsFiniteSet(Worker)
    BY <1>5, SameSets, MonitorAssumption
  <2>4. Agg!SumOf(f, Worker) = Agg!Cardinality(Agg!Within(S, at, Worker))
    <3> HIDE DEF f
    <3> QED BY <2>2, <2>3, Assumptions, Agg!SumOfClasses
  <2> QED BY <2>1, <2>4, <1>5, SameSets
<1>6. ASSUME NEW w \in Worker
      PROVE  /\ View[w][Agg!I_TOTAL] = Cardinality(Agg!Within(Ours, at, {w}))
             /\ View[w][Agg!I_ERRORS] = Cardinality(Agg!Within(Failing, at, {w}))
  <2>1. CASE w \in Merging
    BY <1>1, <1>3, <2>1 DEF View, Counts
  <2>2. CASE w \notin Merging
    <3>1. View[w] = Agg!EmptyReading
      BY <2>2, EmptyShard DEF View
    <3> QED BY <1>3, <2>2, <3>1, EmptyShard, FS_EmptySet
  <2> QED BY <2>1, <2>2
<1>7. Merge!Sum(View, Agg!I_TOTAL) = Cardinality(Ours)
  <2>1. PICK s : s = Agg!I_TOTAL
    OBVIOUS
  <2>2. PICK S : S = Ours
    OBVIOUS
  <2> QED BY <1>2, <1>4, <1>5, <1>6, <2>1, <2>2
<1>8. Merge!Sum(View, Agg!I_ERRORS) = Cardinality(Failing)
  <2>1. PICK s : s = Agg!I_ERRORS
    OBVIOUS
  <2>2. PICK S : S = Failing
    OBVIOUS
  <2> QED BY <1>2, <1>4, <1>5, <1>6, <2>1, <2>2
<1> QED BY <1>7, <1>8

(* What a worker reports in multiproc mode.                                 *)
LEMMA SharedTotals ==
  ASSUME TypeInv, Kept, NEW w \in Worker, enabled[w]
  PROVE  compute(w).total = Cardinality(Ours) /\ compute(w).errors = Cardinality(Failing)
<1> DEFINE m == Merge!Merged(View)
<1>1. m.total = Cardinality(Ours) /\ m.errors = Cardinality(Failing)
  <2>1. Merge!I_TOTAL = Agg!I_TOTAL /\ Merge!I_ERRORS = Agg!I_ERRORS
    BY DEF Merge!I_TOTAL, Agg!I_TOTAL, Merge!I_ERRORS, Agg!I_ERRORS
  <2> QED BY SumsAre, <2>1 DEF Merge!Merged
<1>2. compute(w) = IF m.total = 0 THEN Merge!NoMetrics ELSE Merge!aggregate_from_merged(m)
  BY DEF compute, Merge!compute, View
<1>3. Cardinality(Ours) = 0 => Cardinality(Failing) = 0
  <2>1. Merging \subseteq Worker /\ HistType
    BY DEF TypeInv, OsType, Merging, Kept
  <2>2. IsFiniteSet(Ours)
    BY <2>1, SharedFinite DEF Ours
  <2>3. Ours = {} => Failing = {}
    BY DEF Ours, Failing, FailedOf
  <2> QED BY <2>2, <2>3, FS_EmptySet
<1> HIDE DEF m
<1> QED BY <1>1, <1>2, <1>3 DEF Merge!NoMetrics, Merge!aggregate_from_merged

(* What it reports otherwise.                                               *)
LEMMA OwnTotals ==
  ASSUME TypeInv, Kept, NEW w \in Worker, ~enabled[w]
  PROVE  LET mine == Newest(served[w])
         IN  /\ compute(w).total = Len(mine)
             /\ compute(w).errors = Cardinality({k \in DOMAIN mine : Erred(mine[k])})
             /\ \A k \in DOMAIN mine : Erred(mine[k]) <=> store[w][k].status >= 400
<1> DEFINE all  == served[w]
           mine == Newest(served[w])
<1>1. /\ all \in Seq(Request) /\ store[w] \in Seq(Requests)
      /\ Lists(w) /\ MAX_REQUESTS \in Nat \ {0}
  BY LayoutAssumption DEF TypeInv, Agg!IType, Kept, HistType
<1>2. PICK a \in Nat : a = Off(w) /\ a <= Len(all)
  <2>1. Len(all) \in Nat /\ MAX_REQUESTS \in Nat
    BY <1>1
  <2>2. Off(w) = IF Len(all) > MAX_REQUESTS THEN Len(all) - MAX_REQUESTS ELSE 0
    BY DEF Off
  <2> HIDE DEF all
  <2>3. Off(w) \in Nat /\ Off(w) <= Len(all)
    BY ONLY <2>1, <2>2
  <2> QED BY <2>3
<1>3. mine = SubSeq(all, a + 1, Len(all))
  BY <1>1, <1>2 DEF Newest, Off
<1>4. /\ Len(mine) = Len(all) - a /\ DOMAIN mine = 1 .. Len(mine)
      /\ \A k \in DOMAIN mine : mine[k] = all[a + k]
  <2> HIDE DEF mine, all
  <2>1. a + 1 \in 1 .. Len(all) + 1 /\ Len(all) \in Nat
    BY <1>1, <1>2
  <2>2. mine = [k \in 1 .. (Len(all) - a) |-> all[a + k]]
    BY <1>1, <1>2, <1>3, <2>1
  <2>3. mine \in Seq(Request)
    BY <1>1, <1>2, <1>3, <2>1
  <2>4. Len(mine) = Len(all) - a
    BY <1>1, <1>2, <1>3, <2>1
  <2> QED BY <2>2, <2>3, <2>4
<1>5. Len(store[w]) = Len(mine)
  BY <1>1, <1>2, <1>4 DEF Lists
<1> HIDE DEF mine
<1>6. \A k \in DOMAIN mine : Erred(mine[k]) <=> store[w][k].status >= 400
  <2> TAKE k \in DOMAIN mine
  <2>1. k \in 1 .. Len(store[w]) /\ mine[k] = all[a + k]
    BY <1>4, <1>5
  <2>2. store[w][k].status >= 400 <=> Erred(all[a + k])
    BY <1>1, <1>2, <2>1 DEF Lists
  <2> QED BY <2>1, <2>2
<1>7. {k \in DOMAIN mine : Erred(mine[k])} = {k \in DOMAIN store[w] : store[w][k].status >= 400}
  <2>1. DOMAIN store[w] = DOMAIN mine
    BY <1>1, <1>4, <1>5
  <2> QED BY <1>6, <2>1
<1>8. CASE store[w] = <<>>
  <2>1. Len(mine) = 0 /\ DOMAIN mine = {}
    BY <1>4, <1>5, <1>8
  <2>2. {k \in DOMAIN mine : Erred(mine[k])} = {}
    BY <2>1
  <2>3. compute(w).total = 0 /\ compute(w).errors = 0
    BY <1>8 DEF compute, Merge!compute, Merge!NoMetrics
  <2> QED BY <1>6, <2>1, <2>2, <2>3, FS_EmptySet DEF mine
<1>9. CASE store[w] # <<>>
  <2>1. compute(w) = Merge!aggregate_from_store(store[w])
    BY <1>9 DEF compute, Merge!compute
  <2>2. /\ compute(w).total = Len(store[w])
        /\ compute(w).errors = Merge!Failed(store[w])
    BY <2>1 DEF Merge!aggregate_from_store
  <2>3. Merge!Failed(store[w]) = Cardinality({k \in DOMAIN mine : Erred(mine[k])})
    BY <1>7 DEF Merge!Failed, Merge!Cardinality, Cardinality
  <2> QED BY <1>5, <1>6, <2>2, <2>3 DEF mine
<1> QED BY <1>8, <1>9

-----------------------------------------------------------------------------
(* A running worker that shares, or has shared, its requests has its shard  *)
(* in the directory.                                                        *)
Listed(w) == proc[w] = "running" /\ (enabled[w] \/ shared[w] # {}) => w \in dir

AllListed == \A w \in Worker : Listed(w)

LEMMA NextListed == TypeInv /\ Kept /\ AllListed /\ [Next]_vars => AllListed'
<1> SUFFICES ASSUME TypeInv, Kept, AllListed, [Next]_vars PROVE AllListed'
  OBVIOUS
<1>1. /\ at \in [Request -> Worker] /\ enabled \in [Worker -> BOOLEAN]
      /\ proc \in [Worker -> {"running", "taken", "free"}] /\ dir \subseteq Worker
      /\ shared \in [Worker -> SUBSET Request] /\ \A w \in Worker : Listed(w)
  BY DEF TypeInv, HTTP!MiddlewareTypeOK, Agg!IType, Agg!AggregatorTypeOK, OsType, Kept, HistType,
     AllListed
<1>2. CASE UNCHANGED <<proc, enabled, shared>> /\ (dir' = dir \/ dir' = Merging)
  BY <1>1, <1>2 DEF Merging, pid_alive, Listed, AllListed
<1>3. ASSUME NEW r \in Request, begin(r) \/ metrics_text(r) \/ \E o : handle(r, o)
      PROVE  AllListed'
  BY <1>2, <1>3 DEF begin, metrics_text, merge, handle, stats, os, hist
<1>4. ASSUME NEW r \in Request, NEW req \in Requests, record_request(r, req)
      PROVE  AllListed'
  <2>1. /\ proc' = proc /\ dir' = dir /\ enabled' = enabled
        /\ shared' = [shared EXCEPT ![at[r]] = IF enabled[at[r]] THEN @ \cup {r} ELSE @]
    BY <1>4 DEF record_request, Stats!record, os
  <2> QED BY <1>1, <2>1 DEF Listed, AllListed
<1>5. ASSUME NEW w \in Worker, aggregate(w) \/ clear_requests(w)
      PROVE  AllListed'
  BY <1>2, <1>5 DEF aggregate, merge, clear_requests, Stats!clear, stats, os, hist
<1>6. ASSUME NEW w \in Worker, NEW on \in BOOLEAN, set_multiproc_dir(w, on)
      PROVE  AllListed'
  <2>1. /\ proc' = proc /\ shared' = shared /\ enabled' = [enabled EXCEPT ![w] = on]
        /\ dir' = IF on THEN dir \cup {w} ELSE dir
    BY <1>6 DEF set_multiproc_dir, Stats!set_dir
  <2> QED BY <1>1, <2>1 DEF Listed, AllListed
<1>7. ASSUME NEW w \in Worker, kill(w) \/ leave(w) \/ take(w)
      PROVE  AllListed'
  <2>1. /\ dir' = dir /\ shared' = shared
        /\ enabled' = enabled \/ enabled' = [enabled EXCEPT ![w] = FALSE]
        /\ \/ proc' = [proc EXCEPT ![w] = "taken"] \/ proc' = [proc EXCEPT ![w] = "free"]
    BY <1>7 DEF kill, leave, take, stats, hist
  <2> QED BY <1>1, <2>1 DEF Listed, AllListed
<1>8. CASE UNCHANGED vars
  BY <1>2, <1>8 DEF vars, stats, os, hist
<1> QED BY <1>3, <1>4, <1>5, <1>6, <1>7, <1>8 DEF Next

LEMMA ListedInvariant == Spec => [](TypeInv /\ Kept /\ AllListed)
<1>1. Init => AllListed
  BY DEF Init, Stats!Init, Listed, AllListed
<1> QED BY <1>1, InitTypes, InitKept, NextTypes, NextKept, NextListed, PTL DEF Spec

(* Whatever requests pass, fail, are cancelled or interleave, whatever is   *)
(* cleared or switched, and whoever dies, is reaped or has its pid given to *)
(* another program: what a running worker reports is what clients have been *)
(* answered.                                                                *)
THEOREM ReportsAreServed == Spec => []ReportsWhatWasServed
<1>1. ASSUME TypeInv, Kept, AllListed PROVE ReportsWhatWasServed
  <2> DEFINE ours == SharedBy({v \in Worker : proc[v] = "running"}
                               \cup {v \in dir : proc[v] = "taken"})
  <2> SUFFICES ASSUME NEW w \in Worker
               PROVE  LET agg  == compute(w)
                          mine == Newest(served[w])
                      IN  IF enabled[w]
                            THEN /\ agg.total = Cardinality(ours)
                                 /\ agg.errors = Cardinality({r \in ours : Erred(r)})
                            ELSE /\ agg.total = Len(mine)
                                 /\ agg.errors = Cardinality({k \in DOMAIN mine : Erred(mine[k])})
                                 /\ \A k \in DOMAIN mine :
                                      Erred(mine[k]) <=> get_requests(w)[k].status >= 400
    BY DEF ReportsWhatWasServed
  <2>1. ours = Ours
    <3>1. /\ proc \in [Worker -> {"running", "taken", "free"}] /\ dir \subseteq Worker
          /\ \A v \in Worker : proc[v] = "running" /\ shared[v] # {} => v \in dir
      BY <1>1 DEF TypeInv, OsType, AllListed, Listed
    <3>2. \A v \in dir : v \in Merging <=> proc[v] \in {"running", "taken"}
      BY <3>1 DEF Merging, pid_alive
    <3>3. ASSUME NEW r PROVE r \in ours <=> r \in Ours
      BY <3>1, <3>2 DEF Ours, SharedBy, Merging
    <3> HIDE DEF ours
    <3>4. ours = UNION {ours} /\ Ours = UNION {Ours}
      OBVIOUS
    <3> QED BY <3>3, <3>4
  <2>2. CASE enabled[w]
    BY <1>1, <2>1, <2>2, SharedTotals DEF Ours, Failing, FailedOf
  <2>3. CASE ~enabled[w]
    BY <1>1, <2>3, OwnTotals DEF get_requests
  <2> QED BY <2>2, <2>3
<1> QED BY <1>1, ListedInvariant, PTL

-----------------------------------------------------------------------------
(* The counters of pages rendered from the shards.                          *)
CountersOf(pg) == <<pg.text.rpy_requests_total, pg.text.rpy_errors_total>>

(* The last such page says no more than what was shared by the workers a    *)
(* merge would read now and those whose pid has become free since.          *)
Present == Merging \cup freed

PageBelow ==
  page.shared =>
    /\ CountersOf(page) \in Nat \X Nat
    /\ CountersOf(page)[1] <= Cardinality(SharedBy(Present))
    /\ CountersOf(page)[2] <= Cardinality(FailedOf(Present))

LEMMA PresentGrow ==
  ASSUME TypeInv, Kept, [Next]_vars, TypeInv', Kept',
         Present \subseteq Present', \A w \in Worker : shared[w] \subseteq shared'[w]
  PROVE  /\ Cardinality(SharedBy(Present)) \in Nat /\ Cardinality(SharedBy(Present))' \in Nat
         /\ Cardinality(FailedOf(Present)) \in Nat /\ Cardinality(FailedOf(Present))' \in Nat
         /\ Cardinality(SharedBy(Present)) <= Cardinality(SharedBy(Present))'
         /\ Cardinality(FailedOf(Present)) <= Cardinality(FailedOf(Present))'
<1>1. Present \subseteq Worker /\ Present' \subseteq Worker
  BY DEF Present, Merging, TypeInv, OsType
<1>2. \A q \in SharedBy(Present) : q \in Request /\ phase[q] = "recorded"
  BY <1>1 DEF Kept, HistType, SharedBy, Done
<1>3. \A q \in SharedBy(Present) : Erred(q)' <=> Erred(q)
  BY <1>2, RecordedStays DEF TypeInv, Erred, HTTP!Reply, HTTP!Cancelled
<1>4. SharedBy(Present) \subseteq SharedBy(Present)' /\ SharedBy(Present)' \subseteq Request
  BY <1>1 DEF SharedBy, Kept, HistType
<1>5. /\ FailedOf(Present) \subseteq FailedOf(Present)'
      /\ FailedOf(Present)' \subseteq SharedBy(Present)'
  BY <1>3, <1>4 DEF FailedOf
<1>6. ASSUME NEW S, NEW T, S \subseteq T, T \subseteq Request
      PROVE  /\ Cardinality(S) \in Nat /\ Cardinality(T) \in Nat
             /\ Cardinality(S) <= Cardinality(T)
  BY <1>6, MonitorAssumption, FS_Subset, FS_CardinalityType
<1> QED BY <1>4, <1>5, <1>6

(* A page rendered from the shards says just what a merge reads.            *)
LEMMA PageIs ==
  ASSUME TypeInv, Kept, NEW r \in Request, metrics_text(r), page'.shared
  PROVE  /\ CountersOf(page') = <<Cardinality(Ours), Cardinality(Failing)>>
         /\ Present' = Merging /\ shared' = shared
<1>1. /\ page' = [by |-> at[r], shared |-> enabled[at[r]], text |-> render(compute(at[r]))]
      /\ shared' = shared /\ proc' = proc /\ freed' = {} /\ merge(at[r])
  BY DEF metrics_text
<1>2. PICK w \in Worker : w = at[r]
  BY DEF TypeInv, HTTP!MiddlewareTypeOK
<1>3. enabled[w]
  BY <1>1, <1>2
<1>4. compute(w).total = Cardinality(Ours) /\ compute(w).errors = Cardinality(Failing)
  BY <1>3, SharedTotals
<1>5. Present' = Merging
  BY <1>1, <1>2, <1>3 DEF merge, Present, Merging, pid_alive
<1> QED BY <1>1, <1>2, <1>4, <1>5 DEF CountersOf, render

(* The other steps leave the page alone, and take away nobody who was there *)
(* when it was rendered, or has become free since.                          *)
LEMMA PageStep ==
  ASSUME TypeInv, Kept, [Next]_vars
  PROVE  \/ \E r \in Request : metrics_text(r)
         \/ /\ page' = page /\ (page.shared => Present \subseteq Present')
            /\ \A w \in Worker : shared[w] \subseteq shared'[w]
<1> DEFINE Same == /\ page' = page /\ (page.shared => Present \subseteq Present')
                   /\ \A w \in Worker : shared[w] \subseteq shared'[w]
<1>0. /\ proc \in [Worker -> {"running", "taken", "free"}] /\ dir \subseteq Worker
      /\ at \in [Request -> Worker]
  BY DEF TypeInv, OsType, HTTP!MiddlewareTypeOK
<1>1. ASSUME NEW r \in Request, begin(r) \/ \E o : handle(r, o)
      PROVE  Same
  BY <1>1 DEF begin, handle, os, hist, Present, Merging, pid_alive
<1>2. ASSUME NEW r \in Request, NEW req \in Requests, record_request(r, req)
      PROVE  Same
  BY <1>0, <1>2 DEF record_request, os, Kept, HistType, Present, Merging, pid_alive
<1>3. ASSUME NEW w \in Worker, clear_requests(w) \/ \E on \in BOOLEAN : set_multiproc_dir(w, on)
      PROVE  Same
  BY <1>3 DEF clear_requests, set_multiproc_dir, os, Present, Merging, pid_alive
<1>4. ASSUME NEW w \in Worker, aggregate(w)
      PROVE  Same
  BY <1>4 DEF aggregate, merge, hist, Present, Merging, pid_alive
<1>5. ASSUME NEW w \in Worker, kill(w) \/ leave(w) \/ take(w)
      PROVE  Same
  BY <1>0, <1>5 DEF kill, leave, take, hist, Present, Merging, pid_alive
<1>6. CASE UNCHANGED vars
  BY <1>6 DEF vars, os, hist, Present, Merging, pid_alive
<1> HIDE DEF Same
<1>7. CASE Next
  BY <1>1, <1>2, <1>3, <1>4, <1>5, <1>7 DEF Next, Same
<1> QED BY <1>6, <1>7 DEF Same

LEMMA NextPageBelow ==
  TypeInv /\ Kept /\ PageBelow /\ [Next]_vars /\ TypeInv' /\ Kept' => PageBelow'
<1> SUFFICES ASSUME TypeInv, Kept, PageBelow, [Next]_vars, TypeInv', Kept',
                    page'.shared
             PROVE  /\ CountersOf(page') \in Nat \X Nat
                    /\ CountersOf(page')[1] <= Cardinality(SharedBy(Present))'
                    /\ CountersOf(page')[2] <= Cardinality(FailedOf(Present))'
  BY DEF PageBelow, CountersOf
<1>1. ASSUME NEW r \in Request, metrics_text(r)
      PROVE  /\ CountersOf(page') \in Nat \X Nat
             /\ CountersOf(page')[1] <= Cardinality(SharedBy(Present))'
             /\ CountersOf(page')[2] <= Cardinality(FailedOf(Present))'
  <2>1. CountersOf(page') = <<Cardinality(Ours), Cardinality(Failing)>>
    BY <1>1, PageIs
  <2>2. Present' = Merging /\ shared' = shared
    BY <1>1, PageIs
  <2>3. SharedBy(Present)' = Ours
    BY <2>2 DEF SharedBy, Ours
  <2>4. \A q \in Ours : q \in Request /\ phase[q] = "recorded"
    BY DEF TypeInv, OsType, Merging, Kept, HistType, Ours, SharedBy, Done
  <2>5. \A q \in Ours : Erred(q)' <=> Erred(q)
    BY <2>4, RecordedStays DEF TypeInv, Erred, HTTP!Reply, HTTP!Cancelled
  <2>6. FailedOf(Present)' = Failing
    BY <2>3, <2>5 DEF FailedOf, Failing, Ours
  <2>7. Cardinality(Ours) \in Nat /\ Cardinality(Failing) \in Nat
    BY SharedFinite DEF TypeInv, OsType, Merging, Kept, Ours, Failing
  <2> QED BY <2>1, <2>3, <2>6, <2>7
<1>2. CASE /\ page' = page /\ (page.shared => Present \subseteq Present')
           /\ \A w \in Worker : shared[w] \subseteq shared'[w]
  <2>1. /\ CountersOf(page) \in Nat \X Nat
        /\ CountersOf(page)[1] <= Cardinality(SharedBy(Present))
        /\ CountersOf(page)[2] <= Cardinality(FailedOf(Present))
    BY <1>2 DEF PageBelow
  <2>2. CountersOf(page') = CountersOf(page)
    BY <1>2
  <2>3. CountersOf(page)[1] \in Nat /\ CountersOf(page)[2] \in Nat
    BY <2>1
  <2> QED BY <1>2, <2>1, <2>2, <2>3, PresentGrow
<1> QED BY <1>1, <1>2, PageStep

LEMMA PageInvariant == Spec => [](TypeInv /\ Kept /\ PageBelow)
<1>1. Init => PageBelow
  BY DEF Init, PageBelow, NoPage
<1>2. TypeInv /\ Kept /\ PageBelow /\ [Next]_vars => (TypeInv /\ Kept /\ PageBelow)'
  BY NextTypes, NextKept, NextPageBelow
<1> QED BY <1>1, <1>2, InitTypes, InitKept, PTL DEF Spec

(* In multiproc mode the counters of the page fall from one scrape to the   *)
(* next only when a dead worker's pid has become free, and by no more than  *)
(* what that worker had shared: not by its death, nor by clearing, switching*)
(* the mode, or asking another worker.                                      *)
THEOREM SharedFallsAccountedFor == Spec => SharedCountersRise
<1> DEFINE Rises == page' # page /\ page.shared /\ page'.shared =>
                      /\ Missing <= Cardinality(SharedBy(freed))
                      /\ MissingErrors <= Cardinality({r \in SharedBy(freed) : Erred(r)})
<1>1. ASSUME TypeInv, Kept, PageBelow, [Next]_vars
      PROVE  Rises
  <2> SUFFICES ASSUME page' # page, page.shared, page'.shared
               PROVE  /\ Missing <= Cardinality(SharedBy(freed))
                      /\ MissingErrors <= Cardinality(FailedOf(freed))
    BY DEF FailedOf
  <2>1. PICK r \in Request : metrics_text(r)
    BY <1>1, PageStep
  <2>2. CountersOf(page') = <<Cardinality(Ours), Cardinality(Failing)>>
    BY <1>1, <2>1, PageIs
  <2>3. /\ CountersOf(page) \in Nat \X Nat
        /\ CountersOf(page)[1] <= Cardinality(SharedBy(Present))
        /\ CountersOf(page)[2] <= Cardinality(FailedOf(Present))
    BY <1>1 DEF PageBelow
  <2>4. /\ Merging \subseteq Worker /\ freed \subseteq Worker /\ HistType
    BY <1>1 DEF TypeInv, OsType, Merging, Kept
  <2>5. /\ SharedBy(Present) = Ours \cup SharedBy(freed)
        /\ FailedOf(Present) = Failing \cup FailedOf(freed)
    <3>1. SharedBy(Present) = Ours \cup SharedBy(freed)
      BY DEF Present, Ours, SharedBy
    <3> QED BY <3>1 DEF FailedOf, Failing, Ours
  <2>6. ASSUME NEW S, NEW T, IsFiniteSet(S), IsFiniteSet(T)
        PROVE  /\ Cardinality(S) \in Nat /\ Cardinality(T) \in Nat
               /\ Cardinality(S \cup T) \in Nat
               /\ Cardinality(S \cup T) <= Cardinality(S) + Cardinality(T)
    <3>1. /\ IsFiniteSet(S \cup T) /\ IsFiniteSet(S \cap T)
          /\ Cardinality(S \cup T) = Cardinality(S) + Cardinality(T) - Cardinality(S \cap T)
      BY <2>6, FS_Union, FS_Intersection
    <3> QED BY <2>6, <3>1, FS_CardinalityType
  <2>7. /\ IsFiniteSet(Ours) /\ IsFiniteSet(Failing)
        /\ IsFiniteSet(SharedBy(freed)) /\ IsFiniteSet(FailedOf(freed))
    BY <2>4, SharedFinite DEF Ours, Failing
  <2>8. Missing <= Cardinality(SharedBy(freed))
    <3>1. PICK S, T : S = Ours /\ T = SharedBy(freed)
      OBVIOUS
    <3>2. Missing = CountersOf(page)[1] - Cardinality(S)
      BY <2>2, <3>1 DEF Missing, CountersOf
    <3>3. CountersOf(page)[1] \in Nat /\ CountersOf(page)[1] <= Cardinality(S \cup T)
      BY <2>3, <2>5, <3>1
    <3> QED BY <2>6, <2>7, <3>1, <3>2, <3>3
  <2>9. MissingErrors <= Cardinality(FailedOf(freed))
    <3>1. PICK S, T : S = Failing /\ T = FailedOf(freed)
      OBVIOUS
    <3>2. MissingErrors = CountersOf(page)[2] - Cardinality(S)
      BY <2>2, <3>1 DEF MissingErrors, CountersOf
    <3>3. CountersOf(page)[2] \in Nat /\ CountersOf(page)[2] <= Cardinality(S \cup T)
      BY <2>3, <2>5, <3>1
    <3> QED BY <2>6, <2>7, <3>1, <3>2, <3>3
  <2> QED BY <2>8, <2>9
<1>2. TypeInv /\ Kept /\ PageBelow /\ [Next]_vars => [Rises]_vars
  BY <1>1
<1> QED BY <1>2, PageInvariant, PTL DEF Spec, SharedCountersRise
=============================================================================
