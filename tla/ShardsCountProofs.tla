------------------------- MODULE ShardsCountProofs -------------------------
(***************************************************************************)
(* Proofs about what the counters of the shards say, and what a scrape     *)
(* makes of them.                                                          *)
(***************************************************************************)
EXTENDS ShardsProofs

-----------------------------------------------------------------------------
(* What a step does to the counters: nothing, or it begins a record(), or   *)
(* it is one of its additions, or it cuts one off.                          *)
Keeps(q) == pc'[q] = pc[q] /\ writer'[q] = writer[q] /\ todo'[q] = todo[q] /\ call'[q] = call[q]

Quiet ==
  /\ \A i \in Ino, s \in Counters : file'[i][s] = file[i][s]
  /\ UNCHANGED <<begun, done, own>>
  /\ \A q \in Pid : pc[q] = "record" \/ pc'[q] = "record" => Keeps(q)

Begins(p, c, i) ==
  /\ proc[p] = "running" /\ pc[p] # "record" /\ c.op = "record"
  /\ Proceed(p, c, i)
  /\ \A j \in Ino, s \in Counters : file'[j][s] = file[j][s]

LEMMA ProceedCounts ==
  ASSUME TypeOK, NEW p \in Pid, NEW c \in Call, NEW i \in Ino, Proceed(p, c, i),
         proc[p] = "running", pc[p] # "record",
         \A j \in Ino, s \in Counters : file'[j][s] = file[j][s]
  PROVE  Quiet \/ Begins(p, c, i)
<1>1. CASE c.op = "record"
  BY <1>1 DEF Begins
<1>2. CASE c.op # "record"
  BY <1>2 DEF Proceed, Quiet, Keeps, TypeOK
<1> QED BY <1>1, <1>2

LEMMA CountingStep ==
  ASSUME IType, Headed, [Next]_vars
  PROVE  \/ Quiet
         \/ \E p \in Pid, c \in Call, i \in Ino : Begins(p, c, i)
         \/ \E p \in Pid : AddToShard(p) \/ Crash(p)
<1> USE DEF os, disk, state, ctl, hist
<1>0. TypeOK /\ Control
  BY DEF IType
<1>1. CASE UNCHANGED vars
  BY <1>1 DEF vars, Quiet, Keeps
<1>2. ASSUME NEW p \in Pid, Start(p) \/ StartForeign(p) \/ Reap(p) \/ Disable(p) \/ Degrade(p)
      PROVE  Quiet
  BY <1>0, <1>2 DEF Start, StartForeign, Spawn, Reap, Disable, Degrade, Quiet, Keeps, TypeOK
<1>3. ASSUME NEW p \in Pid, NEW q \in Pid, Fork(q, p)
      PROVE  Quiet
  <2>1. pc[p] = "idle"
    BY <1>0, <1>3 DEF Fork, Spawn, Control
  <2> QED BY <1>0, <1>3, <2>1 DEF Fork, Quiet, Keeps, TypeOK
<1>4. ASSUME NEW p \in Pid, NEW c \in Call, Invoke(p, c)
      PROVE  Quiet \/ \E i \in Ino : Begins(p, c, i)
  <2>1. CASE c.op = "set_dir" \/ mode[p] = "uninit"
    BY <1>0, <1>4, <2>1 DEF Invoke, Quiet, Keeps, TypeOK
  <2>2. CASE ~(c.op = "set_dir" \/ mode[p] = "uninit")
    <3>1. mode[p] = "enabled" /\ Proceed(p, c, writer[p]) /\ proc[p] = "running"
          /\ pc[p] = "idle" /\ UNCHANGED disk
      BY <1>4, <2>2 DEF Invoke
    <3>2. writer[p] \in Ino
      BY <1>0, <3>1 DEF Control
    <3> QED BY <1>0, <3>1, <3>2, ProceedCounts
  <2> QED BY <2>1, <2>2
<1>5. ASSUME NEW p \in Pid, Open(p)
      PROVE  Quiet \/ \E c \in Call, i \in Ino : Begins(p, c, i)
  <2>1. \A j \in Ino, s \in Counters : file'[j][s] = file[j][s]
    BY <1>5, OpenFile
  <2>2. pc[p] = "open" /\ proc[p] = "running" /\ call[p] \in Call
    BY <1>0, <1>5 DEF Open, Control, TypeOK
  <2> DEFINE k == IF dir[p] = 0 THEN gen[p] + 1 ELSE dir[p]
             i == <<p, k>>
  <2>3. i \in Ino
    <3>1. k <= MaxGen
      BY <1>0, <1>5, BoundAssumption DEF Open, Create, shard_name, TypeOK
    <3> QED BY <1>0, <3>1, BoundAssumption DEF TypeOK, Ino
  <2>4. CASE Same(p, i)
    <3>1. Proceed(p, call[p], i)
      BY <1>5, <2>4 DEF Open, shard_name
    <3> HIDE DEF i
    <3> QED BY <1>0, <2>1, <2>2, <2>3, <3>1, ProceedCounts
  <2>5. CASE ~Same(p, i)
    <3>1. /\ writer' = [writer EXCEPT ![p] = i]
          /\ pc' = [pc EXCEPT ![p] = "header"]
          /\ todo' = [todo EXCEPT ![p] = HeaderSlots]
          /\ UNCHANGED <<call, hist>>
      BY <1>5, <2>5 DEF Open, shard_name
    <3> HIDE DEF i
    <3> QED BY <1>0, <2>1, <2>2, <3>1 DEF Quiet, Keeps, TypeOK
  <2> QED BY <2>4, <2>5
<1>6. ASSUME NEW p \in Pid, StoreHeader(p)
      PROVE  Quiet \/ \E c \in Call, i \in Ino : Begins(p, c, i)
  <2>1. PICK s \in Due(p) :
          /\ file' = [file EXCEPT ![writer[p]][s] = Header(p, s)]
          /\ IF todo[p] = {s}
               THEN Proceed(p, call[p], writer[p])
               ELSE /\ todo' = [todo EXCEPT ![p] = @ \ {s}]
                    /\ UNCHANGED <<state, pc, call, hist>>
    BY <1>6 DEF StoreHeader
  <2>2. pc[p] = "header" /\ proc[p] = "running" /\ call[p] \in Call /\ writer[p] \in Ino
    BY <1>0, <1>6 DEF StoreHeader, Control, TypeOK
  <2>3. \A j \in Ino, t \in Counters : file'[j][t] = file[j][t]
    BY <2>1, <2>2, HeaderFile
  <2>4. CASE todo[p] = {s}
    BY <1>0, <2>1, <2>2, <2>3, <2>4, ProceedCounts
  <2>5. CASE todo[p] # {s}
    BY <1>0, <2>1, <2>2, <2>3, <2>5 DEF Quiet, Keeps, TypeOK
  <2> QED BY <2>4, <2>5
<1>7. ASSUME NEW p \in Pid,
             CheckVersion(p) \/ CheckOwner(p) \/ Unlink(p) \/ ReadSlot(p) \/ Return(p)
      PROVE  Quiet
  <2>1. /\ pc[p] # "record" /\ pc'[p] # "record"
        /\ \A q \in Pid \ {p} : Keeps(q)
        /\ UNCHANGED <<file, hist>>
    <3>1. CASE CheckVersion(p) \/ CheckOwner(p) \/ Unlink(p) \/ Return(p)
      BY <1>0, <3>1 DEF CheckVersion, CheckOwner, Unlink, Return, Returning, Move, Keeps, TypeOK
    <3>2. CASE ReadSlot(p)
      <4>1. /\ pc[p] = "read" /\ UNCHANGED <<disk, state, call, hist>>
            /\ \E x \in {"scan", "read"} : pc' = [pc EXCEPT ![p] = x]
            /\ \E x : todo' = [todo EXCEPT ![p] = x]
        BY <3>2 DEF ReadSlot, Move
      <4> QED BY <1>0, <4>1 DEF Keeps, TypeOK
    <3> QED BY <1>7, <3>1, <3>2
  <2> QED BY <2>1 DEF Quiet
<1>8. ASSUME NEW p \in Pid, NEW n \in Pid, NEW ok \in BOOLEAN, ReadDir(p, ok) \/ Visit(p, n, ok)
      PROVE  Quiet
  BY <1>0, <1>8 DEF ReadDir, Visit, Move, Quiet, Keeps, TypeOK
<1> QED
  BY <1>1, <1>2, <1>3, <1>4, <1>5, <1>6, <1>7, <1>8 DEF Next, Working

-----------------------------------------------------------------------------
(* The books of a shard, whoever adds to it: what its counters say, and     *)
(* what the record() calls under way still owe them.                        *)
TotalSlot   == {I_TOTAL}
ErrorSlot   == {I_ERRORS}

Owes(q, i, S) ==
  IF pc[q] = "record" /\ writer[q] = i /\ todo[q] \cap S # {} THEN 1 ELSE 0
Owed(i, S) == SumOf([q \in Pid |-> Owes(q, i, S)], Pid)

Adds(q, i) == IF pc[q] = "record" /\ writer[q] = i THEN 1 ELSE 0
Recorders(i) == SumOf([q \in Pid |-> Adds(q, i)], Pid)

Tally ==
  /\ \A q \in Pid : pc[q] = "record" => todo[q] \subseteq RecordSlots(call[q].req)
  /\ \A i \in Ino :
       LET total   == file[i][I_TOTAL] + Owed(i, TotalSlot)
           buckets == BucketSum(file[i]) + Owed(i, BucketSlots)
           errors  == file[i][I_ERRORS] + Owed(i, ErrorSlot)
       IN  /\ done[i] + Recorders(i) <= total /\ total <= begun[i]
           /\ done[i] + Recorders(i) <= buckets /\ buckets <= begun[i]
           /\ errors <= begun[i]

LEMMA BucketSumIs ==
  ASSUME NEW slots
  PROVE  BucketSum(slots) = SumOf(slots, BucketSlots)
BY DEF BucketSum, SumOf, BucketSlots, MapThenSumSet, MapThenFoldSet

LEMMA BucketSumType ==
  ASSUME NEW slots, \A s \in BucketSlots : slots[s] \in Nat
  PROVE  BucketSum(slots) \in Nat
BY BucketSumIs, BucketSlotsType, SumNat

LEMMA OwesType ==
  ASSUME NEW q \in Pid, NEW i, NEW S
  PROVE  Owes(q, i, S) \in Nat /\ Adds(q, i) \in Nat /\ Owes(q, i, S) <= Adds(q, i)
BY DEF Owes, Adds

LEMMA OwedType ==
  ASSUME NEW i, NEW S
  PROVE  /\ Owed(i, S) \in Nat /\ Recorders(i) \in Nat
         /\ Owed(i, S) <= Recorders(i)
<1> DEFINE f == [q \in Pid |-> Owes(q, i, S)]
           g == [q \in Pid |-> Adds(q, i)]
<1>1. \A q \in Pid : f[q] \in Nat /\ g[q] \in Nat /\ f[q] <= g[q]
  BY OwesType
<1>2. IsFiniteSet(Pid)
  BY PidAssumption
<1>3. \A q \in Pid : f[q] \in Int /\ g[q] \in Int
  BY <1>1
<1> HIDE DEF f, g
<1>4. SumOf(f, Pid) \in Nat /\ SumOf(g, Pid) \in Nat /\ SumOf(f, Pid) <= SumOf(g, Pid)
  BY <1>1, <1>2, <1>3, SumNat, SumMonotone
<1> QED BY <1>4 DEF f, g, Owed, Recorders

(* One process acts.                                                        *)
LEMMA OwedChange ==
  ASSUME NEW p \in Pid, \A q \in Pid \ {p} : Keeps(q), NEW i, NEW S
  PROVE  /\ Owed(i, S)' = Owed(i, S) - Owes(p, i, S) + Owes(p, i, S)'
         /\ Recorders(i)' = Recorders(i) - Adds(p, i) + Adds(p, i)'
<1>0. IsFiniteSet(Pid)
  BY PidAssumption
<1>1. Owed(i, S)' = Owed(i, S) - Owes(p, i, S) + Owes(p, i, S)'
  <2> DEFINE f == [q \in Pid |-> Owes(q, i, S)]
             g == [q \in Pid |-> Owes(q, i, S)']
  <2>1. \A q \in Pid : f[q] \in Int /\ g[q] \in Int /\ (q # p => g[q] = f[q])
    BY DEF Keeps, Owes
  <2>2. f[p] = Owes(p, i, S) /\ g[p] = Owes(p, i, S)'
    OBVIOUS
  <2> HIDE DEF f, g
  <2>3. SumOf(g, Pid) = SumOf(f, Pid) - f[p] + g[p]
    BY <1>0, <2>1, SumChange
  <2>4. SumOf(f, Pid) = Owed(i, S) /\ SumOf(g, Pid) = Owed(i, S)'
    BY DEF f, g, Owed
  <2> QED BY <2>2, <2>3, <2>4
<1>2. Recorders(i)' = Recorders(i) - Adds(p, i) + Adds(p, i)'
  <2> DEFINE f == [q \in Pid |-> Adds(q, i)]
             g == [q \in Pid |-> Adds(q, i)']
  <2>1. \A q \in Pid : f[q] \in Int /\ g[q] \in Int /\ (q # p => g[q] = f[q])
    BY DEF Keeps, Adds
  <2>2. f[p] = Adds(p, i) /\ g[p] = Adds(p, i)'
    OBVIOUS
  <2> HIDE DEF f, g
  <2>3. SumOf(g, Pid) = SumOf(f, Pid) - f[p] + g[p]
    BY <1>0, <2>1, SumChange
  <2>4. SumOf(f, Pid) = Recorders(i) /\ SumOf(g, Pid) = Recorders(i)'
    BY DEF f, g, Recorders
  <2> QED BY <2>2, <2>3, <2>4
<1> QED BY <1>1, <1>2

LEMMA BucketSumSame ==
  ASSUME NEW f, NEW g, \A s \in BucketSlots : f[s] = g[s]
  PROVE  BucketSum(f) = BucketSum(g)
BY BucketSumIs, BucketSlotsType, SumSame

LEMMA ShardType ==
  ASSUME TypeOK, NEW i \in Ino
  PROVE  /\ file[i][I_TOTAL] \in Nat /\ file[i][I_ERRORS] \in Nat
         /\ BucketSum(file[i]) \in Nat
         /\ done[i] \in Nat /\ begun[i] \in Nat
<1>1. \A s \in Slot : file[i][s] \in Nat
  BY DEF TypeOK
<1>2. BucketSum(file[i]) \in Nat
  BY <1>1, BucketSlotsType, BucketSumType
<1> QED BY <1>1, <1>2, CounterSlots DEF TypeOK

(* The entries of process p in the books of shard i, and its calls, agree.  *)
Balanced(p, i) ==
  LET adds    == Adds(p, i)' - Adds(p, i) + done'[i] - done[i]
      total   == file'[i][I_TOTAL] - file[i][I_TOTAL]
                   + Owes(p, i, TotalSlot)' - Owes(p, i, TotalSlot)
      buckets == BucketSum(file'[i]) - BucketSum(file[i])
                   + Owes(p, i, BucketSlots)' - Owes(p, i, BucketSlots)
      errors  == file'[i][I_ERRORS] - file[i][I_ERRORS]
                   + Owes(p, i, ErrorSlot)' - Owes(p, i, ErrorSlot)
      calls   == begun'[i] - begun[i]
  IN  /\ adds <= total /\ total <= calls
      /\ adds <= buckets /\ buckets <= calls
      /\ errors <= calls

(* The books stay right if the entries of the process that acts do.         *)
LEMMA TallyFrame ==
  ASSUME TypeOK, TypeOK', Tally, NEW p \in Pid, \A q \in Pid \ {p} : Keeps(q),
         pc'[p] = "record" => todo'[p] \subseteq RecordSlots(call'[p].req),
         \A i \in Ino : Balanced(p, i)
  PROVE  Tally'
<1>1. ASSUME NEW q \in Pid, pc'[q] = "record"
      PROVE  todo'[q] \subseteq RecordSlots(call'[q].req)
  BY <1>1 DEF Tally, Keeps
<1>2. ASSUME NEW i \in Ino
      PROVE  LET total   == file[i][I_TOTAL] + Owed(i, TotalSlot)
                 buckets == BucketSum(file[i]) + Owed(i, BucketSlots)
                 errors  == file[i][I_ERRORS] + Owed(i, ErrorSlot)
             IN  (/\ done[i] + Recorders(i) <= total /\ total <= begun[i]
                  /\ done[i] + Recorders(i) <= buckets /\ buckets <= begun[i]
                  /\ errors <= begun[i])'
  <2>1. /\ file[i][I_TOTAL] \in Nat /\ file[i][I_ERRORS] \in Nat
        /\ BucketSum(file[i]) \in Nat /\ done[i] \in Nat /\ begun[i] \in Nat
    BY ShardType
  <2>2. /\ file'[i][I_TOTAL] \in Nat /\ file'[i][I_ERRORS] \in Nat
        /\ BucketSum(file'[i]) \in Nat /\ done'[i] \in Nat /\ begun'[i] \in Nat
    <3>1. \A s \in Slot : file'[i][s] \in Nat
      BY DEF TypeOK
    <3>2. BucketSum(file'[i]) \in Nat
      BY <3>1, BucketSlotsType, BucketSumType
    <3> QED BY <3>1, <3>2, CounterSlots DEF TypeOK
  <2>3. ASSUME NEW S
        PROVE  /\ Owes(p, i, S) \in Nat /\ Owes(p, i, S)' \in Nat /\ Owed(i, S) \in Nat
               /\ Owed(i, S)' = Owed(i, S) - Owes(p, i, S) + Owes(p, i, S)'
    BY OwedType, OwedChange DEF Owes
  <2>4. /\ Adds(p, i) \in Nat /\ Adds(p, i)' \in Nat /\ Recorders(i) \in Nat
        /\ Recorders(i)' = Recorders(i) - Adds(p, i) + Adds(p, i)'
    BY OwedType, OwedChange DEF Adds
  <2>5. /\ done[i] + Recorders(i) <= file[i][I_TOTAL] + Owed(i, TotalSlot)
        /\ file[i][I_TOTAL] + Owed(i, TotalSlot) <= begun[i]
        /\ done[i] + Recorders(i) <= BucketSum(file[i]) + Owed(i, BucketSlots)
        /\ BucketSum(file[i]) + Owed(i, BucketSlots) <= begun[i]
        /\ file[i][I_ERRORS] + Owed(i, ErrorSlot) <= begun[i]
    BY DEF Tally
  <2>6. ASSUME NEW S, NEW before \in Nat, NEW after \in Nat,
               /\ done[i] + Recorders(i) <= before + Owed(i, S)
               /\ before + Owed(i, S) <= begun[i],
               /\ Adds(p, i)' - Adds(p, i) + done'[i] - done[i]
                    <= after - before + Owes(p, i, S)' - Owes(p, i, S)
               /\ after - before + Owes(p, i, S)' - Owes(p, i, S) <= begun'[i] - begun[i]
        PROVE  /\ done'[i] + Recorders(i)' <= after + Owed(i, S)'
               /\ after + Owed(i, S)' <= begun'[i]
    <3>1. /\ Owes(p, i, S) \in Nat /\ Owes(p, i, S)' \in Nat /\ Owed(i, S) \in Nat
          /\ Owed(i, S)' = Owed(i, S) - Owes(p, i, S) + Owes(p, i, S)'
      BY <2>3
    <3> QED BY <2>1, <2>2, <2>4, <2>6, <3>1
  <2>7. /\ done'[i] + Recorders(i)' <= file'[i][I_TOTAL] + Owed(i, TotalSlot)'
        /\ file'[i][I_TOTAL] + Owed(i, TotalSlot)' <= begun'[i]
    BY <2>1, <2>2, <2>5, <2>6 DEF Balanced
  <2>9. /\ done'[i] + Recorders(i)' <= BucketSum(file'[i]) + Owed(i, BucketSlots)'
        /\ BucketSum(file'[i]) + Owed(i, BucketSlots)' <= begun'[i]
    BY <2>1, <2>2, <2>5, <2>6 DEF Balanced
  <2>8. file'[i][I_ERRORS] + Owed(i, ErrorSlot)' <= begun'[i]
    <3> DEFINE S == ErrorSlot
    <3>1. /\ Owes(p, i, S) \in Nat /\ Owes(p, i, S)' \in Nat /\ Owed(i, S) \in Nat
          /\ Owed(i, S)' = Owed(i, S) - Owes(p, i, S) + Owes(p, i, S)'
      BY <2>3
    <3>2. file'[i][I_ERRORS] - file[i][I_ERRORS] + Owes(p, i, S)' - Owes(p, i, S)
            <= begun'[i] - begun[i]
      BY DEF Balanced
    <3> HIDE DEF S
    <3>3. file[i][I_ERRORS] + Owed(i, S) <= begun[i]
      BY <2>5 DEF S
    <3>4. file'[i][I_ERRORS] + Owed(i, S)' <= begun'[i]
      BY <2>1, <2>2, <3>1, <3>2, <3>3
    <3> QED BY <3>4 DEF S
  <2> QED BY <2>7, <2>8, <2>9
<1> QED BY <1>1, <1>2 DEF Tally

LEMMA QuietTally ==
  ASSUME TypeOK, Tally, Quiet
  PROVE  Tally'
<1>1. \A q \in Pid : \A i, S : Owes(q, i, S)' = Owes(q, i, S) /\ Adds(q, i)' = Adds(q, i)
  BY DEF Quiet, Keeps, Owes, Adds
<1>2. \A i, S : Owed(i, S)' = Owed(i, S) /\ Recorders(i)' = Recorders(i)
  BY <1>1, PidAssumption, SumSame DEF Owed, Recorders
<1>3. \A i \in Ino : /\ file'[i][I_TOTAL] = file[i][I_TOTAL]
                     /\ file'[i][I_ERRORS] = file[i][I_ERRORS]
                     /\ BucketSum(file'[i]) = BucketSum(file[i])
  BY BucketSlotsType, BucketSumSame, CounterSlots DEF Quiet
<1>4. \A q \in Pid : pc'[q] = "record" => todo'[q] \subseteq RecordSlots(call'[q].req)
  BY DEF Quiet, Keeps, Tally
<1>5. begun' = begun /\ done' = done
  BY DEF Quiet
<1> QED BY <1>2, <1>3, <1>4, <1>5 DEF Tally

LEMMA BeginsKeeps ==
  ASSUME TypeOK, NEW p \in Pid, NEW c \in Call, NEW i \in Ino, Begins(p, c, i)
  PROVE  /\ \A q \in Pid \ {p} : Keeps(q)
         /\ pc[p] # "record" /\ pc'[p] = "record" /\ writer'[p] = i
         /\ call'[p] = c /\ todo'[p] = RecordSlots(c.req)
         /\ begun' = [begun EXCEPT ![i] = @ + 1] /\ own' = [own EXCEPT ![p] = @ + 1]
         /\ done' = done /\ c.req \in Requests
BY CallType DEF Begins, Proceed, Keeps, TypeOK

LEMMA BeginsTally ==
  ASSUME TypeOK, TypeOK', Tally, NEW p \in Pid, NEW c \in Call, NEW i \in Ino, Begins(p, c, i)
  PROVE  Tally'
<1>1. /\ \A q \in Pid \ {p} : Keeps(q)
      /\ pc[p] # "record" /\ pc'[p] = "record" /\ writer'[p] = i
      /\ call'[p] = c /\ todo'[p] = RecordSlots(c.req)
      /\ begun' = [begun EXCEPT ![i] = @ + 1] /\ done' = done /\ c.req \in Requests
  BY BeginsKeeps
<1>2. I_TOTAL \in RecordSlots(c.req) /\ RecordSlots(c.req) \cap BucketSlots # {}
  BY <1>1, RecordSlotsOwed
<1>3. ASSUME NEW j \in Ino
      PROVE  /\ file'[j][I_TOTAL] = file[j][I_TOTAL]
             /\ file'[j][I_ERRORS] = file[j][I_ERRORS]
             /\ BucketSum(file'[j]) = BucketSum(file[j])
             /\ \A S : Owes(p, j, S) = 0 /\ Adds(p, j) = 0
             /\ done'[j] = done[j]
             /\ Adds(p, j)' = (IF j = i THEN 1 ELSE 0)
             /\ begun'[j] = begun[j] + (IF j = i THEN 1 ELSE 0)
             /\ \A S : Owes(p, j, S)' \in 0 .. (IF j = i THEN 1 ELSE 0)
             /\ Owes(p, j, TotalSlot)' = (IF j = i THEN 1 ELSE 0)
             /\ Owes(p, j, BucketSlots)' = (IF j = i THEN 1 ELSE 0)
  <2>1. \A s \in Counters : file'[j][s] = file[j][s]
    BY DEF Begins
  <2>2. BucketSum(file'[j]) = BucketSum(file[j])
    BY <2>1, BucketSlotsType, BucketSumSame
  <2>3. begun'[j] = begun[j] + (IF j = i THEN 1 ELSE 0)
    BY <1>1 DEF TypeOK
  <2>4. \A S : Owes(p, j, S) = 0 /\ Adds(p, j) = 0
    BY <1>1 DEF Owes, Adds
  <2>5. /\ Adds(p, j)' = (IF j = i THEN 1 ELSE 0)
        /\ \A S : Owes(p, j, S)' \in 0 .. (IF j = i THEN 1 ELSE 0)
    BY <1>1 DEF Owes, Adds
  <2>6. /\ Owes(p, j, TotalSlot)' = (IF j = i THEN 1 ELSE 0)
        /\ Owes(p, j, BucketSlots)' = (IF j = i THEN 1 ELSE 0)
    BY <1>1, <1>2 DEF Owes, TotalSlot
  <2> QED BY <1>1, <2>1, <2>2, <2>3, <2>4, <2>5, <2>6, CounterSlots
<1>4. ASSUME NEW j \in Ino
      PROVE  Balanced(p, j)
  <2>1. /\ Owes(p, j, ErrorSlot)' \in 0 .. (IF j = i THEN 1 ELSE 0)
        /\ Owes(p, j, TotalSlot) = 0 /\ Owes(p, j, BucketSlots) = 0 /\ Owes(p, j, ErrorSlot) = 0
    BY <1>3
  <2>2. /\ file[j][I_TOTAL] \in Nat /\ file[j][I_ERRORS] \in Nat
        /\ BucketSum(file[j]) \in Nat /\ done[j] \in Nat /\ begun[j] \in Nat
    BY ShardType
  <2> QED BY <1>3, <2>1, <2>2 DEF Balanced
<1> QED BY <1>1, <1>4, TallyFrame

LEMMA CrashTally ==
  ASSUME TypeOK, TypeOK', Tally, NEW p \in Pid, Crash(p)
  PROVE  Tally'
<1>1. /\ \A q \in Pid \ {p} : Keeps(q)
      /\ pc'[p] = "idle" /\ UNCHANGED <<file, begun, done>>
  BY DEF Crash, Forget, disk, Keeps, TypeOK
<1>2. \A i \in Ino : \A S : Adds(p, i)' = 0 /\ Owes(p, i, S)' = 0
  BY <1>1 DEF Adds, Owes
<1>3. ASSUME NEW i \in Ino
      PROVE  /\ Owes(p, i, TotalSlot) <= Adds(p, i) /\ Owes(p, i, TotalSlot) \in Nat
             /\ Owes(p, i, BucketSlots) <= Adds(p, i) /\ Owes(p, i, BucketSlots) \in Nat
             /\ Owes(p, i, ErrorSlot) \in Nat
             /\ Adds(p, i) \in Nat
  BY OwesType
<1>4. ASSUME NEW i \in Ino
      PROVE  Balanced(p, i)
  <2>1. /\ Owes(p, i, TotalSlot)' = 0 /\ Owes(p, i, BucketSlots)' = 0
        /\ Owes(p, i, ErrorSlot)' = 0 /\ Adds(p, i)' = 0
    BY <1>2
  <2>2. /\ file[i][I_TOTAL] \in Nat /\ file[i][I_ERRORS] \in Nat
        /\ BucketSum(file[i]) \in Nat /\ done[i] \in Nat /\ begun[i] \in Nat
    BY ShardType
  <2> QED BY <1>1, <1>3, <2>1, <2>2 DEF Balanced
<1> QED BY <1>1, <1>4, TallyFrame

(* One addition of a record(), the last of its call or not.                 *)
LEMMA AddIs ==
  ASSUME IType, NEW p \in Pid, AddToShard(p)
  PROVE  \E s \in todo[p] :
           /\ s \in Slot \ {I_VERSION, I_PID} /\ writer[p] \in Ino /\ pc[p] = "record"
           /\ micros(call[p].req.ticks) \in Nat /\ call[p].req \in Requests
           /\ \A t \in Slot :
                file'[writer[p]][t] = IF t = s
                                        THEN Added(s, file[writer[p]][s], micros(call[p].req.ticks))
                                        ELSE file[writer[p]][t]
           /\ \A i \in Ino : i # writer[p] => file'[i] = file[i]
           /\ todo'[p] = todo[p] \ {s} /\ writer' = writer
           /\ IF todo[p] = {s}
                THEN pc'[p] = "idle" /\ done' = [done EXCEPT ![writer[p]] = @ + 1]
                ELSE pc'[p] = "record" /\ call'[p] = call[p] /\ done' = done
           /\ UNCHANGED <<begun, own, proc, mode>>
           /\ \A q \in Pid \ {p} : Keeps(q)
<1> USE DEF state, os
<1>0. TypeOK /\ writer[p] \in Ino /\ call[p].op = "record" /\ pc[p] = "record"
      /\ todo[p] \subseteq Slot \ {I_VERSION, I_PID}
  BY DEF AddToShard, IType, Control
<1>1. PICK s \in Due(p) :
        /\ file' = [file EXCEPT ![writer[p]][s] = Added(s, @, micros(call[p].req.ticks))]
        /\ todo' = [todo EXCEPT ![p] = @ \ {s}]
        /\ IF todo[p] = {s}
             THEN /\ pc' = [pc EXCEPT ![p] = "idle"]
                  /\ call' = [call EXCEPT ![p] = NoCall]
                  /\ done' = [done EXCEPT ![writer[p]] = @ + 1]
             ELSE UNCHANGED <<pc, call, done>>
  BY DEF AddToShard
<1>2. UNCHANGED <<begun, own, proc, mode, writer>>
  BY DEF AddToShard
<1>3. s \in todo[p] /\ s \in Slot \ {I_VERSION, I_PID}
  BY <1>0, <1>1 DEF Due
<1>4. call[p].req \in Requests /\ micros(call[p].req.ticks) \in Nat
  BY <1>0, CallType, RequestAssumption, MicrosType DEF TypeOK
<1>5. /\ \A t \in Slot :
           file'[writer[p]][t] = IF t = s
                                   THEN Added(s, file[writer[p]][s], micros(call[p].req.ticks))
                                   ELSE file[writer[p]][t]
      /\ \A i \in Ino : i # writer[p] => file'[i] = file[i]
  BY <1>0, <1>1, <1>3 DEF TypeOK
<1>6. /\ todo'[p] = todo[p] \ {s}
      /\ IF todo[p] = {s}
           THEN pc'[p] = "idle" /\ done' = [done EXCEPT ![writer[p]] = @ + 1]
           ELSE pc'[p] = "record" /\ call'[p] = call[p] /\ done' = done
  BY <1>0, <1>1 DEF TypeOK
<1>7. \A q \in Pid \ {p} : Keeps(q)
  BY <1>0, <1>1, <1>2 DEF Keeps, TypeOK
<1> QED BY <1>0, <1>2, <1>3, <1>4, <1>5, <1>6, <1>7

(* A slot that is added to is no longer owed.                               *)
LEMMA OwesPaid ==
  ASSUME NEW p \in Pid, NEW s \in todo[p], NEW S, NEW x, todo[p] \cap S \subseteq {x},
         pc[p] = "record", writer'[p] = writer[p], todo'[p] = todo[p] \ {s},
         pc'[p] = "record" \/ todo[p] = {s}
  PROVE  Owes(p, writer[p], S)' = Owes(p, writer[p], S) - (IF s \in S THEN 1 ELSE 0)
<1>1. CASE s \in S
  <2>1. todo[p] \cap S = {s}
    BY <1>1
  <2>2. todo'[p] \cap S = {}
    BY <2>1
  <2> QED BY <1>1, <2>1, <2>2 DEF Owes
<1>2. CASE s \notin S
  <2>1. todo'[p] \cap S = todo[p] \cap S
    BY <1>2
  <2>2. CASE todo[p] = {s}
    BY <1>2, <2>1, <2>2 DEF Owes
  <2>3. CASE todo[p] # {s}
    BY <1>2, <2>1, <2>3 DEF Owes
  <2> QED BY <2>2, <2>3
<1> QED BY <1>1, <1>2

LEMMA AddTally ==
  ASSUME IType, TypeOK', Tally, NEW p \in Pid, AddToShard(p)
  PROVE  Tally'
<1>0. TypeOK
  BY DEF IType
<1> DEFINE us == micros(call[p].req.ticks)
           req == call[p].req
<1>1. PICK s \in todo[p] :
        /\ s \in Slot \ {I_VERSION, I_PID} /\ writer[p] \in Ino /\ pc[p] = "record"
        /\ us \in Nat /\ req \in Requests
        /\ \A t \in Slot : file'[writer[p]][t] = IF t = s THEN Added(s, file[writer[p]][s], us)
                                                          ELSE file[writer[p]][t]
        /\ \A i \in Ino : i # writer[p] => file'[i] = file[i]
        /\ todo'[p] = todo[p] \ {s} /\ writer' = writer
        /\ IF todo[p] = {s}
             THEN pc'[p] = "idle" /\ done' = [done EXCEPT ![writer[p]] = @ + 1]
             ELSE pc'[p] = "record" /\ call'[p] = call[p] /\ done' = done
        /\ UNCHANGED <<begun, own, proc, mode>>
        /\ \A q \in Pid \ {p} : Keeps(q)
  BY AddIs
<1> DEFINE i == writer[p]
           b == I_BUCKETS_START + bucket_index(req.ticks)
<1>2. b \in BucketSlots /\ todo[p] \cap BucketSlots \subseteq {b}
  BY <1>1, RecordSlotsOwed DEF Tally
<1> HIDE DEF us, b
<1>3. /\ Owes(p, i, TotalSlot)' = Owes(p, i, TotalSlot) - (IF s = I_TOTAL THEN 1 ELSE 0)
      /\ Owes(p, i, ErrorSlot)' = Owes(p, i, ErrorSlot) - (IF s = I_ERRORS THEN 1 ELSE 0)
      /\ Owes(p, i, BucketSlots)' = Owes(p, i, BucketSlots) - (IF s \in BucketSlots THEN 1 ELSE 0)
  <2>1. /\ todo[p] \cap TotalSlot \subseteq {I_TOTAL} /\ todo[p] \cap ErrorSlot \subseteq {I_ERRORS}
        /\ (s \in TotalSlot <=> s = I_TOTAL) /\ (s \in ErrorSlot <=> s = I_ERRORS)
    BY DEF TotalSlot, ErrorSlot
  <2>2. pc'[p] = "record" \/ todo[p] = {s}
    BY <1>1
  <2> QED BY <1>1, <1>2, <2>1, <2>2, OwesPaid
<1>4. /\ file'[i][I_TOTAL] = file[i][I_TOTAL] + (IF s = I_TOTAL THEN 1 ELSE 0)
      /\ file'[i][I_ERRORS] = file[i][I_ERRORS] + (IF s = I_ERRORS THEN 1 ELSE 0)
  <2>1. I_TOTAL \in Slot /\ I_ERRORS \in Slot
    BY CounterSlots
  <2> QED BY <1>0, <1>1, <2>1, ShardType DEF Added, I_TOTAL, I_ERRORS, I_SUM_US, I_MIN_US, I_MAX_US
<1>5. BucketSum(file'[i]) = BucketSum(file[i]) + (IF s \in BucketSlots THEN 1 ELSE 0)
  <2> DEFINE f == file[i]
             g == file'[i]
  <2>1. \A t \in BucketSlots : f[t] \in Int /\ g[t] \in Int
    BY <1>0, <1>1, BucketSlotsType DEF TypeOK
  <2>2. CASE s \in BucketSlots
    <3>1. g[s] = f[s] + 1
      BY <1>1, <2>2, BucketSlotsType DEF Added
    <3>2. \A t \in BucketSlots : t # s => g[t] = f[t]
      BY <1>1, BucketSlotsType
    <3> HIDE DEF f, g
    <3>3. SumOf(g, BucketSlots) = SumOf(f, BucketSlots) - f[s] + g[s]
      BY <2>1, <2>2, <3>2, BucketSlotsType, SumChange
    <3>4. SumOf(f, BucketSlots) \in Int
      BY <2>1, BucketSlotsType, SumType
    <3>5. BucketSum(g) = BucketSum(f) + 1
      BY <2>1, <2>2, <3>1, <3>3, <3>4, BucketSumIs
    <3> QED BY <2>2, <3>5 DEF f, g
  <2>3. CASE s \notin BucketSlots
    <3>1. \A t \in BucketSlots : g[t] = f[t]
      BY <1>1, <2>3, BucketSlotsType
    <3>2. BucketSum(g) = BucketSum(f)
      BY <3>1, BucketSumSame
    <3>3. BucketSum(f) \in Nat
      BY <1>0, <1>1, ShardType
    <3> QED BY <2>3, <3>2, <3>3
  <2> QED BY <2>2, <2>3
<1>6. Adds(p, i)' - Adds(p, i) + done'[i] - done[i] = 0 /\ begun' = begun
  <2>1. Adds(p, i) = 1
    BY <1>1 DEF Adds
  <2>2. done[i] \in Nat
    BY <1>0, <1>1, ShardType
  <2>3. CASE todo[p] = {s}
    <3>1. Adds(p, i)' = 0
      BY <1>1, <2>3 DEF Adds
    <3>2. done'[i] = done[i] + 1
      BY <1>0, <1>1, <2>3 DEF TypeOK
    <3> QED BY <1>1, <2>1, <2>2, <3>1, <3>2
  <2>4. CASE todo[p] # {s}
    <3>1. Adds(p, i)' = 1 /\ done'[i] = done[i]
      BY <1>1, <2>4 DEF Adds
    <3> QED BY <1>1, <2>1, <2>2, <3>1
  <2> QED BY <2>3, <2>4
<1>7. Balanced(p, i)
  <2>1. /\ file[i][I_TOTAL] \in Nat /\ file[i][I_ERRORS] \in Nat
        /\ BucketSum(file[i]) \in Nat /\ begun[i] \in Nat
    BY <1>0, <1>1, ShardType
  <2>2. /\ Owes(p, i, TotalSlot) \in Nat /\ Owes(p, i, ErrorSlot) \in Nat
        /\ Owes(p, i, BucketSlots) \in Nat
    BY OwesType
  <2> QED BY <1>3, <1>4, <1>5, <1>6, <2>1, <2>2 DEF Balanced
<1>8. ASSUME NEW j \in Ino, j # i
      PROVE  Balanced(p, j)
  <2>1. file'[j] = file[j] /\ done'[j] = done[j] /\ begun'[j] = begun[j]
    BY <1>0, <1>1, <1>8 DEF TypeOK
  <2>2. /\ Adds(p, j) = 0 /\ Adds(p, j)' = 0
        /\ \A S : Owes(p, j, S) = 0 /\ Owes(p, j, S)' = 0
    BY <1>1, <1>8 DEF Adds, Owes
  <2>3. /\ file[j][I_TOTAL] \in Nat /\ file[j][I_ERRORS] \in Nat
        /\ BucketSum(file[j]) \in Nat /\ done[j] \in Nat /\ begun[j] \in Nat
    BY <1>0, ShardType
  <2>4. BucketSum(file'[j]) = BucketSum(file[j])
    BY <2>1
  <2> QED BY <2>1, <2>2, <2>3, <2>4 DEF Balanced
<1>9. pc'[p] = "record" => todo'[p] \subseteq RecordSlots(call'[p].req)
  BY <1>1 DEF Tally
<1> QED BY <1>0, <1>1, <1>7, <1>8, <1>9, TallyFrame

LEMMA NextTally ==
  ASSUME IType, Headed, Tally, [Next]_vars
  PROVE  Tally'
<1>1. TypeOK /\ TypeOK'
  BY NextType DEF IType
<1> QED BY <1>1, CountingStep, QuietTally, BeginsTally, CrashTally, AddTally

LEMMA InitTally == Init => Tally
<1> SUFFICES ASSUME Init PROVE Tally
  OBVIOUS
<1>1. \A q \in Pid : \A i, S : Owes(q, i, S) = 0 /\ Adds(q, i) = 0
  BY DEF Init, Owes, Adds
<1>2. \A i, S : Owed(i, S) = 0 /\ Recorders(i) = 0
  BY <1>1, PidAssumption, SumZero DEF Owed, Recorders
<1>3. \A i \in Ino, s \in Slot : file[i][s] = 0
  BY DEF Init, ZeroShard
<1>4. \A i \in Ino : BucketSum(file[i]) = 0
  BY <1>3, BucketSumIs, BucketSlotsType, SumZero
<1>5. \A i \in Ino : file[i][I_TOTAL] = 0 /\ file[i][I_ERRORS] = 0
  BY <1>3, CounterSlots
<1>6. /\ \A i \in Ino : done[i] = 0 /\ begun[i] = 0
      /\ \A q \in Pid : pc[q] = "idle"
  BY DEF Init
<1> QED BY <1>2, <1>4, <1>5, <1>6 DEF Tally

(* What the books say of the counters alone.                                *)
LEMMA TallyBounds ==
  ASSUME TypeOK, Tally, NEW i \in Ino
  PROVE  /\ done[i] <= file[i][I_TOTAL] /\ file[i][I_TOTAL] <= begun[i]
         /\ done[i] <= BucketSum(file[i]) /\ BucketSum(file[i]) <= begun[i]
         /\ file[i][I_ERRORS] <= begun[i]
<1>1. /\ file[i][I_TOTAL] \in Nat /\ file[i][I_ERRORS] \in Nat
      /\ BucketSum(file[i]) \in Nat /\ done[i] \in Nat /\ begun[i] \in Nat
  BY ShardType
<1>2. \A S : Owed(i, S) \in Nat /\ Recorders(i) \in Nat /\ Owed(i, S) <= Recorders(i)
  BY OwedType
<1>3. /\ done[i] + Recorders(i) <= file[i][I_TOTAL] + Owed(i, TotalSlot)
      /\ file[i][I_TOTAL] + Owed(i, TotalSlot) <= begun[i]
      /\ done[i] + Recorders(i) <= BucketSum(file[i]) + Owed(i, BucketSlots)
      /\ BucketSum(file[i]) + Owed(i, BucketSlots) <= begun[i]
      /\ file[i][I_ERRORS] + Owed(i, ErrorSlot) <= begun[i]
  BY DEF Tally
<1> QED BY <1>1, <1>2, <1>3

(* The books of the sum: a latency is added once by each call, so the sum   *)
(* lies between that many of the fastest and that many of the slowest kind. *)
SumSlot == {I_SUM_US}

Summed(i)  == done[i] + Recorders(i) - Owed(i, SumSlot)
Charged(i) == begun[i] - Owed(i, SumSlot)

SumTally ==
  \A i \in Ino, lo, hi \in Nat : Bounding(lo, hi) =>
    Summed(i) * lo <= file[i][I_SUM_US] /\ file[i][I_SUM_US] <= Charged(i) * hi

LEMMA SummedType ==
  ASSUME TypeOK, Tally, NEW i \in Ino
  PROVE  /\ Summed(i) \in Nat /\ Charged(i) \in Nat
         /\ done[i] <= Summed(i) /\ Charged(i) <= begun[i]
<1>1. /\ file[i][I_TOTAL] \in Nat /\ done[i] \in Nat /\ begun[i] \in Nat
  BY ShardType
<1>2. \A S : Owed(i, S) \in Nat /\ Recorders(i) \in Nat /\ Owed(i, S) <= Recorders(i)
  BY OwedType
<1>3. /\ done[i] + Recorders(i) <= file[i][I_TOTAL] + Owed(i, TotalSlot)
      /\ file[i][I_TOTAL] + Owed(i, TotalSlot) <= begun[i]
  BY DEF Tally
<1>4. Owed(i, SumSlot) \in Nat /\ Owed(i, TotalSlot) \in Nat /\ Owed(i, SumSlot) <= Recorders(i)
  BY <1>2
<1> QED BY <1>1, <1>2, <1>3, <1>4 DEF Summed, Charged

(* A step leaves the sum of a shard, or adds one latency to it.             *)
SumLeft(i) ==
  /\ file'[i][I_SUM_US] = file[i][I_SUM_US]
  /\ Summed(i)' \in Int /\ Charged(i)' \in Int
  /\ Summed(i)' <= Summed(i) /\ Charged(i)' >= Charged(i)
SumAdded(i) ==
  \E us \in Latencies :
    /\ file'[i][I_SUM_US] = file[i][I_SUM_US] + us
    /\ Summed(i)' = Summed(i) + 1 /\ Charged(i)' = Charged(i) + 1

LEMMA SumOfStep ==
  ASSUME TypeOK, NEW i \in Ino, NEW p \in Pid, \A q \in Pid \ {p} : Keeps(q),
         done'[i] \in Nat, begun'[i] \in Nat
  PROVE  /\ Summed(i)' = Summed(i) + (done'[i] - done[i]) + (Adds(p, i)' - Adds(p, i))
                           - (Owes(p, i, SumSlot)' - Owes(p, i, SumSlot))
         /\ Charged(i)' = Charged(i) + (begun'[i] - begun[i])
                            - (Owes(p, i, SumSlot)' - Owes(p, i, SumSlot))
         /\ Summed(i) \in Int /\ Charged(i) \in Int
         /\ Adds(p, i) \in Nat /\ Owes(p, i, SumSlot) \in Nat
         /\ Adds(p, i)' \in Nat /\ Owes(p, i, SumSlot)' \in Nat
<1>1. /\ Owed(i, SumSlot)' = Owed(i, SumSlot) - Owes(p, i, SumSlot) + Owes(p, i, SumSlot)'
      /\ Recorders(i)' = Recorders(i) - Adds(p, i) + Adds(p, i)'
  BY OwedChange
<1>2. Owed(i, SumSlot) \in Nat /\ Recorders(i) \in Nat
  BY OwedType
<1>3. /\ Adds(p, i) \in Nat /\ Owes(p, i, SumSlot) \in Nat
      /\ Adds(p, i)' \in Nat /\ Owes(p, i, SumSlot)' \in Nat
  BY DEF Adds, Owes
<1>4. done[i] \in Nat /\ begun[i] \in Nat
  BY ShardType
<1>5. /\ Summed(i)' = done'[i] + Recorders(i)' - Owed(i, SumSlot)'
      /\ Charged(i)' = begun'[i] - Owed(i, SumSlot)'
      /\ Summed(i) = done[i] + Recorders(i) - Owed(i, SumSlot)
      /\ Charged(i) = begun[i] - Owed(i, SumSlot)
  BY DEF Summed, Charged
<1> QED BY ONLY <1>1, <1>2, <1>3, <1>4, <1>5, done'[i] \in Nat, begun'[i] \in Nat

LEMMA SumStep ==
  ASSUME IType, IType', Headed, Tally, [Next]_vars, NEW i \in Ino
  PROVE  SumLeft(i) \/ SumAdded(i)
<1>0. /\ TypeOK /\ done[i] \in Nat /\ begun[i] \in Nat
      /\ done'[i] \in Nat /\ begun'[i] \in Nat
      /\ file[i][I_SUM_US] \in Nat /\ I_SUM_US \in Slot /\ I_SUM_US \in Counters
  BY ShardType, CounterSlots DEF IType, TypeOK, Counters
<1>1. CASE Quiet
  <2>1. \A q \in Pid : Owes(q, i, SumSlot)' = Owes(q, i, SumSlot) /\ Adds(q, i)' = Adds(q, i)
    BY <1>1 DEF Quiet, Keeps, Owes, Adds
  <2>2. Owed(i, SumSlot)' = Owed(i, SumSlot) /\ Recorders(i)' = Recorders(i)
    BY <2>1, PidAssumption, SumSame DEF Owed, Recorders
  <2>3. begun' = begun /\ done' = done /\ file'[i][I_SUM_US] = file[i][I_SUM_US]
    BY <1>0, <1>1 DEF Quiet
  <2>4. Summed(i)' = Summed(i) /\ Charged(i)' = Charged(i)
    BY <2>2, <2>3 DEF Summed, Charged
  <2>5. Summed(i) \in Nat /\ Charged(i) \in Nat
    BY <1>0, SummedType
  <2> QED BY <2>3, <2>4, <2>5 DEF SumLeft
<1>2. ASSUME NEW p \in Pid, NEW c \in Call, NEW j \in Ino, Begins(p, c, j)
      PROVE  SumLeft(i)
  <2>1. /\ \A q \in Pid \ {p} : Keeps(q)
        /\ pc[p] # "record" /\ pc'[p] = "record" /\ writer'[p] = j
        /\ todo'[p] = RecordSlots(c.req)
        /\ begun' = [begun EXCEPT ![j] = @ + 1] /\ done' = done
    BY <1>0, <1>2, BeginsKeeps
  <2>2. I_SUM_US \in RecordSlots(c.req)
    BY DEF RecordSlots
  <2>3. /\ Adds(p, i) = 0 /\ Owes(p, i, SumSlot) = 0
        /\ Adds(p, i)' = (IF j = i THEN 1 ELSE 0)
        /\ Owes(p, i, SumSlot)' = (IF j = i THEN 1 ELSE 0)
        /\ begun'[i] = begun[i] + (IF j = i THEN 1 ELSE 0)
    BY <1>0, <2>1, <2>2 DEF Adds, Owes, SumSlot, TypeOK
  <2>4. file'[i][I_SUM_US] = file[i][I_SUM_US]
    BY <1>0, <1>2 DEF Begins
  <2>5. /\ Summed(i)' = Summed(i) + (done'[i] - done[i]) + (Adds(p, i)' - Adds(p, i))
                           - (Owes(p, i, SumSlot)' - Owes(p, i, SumSlot))
        /\ Charged(i)' = Charged(i) + (begun'[i] - begun[i])
                            - (Owes(p, i, SumSlot)' - Owes(p, i, SumSlot))
        /\ Summed(i) \in Int /\ Charged(i) \in Int
    BY <1>0, <2>1, SumOfStep
  <2> QED BY <1>0, <2>1, <2>3, <2>4, <2>5 DEF SumLeft
<1>3. ASSUME NEW p \in Pid, Crash(p)
      PROVE  SumLeft(i)
  <2>1. /\ \A q \in Pid \ {p} : Keeps(q)
        /\ pc'[p] = "idle" /\ UNCHANGED <<file, begun, done>>
    BY <1>0, <1>3 DEF Crash, Forget, disk, Keeps, TypeOK
  <2>2. /\ Adds(p, i)' = 0 /\ Owes(p, i, SumSlot)' = 0
        /\ Owes(p, i, SumSlot) <= Adds(p, i)
    BY <2>1 DEF Adds, Owes
  <2>3. /\ Summed(i)' = Summed(i) + (done'[i] - done[i]) + (Adds(p, i)' - Adds(p, i))
                           - (Owes(p, i, SumSlot)' - Owes(p, i, SumSlot))
        /\ Charged(i)' = Charged(i) + (begun'[i] - begun[i])
                            - (Owes(p, i, SumSlot)' - Owes(p, i, SumSlot))
        /\ Summed(i) \in Int /\ Charged(i) \in Int
        /\ Adds(p, i) \in Nat /\ Owes(p, i, SumSlot) \in Nat
    BY <1>0, <2>1, SumOfStep
  <2> QED BY <1>0, <2>1, <2>2, <2>3 DEF SumLeft
<1>4. ASSUME NEW p \in Pid, AddToShard(p)
      PROVE  SumLeft(i) \/ SumAdded(i)
  <2> DEFINE us == micros(call[p].req.ticks)
  <2>1. PICK s \in todo[p] :
          /\ s \in Slot \ {I_VERSION, I_PID} /\ writer[p] \in Ino /\ pc[p] = "record"
          /\ us \in Nat /\ call[p].req \in Requests
          /\ \A t \in Slot :
               file'[writer[p]][t] = IF t = s THEN Added(s, file[writer[p]][s], us)
                                              ELSE file[writer[p]][t]
          /\ \A j \in Ino : j # writer[p] => file'[j] = file[j]
          /\ todo'[p] = todo[p] \ {s} /\ writer' = writer
          /\ IF todo[p] = {s}
               THEN pc'[p] = "idle" /\ done' = [done EXCEPT ![writer[p]] = @ + 1]
               ELSE pc'[p] = "record" /\ call'[p] = call[p] /\ done' = done
          /\ UNCHANGED <<begun, own, proc, mode>>
          /\ \A q \in Pid \ {p} : Keeps(q)
    BY <1>4, AddIs
  <2>2. us \in Latencies
    BY <2>1 DEF Latencies
  <2> HIDE DEF us
  <2>3. /\ Summed(i)' = Summed(i) + (done'[i] - done[i]) + (Adds(p, i)' - Adds(p, i))
                           - (Owes(p, i, SumSlot)' - Owes(p, i, SumSlot))
        /\ Charged(i)' = Charged(i) + (begun'[i] - begun[i])
                            - (Owes(p, i, SumSlot)' - Owes(p, i, SumSlot))
        /\ Summed(i) \in Int /\ Charged(i) \in Int
        /\ Adds(p, i) \in Nat /\ Owes(p, i, SumSlot) \in Nat
    BY <1>0, <2>1, SumOfStep
  <2>4. CASE i # writer[p]
    <3>1. /\ Adds(p, i) = 0 /\ Adds(p, i)' = 0
          /\ Owes(p, i, SumSlot) = 0 /\ Owes(p, i, SumSlot)' = 0
      BY <2>1, <2>4 DEF Adds, Owes
    <3>2. done'[i] = done[i] /\ begun'[i] = begun[i] /\ file'[i] = file[i]
      BY <1>0, <2>1, <2>4 DEF TypeOK
    <3> QED BY <1>0, <2>3, <3>1, <3>2 DEF SumLeft
  <2>5. CASE i = writer[p]
    <3>1. Owes(p, i, SumSlot)' = Owes(p, i, SumSlot) - (IF s \in SumSlot THEN 1 ELSE 0)
      <4>1. todo[p] \cap SumSlot \subseteq {I_SUM_US}
        BY DEF SumSlot
      <4> QED BY <2>1, <2>5, <4>1, OwesPaid
    <3>2. begun'[i] = begun[i] /\ done'[i] - done[i] + (Adds(p, i)' - Adds(p, i)) = 0
      <4>1. Adds(p, i) = 1 /\ begun' = begun
        BY <2>1, <2>5 DEF Adds
      <4>2. CASE todo[p] = {s}
        <5>1. Adds(p, i)' = 0 /\ done'[i] = done[i] + 1
          BY <1>0, <2>1, <2>5, <4>2 DEF Adds, TypeOK
        <5> QED BY <1>0, <4>1, <5>1
      <4>3. CASE todo[p] # {s}
        <5>1. Adds(p, i)' = 1 /\ done'[i] = done[i]
          BY <2>1, <2>5, <4>3 DEF Adds
        <5> QED BY <1>0, <4>1, <5>1
      <4> QED BY <4>2, <4>3
    <3>3. CASE s = I_SUM_US
      <4>1. file'[i][I_SUM_US] = file[i][I_SUM_US] + us
        BY <1>0, <2>1, <2>5, <3>3 DEF Added, I_SUM_US, I_MIN_US, I_MAX_US
      <4>2. Owes(p, i, SumSlot)' = Owes(p, i, SumSlot) - 1
        BY <3>1, <3>3 DEF SumSlot
      <4>3. Summed(i)' = Summed(i) + 1 /\ Charged(i)' = Charged(i) + 1
        <5>1. Adds(p, i)' \in Nat /\ Owes(p, i, SumSlot)' \in Nat
          BY DEF Adds, Owes
        <5> QED BY <1>0, <2>3, <3>2, <4>2, <5>1
      <4> QED BY <2>2, <4>1, <4>3 DEF SumAdded
    <3>4. CASE s # I_SUM_US
      <4>1. file'[i][I_SUM_US] = file[i][I_SUM_US]
        BY <1>0, <2>1, <2>5, <3>4
      <4>2. Owes(p, i, SumSlot)' = Owes(p, i, SumSlot)
        BY <2>3, <3>1, <3>4 DEF SumSlot
      <4>3. Summed(i)' = Summed(i) /\ Charged(i)' = Charged(i)
        <5>1. Adds(p, i)' \in Nat /\ Owes(p, i, SumSlot)' \in Nat
          BY DEF Adds, Owes
        <5> QED BY <1>0, <2>3, <3>2, <4>2, <5>1
      <4> QED BY <2>3, <4>1, <4>3 DEF SumLeft
    <3> QED BY <3>3, <3>4
  <2> QED BY <2>4, <2>5
<1> QED BY <1>1, <1>2, <1>3, <1>4, CountingStep

LEMMA Products ==
  ASSUME NEW m \in Int, NEW n \in Int, NEW a \in Nat
  PROVE  /\ m * a \in Int /\ (n + 1) * a = n * a + a
         /\ m <= n => m * a <= n * a
<1>1. m * a \in Int /\ (n + 1) * a = n * a + a
  OBVIOUS
<1>2. ASSUME m <= n PROVE m * a <= n * a
  <2>1. PICK k \in Nat : n = m + k
    <3>1. n = m + (n - m) /\ n - m \in Nat
      BY <1>2
    <3> QED BY <3>1
  <2>2. (m + k) * a = m * a + k * a /\ k * a \in Nat /\ m * a \in Int
    OBVIOUS
  <2> DEFINE ma == m * a
             ka == k * a
  <2> HIDE DEF ma, ka
  <2>3. ma <= ma + ka
    BY <2>2 DEF ma, ka
  <2> QED BY <2>1, <2>2, <2>3 DEF ma, ka
<1> QED BY <1>1, <1>2

LEMMA NextSumTally ==
  ASSUME IType, IType', Headed, Tally, SumTally, [Next]_vars
  PROVE  SumTally'
<1> SUFFICES ASSUME NEW i \in Ino, NEW lo \in Nat, NEW hi \in Nat, Bounding(lo, hi)
             PROVE  /\ Summed(i)' * lo <= file'[i][I_SUM_US]
                    /\ file'[i][I_SUM_US] <= Charged(i)' * hi
  BY DEF SumTally, Bounding
<1>1. Summed(i) * lo <= file[i][I_SUM_US] /\ file[i][I_SUM_US] <= Charged(i) * hi
  BY DEF SumTally
<1>2. Summed(i) \in Int /\ Charged(i) \in Int /\ file[i][I_SUM_US] \in Int
  BY SummedType, CounterSlots DEF IType, TypeOK
<1> DEFINE m == Summed(i)
           n == Charged(i)
           s == file[i][I_SUM_US]
<1>3. PICK mm, nn, ss : mm = Summed(i)' /\ nn = Charged(i)' /\ ss = file'[i][I_SUM_US]
  OBVIOUS
<1>4. CASE SumLeft(i)
  <2>1. mm \in Int /\ nn \in Int /\ mm <= m /\ n <= nn /\ ss = s
    BY <1>2, <1>3, <1>4 DEF SumLeft
  <2>2. m * lo <= s /\ s <= n * hi /\ m \in Int /\ n \in Int /\ s \in Int
    BY <1>1, <1>2
  <2> HIDE DEF m, n, s
  <2>3. mm * lo <= m * lo /\ n * hi <= nn * hi
    BY <2>1, <2>2, Products
  <2>4. mm * lo \in Int /\ m * lo \in Int /\ n * hi \in Int /\ nn * hi \in Int
    BY <2>1, <2>2, Products
  <2> DEFINE a == mm * lo
             b == m * lo
             c == n * hi
             d == nn * hi
  <2> HIDE DEF a, b, c, d
  <2>5. a <= ss /\ ss <= d
    BY <2>1, <2>2, <2>3, <2>4 DEF a, b, c, d
  <2> QED BY <1>3, <2>5 DEF a, d
<1>5. CASE SumAdded(i)
  <2>1. PICK us \in Latencies : ss = s + us /\ mm = m + 1 /\ nn = n + 1
    BY <1>3, <1>5 DEF SumAdded
  <2>2. us \in Int /\ lo <= us /\ us <= hi
    BY MicrosType, RequestAssumption DEF Bounding, Latencies
  <2>3. m * lo <= s /\ s <= n * hi /\ m \in Int /\ n \in Int /\ s \in Int
    BY <1>1, <1>2
  <2> HIDE DEF m, n, s
  <2>4. /\ mm * lo = m * lo + lo /\ nn * hi = n * hi + hi
        /\ m * lo \in Int /\ n * hi \in Int
    BY <2>1, <2>3, Products
  <2> DEFINE b == m * lo
             c == n * hi
  <2> HIDE DEF b, c
  <2>5. b + lo <= s + us /\ s + us <= c + hi
    BY <2>2, <2>3, <2>4 DEF b, c
  <2> QED BY <1>3, <2>1, <2>4, <2>5 DEF b, c
<1> QED BY <1>4, <1>5, SumStep

LEMMA InitSumTally == Init => SumTally
<1> SUFFICES ASSUME Init PROVE SumTally
  OBVIOUS
<1>1. \A q \in Pid : \A i, S : Owes(q, i, S) = 0 /\ Adds(q, i) = 0
  BY DEF Init, Owes, Adds
<1>2. \A i, S : Owed(i, S) = 0 /\ Recorders(i) = 0
  BY <1>1, PidAssumption, SumZero DEF Owed, Recorders
<1>3. \A i \in Ino : file[i][I_SUM_US] = 0
  BY CounterSlots DEF Init, ZeroShard
<1>4. \A i \in Ino : Summed(i) = 0 /\ Charged(i) = 0
  BY <1>2 DEF Init, Summed, Charged
<1> QED BY <1>3, <1>4 DEF SumTally

(* What these books say of the sum alone.                                   *)
LEMMA SumBounds ==
  ASSUME TypeOK, Tally, SumTally, NEW i \in Ino, NEW lo \in Nat, NEW hi \in Nat,
         Bounding(lo, hi)
  PROVE  /\ done[i] * lo <= file[i][I_SUM_US] /\ file[i][I_SUM_US] <= begun[i] * hi
         /\ done[i] * lo \in Int /\ begun[i] * hi \in Int /\ file[i][I_SUM_US] \in Nat
<1> DEFINE m == Summed(i)
           n == Charged(i)
           s == file[i][I_SUM_US]
<1>1. /\ m * lo <= s /\ s <= n * hi /\ s \in Nat
      /\ m \in Int /\ n \in Int /\ done[i] <= m /\ n <= begun[i]
      /\ done[i] \in Int /\ begun[i] \in Int
  BY SummedType, CounterSlots, ShardType DEF SumTally, TypeOK
<1> HIDE DEF m, n, s
<1>2. /\ done[i] * lo <= m * lo /\ n * hi <= begun[i] * hi
      /\ done[i] * lo \in Int /\ m * lo \in Int /\ n * hi \in Int /\ begun[i] * hi \in Int
  BY <1>1, Products
<1> DEFINE a == done[i] * lo
           b == m * lo
           c == n * hi
           d == begun[i] * hi
<1> HIDE DEF a, b, c, d
<1>3. a <= s /\ s <= d
  BY <1>1, <1>2 DEF a, b, c, d
<1> QED BY <1>1, <1>2, <1>3 DEF a, d, s

(* Calls that have returned stay so.                                        *)
LEMMA DoneStep ==
  ASSUME IType, Headed, [Next]_vars, NEW i \in Ino
  PROVE  done'[i] >= done[i]
<1>0. TypeOK /\ done[i] \in Nat
  BY ShardType DEF IType
<1>1. CASE Quiet
  BY <1>0, <1>1 DEF Quiet
<1>2. CASE \E p \in Pid, c \in Call, j \in Ino : Begins(p, c, j)
  BY <1>0, <1>2, BeginsKeeps
<1>3. CASE \E p \in Pid : AddToShard(p)
  <2>1. PICK p \in Pid : AddToShard(p)
    BY <1>3
  <2>2. done' = done \/ done' = [done EXCEPT ![writer[p]] = @ + 1]
    BY <2>1, AddIs
  <2> QED BY <1>0, <2>2 DEF TypeOK
<1>4. CASE \E p \in Pid : Crash(p)
  BY <1>0, <1>4 DEF Crash
<1> QED BY <1>1, <1>2, <1>3, <1>4, CountingStep

-----------------------------------------------------------------------------
(* Workers that share no shard: a name is listed by the one process that    *)
(* ever has that pid, and as long as it runs the name leads where it led.   *)

Listed == \A n \in Pid : dir[n] # 0 => n \in used

(* What a step does to a worker and to its name.                            *)
Lives(n) ==
  /\ n \in used => n \in used'
  /\ proc'[n] = "running" =>
       \/ proc[n] = "running" /\ (dir[n] = 0 \/ dir'[n] = dir[n])
       \/ n \notin used /\ proc[n] # "running" /\ dir'[n] = dir[n]
  /\ dir'[n] # dir[n] => dir'[n] = 0 \/ n \in used
  /\ proc'[n] # "running" => (proc[n] # "running" /\ own'[n] = own[n]) \/ own'[n] = 0

LEMMA LivesStep ==
  ASSUME Unshared, IType, Isolation, [Next]_vars, NEW n \in Pid
  PROVE  Lives(n)
<1> USE DEF os, disk, state, ctl, hist
<1>0. TypeOK /\ Control
  BY DEF IType
<1>1. CASE UNCHANGED vars
  BY <1>1 DEF vars, Lives
<1>2. ASSUME NEW p \in Pid, Start(p) \/ StartForeign(p)
      PROVE  Lives(n)
  BY <1>0, <1>2 DEF Start, StartForeign, Spawn, Unshared, TypeOK, Lives
<1>3. ASSUME NEW p \in Pid, Crash(p) \/ Reap(p) \/ Disable(p)
      PROVE  Lives(n)
  BY <1>0, <1>3 DEF Crash, Forget, Reap, Disable, TypeOK, Lives
<1>4. ASSUME NEW p \in Pid, NEW c, NEW i, Proceed(p, c, i), proc[p] = "running",
             UNCHANGED <<proc, used>>,
             \A m \in Pid : dir'[m] # dir[m] => dir[m] = 0 /\ m \in used
      PROVE  Lives(n)
  <2>1. own' = own \/ own' = [own EXCEPT ![p] = @ + 1]
    BY <1>4 DEF Proceed
  <2> QED BY <1>0, <1>4, <2>1 DEF TypeOK, Lives
<1>5. ASSUME NEW p \in Pid, NEW c \in Call, Invoke(p, c)
      PROVE  Lives(n)
  <2>1. UNCHANGED <<proc, used, dir>> /\ proc[p] = "running"
    BY <1>5 DEF Invoke
  <2>2. CASE UNCHANGED own
    BY <2>1, <2>2 DEF Lives
  <2>3. CASE Proceed(p, c, writer[p])
    BY <1>4, <2>1, <2>3
  <2> QED BY <1>5, <2>2, <2>3 DEF Invoke
<1>6. ASSUME NEW p \in Pid, Open(p) \/ Degrade(p)
      PROVE  Lives(n)
  <2>1. /\ UNCHANGED <<proc, used>> /\ proc[p] = "running" /\ p \in used
        /\ \A m \in Pid : dir'[m] # dir[m] => dir[m] = 0 /\ m \in used
    <3>1. UNCHANGED <<proc, used>> /\ proc[p] = "running" /\ p \in used
      BY <1>0, <1>6 DEF Open, Degrade, Control, Isolation
    <3>2. UNCHANGED dir \/ (dir[p] = 0 /\ \E k : dir' = [dir EXCEPT ![p] = k])
      BY <1>6 DEF Open, Degrade, Create, shard_name
    <3> QED BY <1>0, <3>1, <3>2 DEF TypeOK
  <2>2. CASE UNCHANGED own
    BY <2>1, <2>2 DEF Lives
  <2>3. CASE \E i : Proceed(p, call[p], i)
    BY <1>4, <2>1, <2>3
  <2> QED BY <1>6, <2>2, <2>3 DEF Open, Degrade
<1>7. ASSUME NEW p \in Pid, StoreHeader(p)
      PROVE  Lives(n)
  <2>1. UNCHANGED <<proc, used, dir>> /\ proc[p] = "running"
    BY <1>0, <1>7 DEF StoreHeader, Control
  <2>2. CASE UNCHANGED own
    BY <2>1, <2>2 DEF Lives
  <2>3. CASE Proceed(p, call[p], writer[p])
    BY <1>4, <2>1, <2>3
  <2> QED BY <1>7, <2>2, <2>3 DEF StoreHeader
<1>8. ASSUME NEW p \in Pid, Unlink(p)
      PROVE  Lives(n)
  <2>1. /\ dir' = [dir EXCEPT ![scan[p].at[1]] = 0] /\ UNCHANGED <<proc, used, own>>
        /\ proc[scan[p].at[1]] = "free"
    BY <1>8 DEF Unlink, Isolation
  <2> QED BY <1>0, <2>1 DEF TypeOK, Lives
<1>9. ASSUME NEW p \in Pid,
             \/ AddToShard(p) \/ CheckVersion(p) \/ CheckOwner(p) \/ ReadSlot(p) \/ Return(p)
             \/ \E ok \in BOOLEAN : ReadDir(p, ok) \/ \E m \in Pid : Visit(p, m, ok)
      PROVE  Lives(n)
  <2>1. UNCHANGED <<proc, used, dir, own>>
    BY <1>9 DEF AddToShard, CheckVersion, CheckOwner, ReadSlot, Return, ReadDir, Visit
  <2> QED BY <2>1 DEF Lives
<1>10. ASSUME NEW p \in Pid, NEW q \in Pid, Fork(q, p)
       PROVE  FALSE
  BY <1>10 DEF Fork, Unshared
<1> QED
  BY <1>1, <1>2, <1>3, <1>5, <1>6, <1>7, <1>8, <1>9, <1>10 DEF Next, Working

(* The account of each worker: what it recorded is in its shard, but for    *)
(* the request it is recording; the shard of a pid not given out yet, or    *)
(* without a name yet, counts nothing.                                      *)
OwnShard(p) == <<p, dir[p]>>

Account(p) ==
  /\ proc[p] # "running" => own[p] = 0
  /\ proc[p] = "running" =>
       IF dir[p] = 0
         THEN own[p] = 0 /\ \A k \in 1 .. MaxGen : file[<<p, k>>][I_TOTAL] = 0
         ELSE file[OwnShard(p)][I_TOTAL] + Owes(p, OwnShard(p), TotalSlot) = own[p]

Accounts == Listed /\ \A p \in Pid : Account(p)

LEMMA NextListed ==
  ASSUME Unshared, IType, Isolation, Listed, [Next]_vars
  PROVE  Listed'
BY LivesStep DEF Listed, Lives

(* A pid that was never given out has no shard with requests.               *)
LEMMA UnusedEmpty ==
  ASSUME TypeOK, Isolation, Headed, NEW i \in Ino, i[1] \notin used
  PROVE  file[i][I_TOTAL] = 0
<1>1. file[i][I_PID] = 0
  BY DEF Isolation
<1>2. ~Complete(i)
  BY <1>1, InoType DEF Complete
<1> QED BY <1>2, CounterSlots DEF Headed, HeaderFirst, Counters

LEMMA NextAccounts ==
  ASSUME Unshared, IType, IType', Isolation, Isolation', Headed, Tally, Accounts, [Next]_vars
  PROVE  Accounts'
<1>0. TypeOK /\ TypeOK'
  BY DEF IType
<1> SUFFICES ASSUME NEW p \in Pid PROVE Account(p)'
  BY NextListed DEF Accounts
<1>1. Lives(p) /\ Account(p) /\ Listed
  BY LivesStep DEF Accounts
<1>2. proc'[p] # "running" => own'[p] = 0
  BY <1>1 DEF Lives, Account
(* Before the step, in the shard the name leads to after it.                *)
<1>d. PICK g : g = dir'[p]
  OBVIOUS
<1> DEFINE i == <<p, g>>
<1>3. SUFFICES ASSUME proc'[p] = "running"
               PROVE  IF g = 0
                        THEN own'[p] = 0 /\ \A k \in 1 .. MaxGen : file'[<<p, k>>][I_TOTAL] = 0
                        ELSE file'[i][I_TOTAL] + Owes(p, i, TotalSlot)' = own'[p]
  <2>1. OwnShard(p)' = i
    BY <1>d DEF OwnShard
  <2>2. (Owes(p, OwnShard(p), TotalSlot))' = Owes(p, i, TotalSlot)'
    BY <2>1 DEF Owes
  <2> QED BY <1>2, <1>d, <2>1, <2>2 DEF Account
<1>4. \A k \in 1 .. MaxGen : <<p, k>> \in Ino
  BY DEF Ino
<1>5. g # 0 => i \in Ino
  BY <1>0, <1>4, <1>d, BoundAssumption DEF TypeOK
<1>6. /\ g = 0 => own[p] = 0 /\ \A k \in 1 .. MaxGen : file[<<p, k>>][I_TOTAL] = 0
      /\ g # 0 => file[i][I_TOTAL] + Owes(p, i, TotalSlot) = own[p]
  <2>1. CASE p \notin used
    <3>1. dir[p] = 0 /\ g = 0 /\ own[p] = 0
      BY <1>1, <1>3, <1>d, <2>1 DEF Lives, Listed, Account, Isolation
    <3>2. \A k \in 1 .. MaxGen : file[<<p, k>>][I_TOTAL] = 0
      BY <1>0, <1>4, <2>1, UnusedEmpty
    <3> QED BY <3>1, <3>2
  <2>2. CASE p \in used
    <3>1. proc[p] = "running" /\ (dir[p] = 0 \/ g = dir[p])
      BY <1>1, <1>3, <1>d, <2>2 DEF Lives
    <3>2. CASE dir[p] # 0
      BY <1>1, <3>1, <3>2 DEF Account, OwnShard
    <3>3. CASE dir[p] = 0
      <4>1. own[p] = 0 /\ \A k \in 1 .. MaxGen : file[<<p, k>>][I_TOTAL] = 0
        BY <1>1, <3>1, <3>3 DEF Account
      <4>2. writer[p] \notin Ino
        BY <3>3, InoType DEF Isolation
      <4>3. Owes(p, i, TotalSlot) = 0
        BY <4>2 DEF Owes, IType, Control
      <4>4. g # 0 => file[i][I_TOTAL] = 0
        BY <1>0, <1>d, <4>1, BoundAssumption DEF TypeOK
      <4> QED BY <4>1, <4>3, <4>4
    <3> QED BY <3>2, <3>3
  <2> QED BY <2>1, <2>2
<1>7. CASE Quiet
  <2>1. \A j \in Ino : file'[j][I_TOTAL] = file[j][I_TOTAL]
    BY <1>7, CounterSlots DEF Quiet
  <2>2. own'[p] = own[p]
    BY <1>7 DEF Quiet
  <2>3. \A j : Owes(p, j, TotalSlot)' = Owes(p, j, TotalSlot)
    BY <1>7 DEF Quiet, Keeps, Owes
  <2> QED BY <1>4, <1>5, <1>6, <2>1, <2>2, <2>3
<1>8. ASSUME NEW q \in Pid, NEW c \in Call, NEW j \in Ino, Begins(q, c, j)
      PROVE  IF g = 0
               THEN own'[p] = 0 /\ \A k \in 1 .. MaxGen : file'[<<p, k>>][I_TOTAL] = 0
               ELSE file'[i][I_TOTAL] + Owes(p, i, TotalSlot)' = own'[p]
  <2>1. \A l \in Ino : file'[l][I_TOTAL] = file[l][I_TOTAL]
    BY <1>8, CounterSlots DEF Begins
  <2>2. /\ \A m \in Pid \ {q} : Keeps(m)
        /\ pc[q] # "record" /\ pc'[q] = "record" /\ writer'[q] = j
        /\ todo'[q] = RecordSlots(c.req) /\ own' = [own EXCEPT ![q] = @ + 1]
        /\ I_TOTAL \in RecordSlots(c.req)
    BY <1>0, <1>8, BeginsKeeps, RecordSlotsOwed
  <2>3. CASE p # q
    <3>1. own'[p] = own[p] /\ Owes(p, i, TotalSlot)' = Owes(p, i, TotalSlot)
      BY <1>0, <2>2, <2>3 DEF Keeps, Owes, TypeOK
    <3> QED BY <1>4, <1>5, <1>6, <2>1, <3>1
  <2>4. CASE p = q
    <3>1. j = i /\ g # 0
      <4>1. j[1] = p /\ g = j[2]
        BY <2>2, <2>4, <1>d, InoType DEF Isolation
      <4> QED BY <4>1, InoType
    <3>2. Owes(p, i, TotalSlot) = 0 /\ Owes(p, i, TotalSlot)' = 1
      BY <2>2, <2>4, <3>1 DEF Owes, TotalSlot
    <3>3. own'[p] = own[p] + 1 /\ own[p] \in Nat
      BY <1>0, <2>2, <2>4 DEF TypeOK
    <3>4. file[i][I_TOTAL] \in Nat /\ file'[i][I_TOTAL] = file[i][I_TOTAL]
      BY <1>0, <1>5, <2>1, <3>1, ShardType
    <3> QED BY <1>6, <3>1, <3>2, <3>3, <3>4
  <2> QED BY <2>3, <2>4
<1>9. ASSUME NEW q \in Pid, AddToShard(q)
      PROVE  IF g = 0
               THEN own'[p] = 0 /\ \A k \in 1 .. MaxGen : file'[<<p, k>>][I_TOTAL] = 0
               ELSE file'[i][I_TOTAL] + Owes(p, i, TotalSlot)' = own'[p]
  <2>1. PICK s \in todo[q] :
          /\ s \in Slot \ {I_VERSION, I_PID} /\ writer[q] \in Ino /\ pc[q] = "record"
          /\ micros(call[q].req.ticks) \in Nat /\ call[q].req \in Requests
          /\ \A t \in Slot :
               file'[writer[q]][t] = IF t = s
                                       THEN Added(s, file[writer[q]][s], micros(call[q].req.ticks))
                                       ELSE file[writer[q]][t]
          /\ \A l \in Ino : l # writer[q] => file'[l] = file[l]
          /\ todo'[q] = todo[q] \ {s} /\ writer' = writer
          /\ IF todo[q] = {s}
               THEN pc'[q] = "idle" /\ done' = [done EXCEPT ![writer[q]] = @ + 1]
               ELSE pc'[q] = "record" /\ call'[q] = call[q] /\ done' = done
          /\ UNCHANGED <<begun, own, proc, mode>>
          /\ \A m \in Pid \ {q} : Keeps(m)
    BY <1>9, AddIs
  <2>2. writer[q][1] = q /\ writer'[q] = writer[q] /\ dir'[q] = writer[q][2] /\ writer[q] = <<q, dir'[q]>>
    BY <2>1, InoType DEF Isolation
  <2>3. CASE p # q
    <3>1. \A l \in Ino : l[1] = p => file'[l] = file[l]
      BY <2>1, <2>2, <2>3
    <3>2. own'[p] = own[p] /\ Owes(p, i, TotalSlot)' = Owes(p, i, TotalSlot)
      BY <2>1, <2>3 DEF Keeps, Owes
    <3>3. i[1] = p /\ \A k \in 1 .. MaxGen : <<p, k>>[1] = p
      OBVIOUS
    <3> QED BY <1>4, <1>5, <1>6, <3>1, <3>2, <3>3
  <2>4. CASE p = q
    <3>1. i = writer[p] /\ g # 0 /\ i \in Ino
      <4>1. writer[p] = <<p, dir'[p]>> /\ writer[p] \in Ino
        BY <2>1, <2>2, <2>4
      <4>2. writer[p] = i
        BY <1>d, <4>1
      <4>3. \A j \in Ino : j[2] # 0
        BY InoType
      <4> QED BY <4>1, <4>2, <4>3
    <3>2. Owes(p, i, TotalSlot)' = Owes(p, i, TotalSlot) - (IF s = I_TOTAL THEN 1 ELSE 0)
      <4>1. todo[p] \cap TotalSlot \subseteq {I_TOTAL} /\ (s \in TotalSlot <=> s = I_TOTAL)
        BY DEF TotalSlot
      <4>2. s \in todo[p] /\ pc[p] = "record" /\ writer'[p] = writer[p]
            /\ todo'[p] = todo[p] \ {s} /\ (pc'[p] = "record" \/ todo[p] = {s})
        BY <2>1, <2>4
      <4>3. Owes(p, writer[p], TotalSlot)'
              = Owes(p, writer[p], TotalSlot) - (IF s \in TotalSlot THEN 1 ELSE 0)
        BY <4>1, <4>2, OwesPaid
      <4> QED BY <2>1, <2>4, <3>1, <4>1, <4>3 DEF Owes
    <3>3. file'[i][I_TOTAL] = file[i][I_TOTAL] + (IF s = I_TOTAL THEN 1 ELSE 0)
          /\ file[i][I_TOTAL] \in Nat
      BY <1>0, <2>1, <2>4, <3>1, CounterSlots, ShardType
         DEF Added, I_TOTAL, I_SUM_US, I_MIN_US, I_MAX_US
    <3>4. Owes(p, i, TotalSlot) \in Nat /\ own' = own
      BY <2>1, OwesType
    <3> QED BY <1>6, <3>1, <3>2, <3>3, <3>4
  <2> QED BY <2>3, <2>4
<1>10. ASSUME NEW q \in Pid, Crash(q)
       PROVE  IF g = 0
                THEN own'[p] = 0 /\ \A k \in 1 .. MaxGen : file'[<<p, k>>][I_TOTAL] = 0
                ELSE file'[i][I_TOTAL] + Owes(p, i, TotalSlot)' = own'[p]
  <2>1. q # p /\ file' = file /\ own'[p] = own[p] /\ Keeps(p)
    BY <1>0, <1>3, <1>10 DEF Crash, Forget, disk, Keeps, TypeOK
  <2>2. Owes(p, i, TotalSlot)' = Owes(p, i, TotalSlot)
    BY <2>1 DEF Keeps, Owes
  <2> QED BY <1>6, <2>1, <2>2
<1> QED BY <1>7, <1>8, <1>9, <1>10, CountingStep

LEMMA AccountsInvariant ==
  ASSUME Unshared
  PROVE  Spec => [](IType /\ Isolation /\ Headed /\ Tally /\ Accounts)
<1> DEFINE Inv == IType /\ Isolation /\ Headed /\ Tally /\ Accounts
<1>1. Init => Inv
  BY InitHeaded, InitIsolation, InitTally DEF Init, Accounts, Account, Listed
<1>2. Inv /\ [Next]_vars => Inv'
  BY NextType, NextControl, NextHeaded, NextIsolation, NextTally, NextAccounts DEF IType
<1> QED BY <1>1, <1>2, PTL DEF Spec

(* With pids of their own, workers count their own requests and no others:  *)
(* nothing is inherited from a dead worker, and nothing is lost by          *)
(* switching multiproc mode off and on, by pruning or by another's crash.   *)
THEOREM WorkersCountTheirOwn ==
  ASSUME Unshared
  PROVE  Spec => []OwnCounts
<1>1. ASSUME IType, Isolation, Accounts, NEW p \in Pid, Live(p), pc[p] = "idle"
      PROVE  file[writer[p]][I_TOTAL] = own[p]
  <2>1. writer[p] \in Ino /\ writer[p] = <<p, dir[p]>> /\ dir[p] # 0 /\ proc[p] = "running"
    BY <1>1, LiveWriter, InoType DEF Live, IType, Control
  <2>2. file[writer[p]][I_TOTAL] + Owes(p, writer[p], TotalSlot) = own[p]
    BY <1>1, <2>1 DEF Accounts, Account, OwnShard
  <2>3. Owes(p, writer[p], TotalSlot) = 0
    BY <1>1 DEF Owes
  <2> QED BY <1>1, <2>1, <2>2, <2>3, ShardType DEF IType
<1>2. IType /\ Isolation /\ Accounts => OwnCounts
  BY <1>1 DEF OwnCounts
<1> QED BY <1>2, AccountsInvariant, PTL

-----------------------------------------------------------------------------
(* Shards that are not being written are coherent.  Workers share nothing,  *)
(* so each step is of one worker and leaves the others and their shards.    *)
Still(p) ==
  /\ Keeps(p) /\ proc'[p] = proc[p]
  /\ proc[p] = "running" => dir'[p] = dir[p]
  /\ \A i \in Ino : i[1] = p => file'[i] = file[i] /\ begun'[i] = begun[i] /\ done'[i] = done[i]

(* Steps of a process that matter to its shard.                             *)
Writes(p) == Open(p) \/ StoreHeader(p) \/ AddToShard(p) \/ Degrade(p) \/ \E c \in Call : Invoke(p, c)
Appears(p) == Start(p) \/ StartForeign(p) \/ Crash(p) \/ Reap(p)

(* Other steps of a process.                                                *)
Elsewhere(p) ==
  /\ pc[p] \notin {"open", "header", "record"} /\ pc'[p] \notin {"open", "header", "record"}
  /\ UNCHANGED <<file, begun, done>> /\ proc'[p] = proc[p]
  /\ proc[p] = "running" => dir'[p] = dir[p]

LEMMA ProceedStill ==
  ASSUME TypeOK, NEW p \in Pid, NEW q \in Pid \ {p}, NEW c, NEW i \in Ino, i[1] = q,
         Proceed(q, c, i)
  PROVE  /\ Keeps(p)
         /\ \A j \in Ino : j[1] = p => begun'[j] = begun[j] /\ done'[j] = done[j]
<1>1. Keeps(p) /\ done' = done
  BY DEF Proceed, Keeps, TypeOK
<1>2. begun' = begun \/ begun' = [begun EXCEPT ![i] = @ + 1]
  BY DEF Proceed
<1> QED BY <1>1, <1>2 DEF TypeOK

LEMMA StepOf ==
  ASSUME Unshared, IType, Isolation, [Next]_vars, NEW p \in Pid
  PROVE  Still(p) \/ Writes(p) \/ Appears(p) \/ Elsewhere(p)
<1> USE DEF os, disk, state, ctl, hist
<1>0. TypeOK /\ Control
  BY DEF IType
<1>1. CASE UNCHANGED vars
  BY <1>1 DEF vars, Still, Keeps
<1>2. ASSUME NEW q \in Pid, Disable(q)
      PROVE  Still(p) \/ Elsewhere(p)
  BY <1>0, <1>2 DEF Disable, Still, Keeps, Elsewhere, TypeOK
<1>3. ASSUME NEW q \in Pid,
             \/ CheckVersion(q) \/ CheckOwner(q) \/ ReadSlot(q) \/ Return(q)
             \/ \E ok \in BOOLEAN : ReadDir(q, ok) \/ \E m \in Pid : Visit(q, m, ok)
      PROVE  Still(p) \/ Elsewhere(p)
  <2>1. /\ UNCHANGED <<proc, dir, file, begun, done, writer>>
        /\ pc[q] \in {"merged", "scan", "version", "owner", "read"}
        /\ \E x \in PC \ {"open", "header", "record"} : pc' = [pc EXCEPT ![q] = x]
        /\ todo' = todo \/ \E x : todo' = [todo EXCEPT ![q] = x]
        /\ call' = call \/ \E x : call' = [call EXCEPT ![q] = x]
    <3>1. CASE CheckVersion(q) \/ CheckOwner(q) \/ Return(q)
      BY <3>1 DEF CheckVersion, CheckOwner, Return, Returning, Move, PC
    <3>2. CASE ReadSlot(q)
      BY <3>2 DEF ReadSlot, Move, PC
    <3>3. CASE \E ok \in BOOLEAN : ReadDir(q, ok) \/ \E m \in Pid : Visit(q, m, ok)
      BY <3>3 DEF ReadDir, Visit, Move, PC
    <3> QED BY <1>3, <3>1, <3>2, <3>3
  <2>2. CASE q = p
    BY <1>0, <2>1, <2>2 DEF Elsewhere, TypeOK
  <2>3. CASE q # p
    BY <1>0, <2>1, <2>3 DEF Still, Keeps, TypeOK
  <2> QED BY <2>2, <2>3
<1>4. ASSUME NEW q \in Pid, Unlink(q)
      PROVE  Still(p) \/ Elsewhere(p)
  <2>1. /\ dir' = [dir EXCEPT ![scan[q].at[1]] = 0] /\ proc[scan[q].at[1]] = "free"
        /\ UNCHANGED <<proc, file, begun, done, writer, todo, call>>
        /\ pc[q] = "unlink" /\ pc' = [pc EXCEPT ![q] = "scan"]
    BY <1>4 DEF Unlink, Move, Isolation
  <2> QED BY <1>0, <2>1 DEF Still, Keeps, Elsewhere, TypeOK
<1>5. ASSUME NEW q \in Pid \ {p}, Appears(q)
      PROVE  Still(p)
  BY <1>0, <1>5 DEF Appears, Start, StartForeign, Spawn, Crash, Forget, Reap, Still, Keeps, TypeOK
<1>6. ASSUME NEW q \in Pid \ {p}, NEW c \in Call, Invoke(q, c)
      PROVE  Still(p)
  <2>1. UNCHANGED <<proc, dir, file>>
    BY <1>6 DEF Invoke
  <2>2. CASE c.op = "set_dir" \/ mode[q] = "uninit"
    BY <1>0, <1>6, <2>1, <2>2 DEF Invoke, Still, Keeps, TypeOK
  <2>3. CASE ~(c.op = "set_dir" \/ mode[q] = "uninit")
    <3>1. Proceed(q, c, writer[q]) /\ mode[q] = "enabled"
      BY <1>6, <2>3 DEF Invoke
    <3>2. writer[q] \in Ino /\ writer[q][1] = q
      BY <1>0, <3>1, InoType DEF Control, Isolation
    <3> QED BY <1>0, <2>1, <3>1, <3>2, ProceedStill DEF Still
  <2> QED BY <2>2, <2>3
<1>7. ASSUME NEW q \in Pid \ {p}, Degrade(q)
      PROVE  Still(p)
  <2>1. UNCHANGED dir \/ \E k : dir' = [dir EXCEPT ![q] = k]
    BY <1>7 DEF Degrade, Create, shard_name
  <2> QED BY <1>0, <1>7, <2>1 DEF Degrade, Still, Keeps, TypeOK
<1>8. ASSUME NEW q \in Pid \ {p}, Open(q)
      PROVE  Still(p)
  <2> DEFINE k == IF dir[q] = 0 THEN gen[q] + 1 ELSE dir[q]
             i == <<q, k>>
  <2>1. UNCHANGED proc /\ (UNCHANGED dir \/ dir' = [dir EXCEPT ![q] = k])
    BY <1>8 DEF Open, Create, shard_name
  <2>2. i \in Ino /\ i[1] = q
    <3>1. k <= MaxGen
      BY <1>0, <1>8, BoundAssumption DEF Open, Create, shard_name, TypeOK
    <3> QED BY <1>0, <3>1, BoundAssumption DEF TypeOK, Ino
  <2>3. CASE Same(q, i)
    <3>1. Proceed(q, call[q], i) /\ file' = file
      BY <1>8, <2>3 DEF Open, shard_name
    <3> HIDE DEF i
    <3> QED BY <1>0, <2>1, <2>2, <3>1, ProceedStill DEF Still, TypeOK
  <2>4. CASE ~Same(q, i)
    <3>1. /\ file' = [file EXCEPT ![i] = ZeroShard]
          /\ writer' = [writer EXCEPT ![q] = i]
          /\ pc' = [pc EXCEPT ![q] = "header"]
          /\ todo' = [todo EXCEPT ![q] = HeaderSlots]
          /\ UNCHANGED <<call, hist>>
      BY <1>8, <2>4 DEF Open, shard_name
    <3> HIDE DEF i
    <3> QED BY <1>0, <2>1, <2>2, <3>1 DEF Still, Keeps, TypeOK
  <2> QED BY <2>3, <2>4
<1>9. ASSUME NEW q \in Pid \ {p}, StoreHeader(q)
      PROVE  Still(p)
  <2>1. PICK s \in Due(q) :
          /\ file' = [file EXCEPT ![writer[q]][s] = Header(q, s)]
          /\ IF todo[q] = {s}
               THEN Proceed(q, call[q], writer[q])
               ELSE /\ todo' = [todo EXCEPT ![q] = @ \ {s}]
                    /\ UNCHANGED <<state, pc, call, hist>>
    BY <1>9 DEF StoreHeader
  <2>2. UNCHANGED <<proc, dir>> /\ writer[q] \in Ino /\ writer[q][1] = q
    BY <1>0, <1>9, InoType DEF StoreHeader, Control, Isolation
  <2>3. \A i \in Ino : i[1] = p => file'[i] = file[i]
    BY <1>0, <2>1, <2>2 DEF TypeOK
  <2>4. CASE todo[q] = {s}
    BY <1>0, <2>1, <2>2, <2>3, <2>4, ProceedStill DEF Still
  <2>5. CASE todo[q] # {s}
    BY <1>0, <2>1, <2>2, <2>3, <2>5 DEF Still, Keeps, TypeOK
  <2> QED BY <2>4, <2>5
<1>10. ASSUME NEW q \in Pid \ {p}, AddToShard(q)
       PROVE  Still(p)
  <2>1. /\ writer[q] \in Ino /\ writer[q][1] = q /\ UNCHANGED <<proc, begun, dir>> /\ Keeps(p)
        /\ \A i \in Ino : i # writer[q] => file'[i] = file[i]
        /\ done' = done \/ done' = [done EXCEPT ![writer[q]] = @ + 1]
    <3>1. writer[q] \in Ino /\ writer[q][1] = q /\ UNCHANGED <<begun, dir>>
      BY <1>0, <1>10, InoType DEF AddToShard, Control, Isolation
    <3> QED BY <1>10, <3>1, AddIs
  <2> QED BY <1>0, <2>1 DEF Still, TypeOK
<1>11. ASSUME NEW q \in Pid, NEW m \in Pid, Fork(q, m)
       PROVE  FALSE
  BY <1>11 DEF Fork, Unshared
<1> QED
  BY <1>1, <1>2, <1>3, <1>4, <1>5, <1>6, <1>7, <1>8, <1>9, <1>10, <1>11
     DEF Next, Working, Writes, Appears

(* A shard of n requests, and what the additions still to be made will make *)
(* of it.                                                                   *)
Extreme(v, us) == \E b \in BucketsOf(us) : v[b] > 0

Summary(v, n) ==
  /\ v[I_TOTAL] = n /\ BucketSum(v) = n /\ v[I_ERRORS] <= n
  /\ n = 0 => v[I_SUM_US] = 0 /\ v[I_MAX_US] = 0
  /\ n > 0 => /\ Extreme(v, v[I_MIN_US]) /\ Extreme(v, v[I_MAX_US])
              /\ n * v[I_MIN_US] <= v[I_SUM_US] /\ v[I_SUM_US] <= n * v[I_MAX_US]

After(v, slots, us) == [s \in Slot |-> IF s \in slots THEN Added(s, v[s], us) ELSE v[s]]

(* The buckets a latency may be counted in are buckets of a shard.          *)
LEMMA BucketsOfType ==
  ASSUME NEW us \in Nat
  PROVE  BucketsOf(us) \subseteq BucketSlots
<1> SUFFICES ASSUME NEW x \in {TICKS_PER_US * us, TICKS_PER_US * us + 1}
             PROVE  I_BUCKETS_START + bucket_index(x) \in BucketSlots
  BY DEF BucketsOf
<1>1. x \in Int
  BY DEF TICKS_PER_US
<1>2. bucket_index(x) \in 0 .. Len(BUCKET_BOUNDS)
  BY <1>1, BucketType
<1> QED BY <1>2, SlotType DEF BucketSlots, SHARD_LEN_U64, NUM_BUCKETS, I_BUCKETS_START

(* The bucket of a latency is one of those of its whole microseconds.       *)
LEMMA BucketOfMicros ==
  ASSUME NEW t \in Int
  PROVE  /\ I_BUCKETS_START + bucket_index(t) \in BucketsOf(micros(t))
         /\ BucketsOf(micros(t)) \subseteq BucketSlots
<1>0. ASSUME NEW us, NEW x \in {TICKS_PER_US * us, TICKS_PER_US * us + 1}
      PROVE  I_BUCKETS_START + bucket_index(x) \in BucketsOf(us)
  BY <1>0 DEF BucketsOf
<1>1. \A i \in 1 .. Len(BUCKET_BOUNDS) : BUCKET_BOUNDS[i] \in Nat
  BY BoundsAssumption
<1>2. ASSUME t < 0
      PROVE  I_BUCKETS_START + bucket_index(t) \in BucketsOf(micros(t))
  <2>1. micros(t) = 0
    BY <1>2 DEF micros
  <2>2. \A i \in 1 .. Len(BUCKET_BOUNDS) :
          ~(TICKS_PER_US * BUCKET_BOUNDS[i] < t) /\ ~(TICKS_PER_US * BUCKET_BOUNDS[i] < 0)
    BY <1>1, <1>2 DEF TICKS_PER_US
  <2>3. {i \in 1 .. Len(BUCKET_BOUNDS) : TICKS_PER_US * BUCKET_BOUNDS[i] < t}
          = {i \in 1 .. Len(BUCKET_BOUNDS) : TICKS_PER_US * BUCKET_BOUNDS[i] < 0}
    BY <2>2
  <2>4. bucket_index(t) = bucket_index(0)
    BY <2>3 DEF bucket_index
  <2>5. 0 \in {TICKS_PER_US * 0, TICKS_PER_US * 0 + 1}
    BY DEF TICKS_PER_US
  <2>6. I_BUCKETS_START + bucket_index(0) \in BucketsOf(0)
    BY <1>0, <2>5
  <2> QED BY <2>1, <2>4, <2>6
<1>3. ASSUME t >= 0
      PROVE  I_BUCKETS_START + bucket_index(t) \in BucketsOf(micros(t))
  <2>1. t \in {TICKS_PER_US * micros(t), TICKS_PER_US * micros(t) + 1}
    BY <1>3 DEF micros, TICKS_PER_US
  <2> QED BY <1>0, <2>1
<1>4. BucketsOf(micros(t)) \subseteq BucketSlots
  BY MicrosType, BucketsOfType
<1> QED BY <1>2, <1>3, <1>4

LEMMA ProductBounds ==
  ASSUME NEW n \in Nat, NEW a \in Nat, NEW b \in Nat, NEW s \in Nat, NEW us \in Nat
  PROVE  /\ a <= b /\ n * b <= s /\ a <= us => (n + 1) * a <= s + us
         /\ b <= a /\ s <= n * b /\ us <= a => s + us <= (n + 1) * a
<1>1. (n + 1) * a = n * a + a
  OBVIOUS
<1>2. a <= b => n * a <= n * b
  OBVIOUS
<1>3. b <= a => n * b <= n * a
  OBVIOUS
<1>4. n * a \in Nat /\ n * b \in Nat
  OBVIOUS
<1> DEFINE na == n * a
           nb == n * b
<1> HIDE DEF na, nb
<1>5. na \in Nat /\ nb \in Nat /\ (a <= b => na <= nb) /\ (b <= a => nb <= na)
  BY <1>2, <1>3, <1>4 DEF na, nb
<1>6. /\ a <= b /\ nb <= s /\ a <= us => na + a <= s + us
      /\ b <= a /\ s <= nb /\ us <= a => s + us <= na + a
  BY <1>5
<1> QED BY <1>1, <1>6 DEF na, nb

(* What recording a request makes of each slot.                             *)
LEMMA AfterRecord ==
  ASSUME NEW v \in [Slot -> Nat], NEW req \in Requests, NEW w,
         w = After(v, RecordSlots(req), micros(req.ticks))
  PROVE  LET us == micros(req.ticks)
             b  == I_BUCKETS_START + bucket_index(req.ticks)
         IN  /\ us \in Nat /\ w[I_TOTAL] = v[I_TOTAL] + 1
             /\ w[I_ERRORS] \in Nat /\ w[I_ERRORS] <= v[I_ERRORS] + 1
             /\ w[I_SUM_US] = v[I_SUM_US] + us
             /\ w[I_MIN_US] = IF us < v[I_MIN_US] THEN us ELSE v[I_MIN_US]
             /\ w[I_MAX_US] = IF us > v[I_MAX_US] THEN us ELSE v[I_MAX_US]
             /\ b \in BucketSlots /\ w[b] = v[b] + 1
             /\ \A t \in BucketSlots \ {b} : w[t] = v[t]
<1> DEFINE us == micros(req.ticks)
           b  == I_BUCKETS_START + bucket_index(req.ticks)
           C  == {I_TOTAL, I_SUM_US, I_MIN_US, I_MAX_US}
<1>1. us \in Nat
  BY RequestAssumption, MicrosType
<1>2. b \in BucketSlots /\ RecordSlots(req) \cap BucketSlots = {b}
  BY RecordSlotsOwed
<1>3. C \subseteq RecordSlots(req)
  BY DEF RecordSlots
<1>4. C \subseteq Slot /\ I_ERRORS \in Slot /\ BucketSlots \subseteq Slot
  BY SlotType, BucketSlotsType DEF Slot, I_TOTAL, I_ERRORS, I_SUM_US, I_MIN_US, I_MAX_US
<1>5. BucketSlots \cap {I_TOTAL, I_ERRORS, I_SUM_US, I_MIN_US, I_MAX_US} = {}
  BY BucketSlotsType
<1>6. \A s \in Slot : w[s] = IF s \in RecordSlots(req) THEN Added(s, v[s], us) ELSE v[s]
  BY DEF After
<1> HIDE DEF us, b
<1>7. /\ w[I_TOTAL] = v[I_TOTAL] + 1 /\ w[I_SUM_US] = v[I_SUM_US] + us
      /\ w[I_MIN_US] = (IF us < v[I_MIN_US] THEN us ELSE v[I_MIN_US])
      /\ w[I_MAX_US] = (IF us > v[I_MAX_US] THEN us ELSE v[I_MAX_US])
  BY <1>3, <1>4, <1>6 DEF Added, I_TOTAL, I_SUM_US, I_MIN_US, I_MAX_US
<1>8. w[I_ERRORS] \in Nat /\ w[I_ERRORS] <= v[I_ERRORS] + 1
  BY <1>4, <1>6 DEF Added, I_ERRORS, I_SUM_US, I_MIN_US, I_MAX_US
<1>9. w[b] = v[b] + 1 /\ \A t \in BucketSlots \ {b} : w[t] = v[t]
  <2>1. b \in RecordSlots(req) /\ b \in Slot /\ b \notin {I_SUM_US, I_MIN_US, I_MAX_US}
    BY <1>2, <1>4, <1>5
  <2>2. w[b] = v[b] + 1
    BY <1>6, <2>1 DEF Added
  <2> QED BY <1>2, <1>4, <1>6, <2>2
<1> QED BY <1>1, <1>2, <1>7, <1>8, <1>9 DEF us, b

LEMMA OneMore ==
  ASSUME NEW v \in [Slot -> Nat], NEW n \in Nat, NEW req \in Requests, Summary(v, n),
         n = 0 => v[I_MIN_US] = MIN_EMPTY
  PROVE  Summary(After(v, RecordSlots(req), micros(req.ticks)), n + 1)
<1> DEFINE us == micros(req.ticks)
           b  == I_BUCKETS_START + bucket_index(req.ticks)
           w  == After(v, RecordSlots(req), us)
<1>1. /\ us \in Nat /\ w[I_TOTAL] = v[I_TOTAL] + 1
      /\ w[I_ERRORS] \in Nat /\ w[I_ERRORS] <= v[I_ERRORS] + 1
      /\ w[I_SUM_US] = v[I_SUM_US] + us
      /\ w[I_MIN_US] = (IF us < v[I_MIN_US] THEN us ELSE v[I_MIN_US])
      /\ w[I_MAX_US] = (IF us > v[I_MAX_US] THEN us ELSE v[I_MAX_US])
      /\ b \in BucketSlots /\ w[b] = v[b] + 1
      /\ \A t \in BucketSlots \ {b} : w[t] = v[t]
  BY AfterRecord
<1>2. /\ v[I_TOTAL] \in Nat /\ v[I_ERRORS] \in Nat /\ v[I_SUM_US] \in Nat
      /\ v[I_MIN_US] \in Nat /\ v[I_MAX_US] \in Nat /\ \A t \in BucketSlots : v[t] \in Nat
  BY SlotType, BucketSlotsType DEF Slot, I_TOTAL, I_ERRORS, I_SUM_US, I_MIN_US, I_MAX_US
<1>3. b \in BucketsOf(us) /\ BucketsOf(us) \subseteq BucketSlots
  BY BucketOfMicros, RequestAssumption
<1>4. us <= MIN_EMPTY /\ MIN_EMPTY \in Nat
  BY SentinelAssumption, RequestAssumption
<1> HIDE DEF us, b, w
<1>5. BucketSum(w) = n + 1
  <2>1. \A t \in BucketSlots : v[t] \in Int /\ w[t] \in Int /\ (t # b => w[t] = v[t])
    BY <1>1, <1>2
  <2>2. SumOf(w, BucketSlots) = SumOf(v, BucketSlots) - v[b] + w[b]
    BY <1>1, <2>1, BucketSlotsType, SumChange
  <2>3. SumOf(v, BucketSlots) = n
    BY BucketSumIs DEF Summary
  <2> QED BY <1>1, <1>2, <2>2, <2>3, BucketSumIs
<1>6. w[I_TOTAL] = n + 1 /\ w[I_ERRORS] <= n + 1
  BY <1>1, <1>2 DEF Summary
<1>7. w[b] > 0 /\ \A t \in BucketSlots : v[t] > 0 => w[t] > 0
  BY <1>1, <1>2
<1>8. Extreme(w, us)
  BY <1>3, <1>7 DEF Extreme
<1>9. /\ Extreme(w, w[I_MIN_US]) /\ Extreme(w, w[I_MAX_US])
      /\ (n + 1) * w[I_MIN_US] <= w[I_SUM_US] /\ w[I_SUM_US] <= (n + 1) * w[I_MAX_US]
  <2>1. CASE n = 0
    <3>1. w[I_MIN_US] = us /\ w[I_MAX_US] = us /\ w[I_SUM_US] = us
      BY <1>1, <1>2, <1>4, <2>1 DEF Summary
    <3> QED BY <1>1, <1>8, <2>1, <3>1
  <2>2. CASE n > 0
    <3>1. /\ Extreme(v, v[I_MIN_US]) /\ Extreme(v, v[I_MAX_US])
          /\ n * v[I_MIN_US] <= v[I_SUM_US] /\ v[I_SUM_US] <= n * v[I_MAX_US]
      BY <2>2 DEF Summary
    <3>2. ASSUME NEW t \in {I_MIN_US, I_MAX_US}, Extreme(v, v[t])
          PROVE  Extreme(w, v[t])
      <4>1. PICK c \in BucketsOf(v[t]) : v[c] > 0
        BY <3>2 DEF Extreme
      <4>2. c \in BucketSlots
        BY <1>2, <4>1, BucketsOfType
      <4> QED BY <1>7, <4>1, <4>2 DEF Extreme
    <3>3. Extreme(w, w[I_MIN_US]) /\ Extreme(w, w[I_MAX_US])
      BY <1>1, <1>8, <3>1, <3>2
    <3>4. /\ w[I_MIN_US] \in Nat /\ w[I_MIN_US] <= v[I_MIN_US] /\ w[I_MIN_US] <= us
          /\ w[I_MAX_US] \in Nat /\ v[I_MAX_US] <= w[I_MAX_US] /\ us <= w[I_MAX_US]
      BY <1>1, <1>2
    <3>5. (n + 1) * w[I_MIN_US] <= v[I_SUM_US] + us
      BY ONLY <1>1, <1>2, <3>1, <3>4, ProductBounds, n \in Nat
    <3>6. v[I_SUM_US] + us <= (n + 1) * w[I_MAX_US]
      BY ONLY <1>1, <1>2, <3>1, <3>4, ProductBounds, n \in Nat
    <3> QED BY <1>1, <3>3, <3>5, <3>6
  <2> QED BY <2>1, <2>2
<1>10. Summary(w, n + 1)
  BY <1>5, <1>6, <1>9 DEF Summary
<1> QED BY <1>10 DEF w, us

(* A summary does not change with its slots, nor with the sentinel of a     *)
(* shard that counts nothing.                                               *)
LEMMA SummarySame ==
  ASSUME NEW v \in [Slot -> Nat], NEW w \in [Slot -> Nat], NEW n \in Nat, Summary(v, n),
         \A s \in Counters : w[s] = v[s], n > 0 => w[I_MIN_US] = v[I_MIN_US]
  PROVE  Summary(w, n)
<1>1. /\ w[I_TOTAL] = v[I_TOTAL] /\ w[I_ERRORS] = v[I_ERRORS]
      /\ w[I_SUM_US] = v[I_SUM_US] /\ w[I_MAX_US] = v[I_MAX_US]
      /\ \A b \in BucketSlots : w[b] = v[b]
  BY CounterSlots, BucketSlotsType
<1>2. BucketSum(w) = BucketSum(v)
  BY <1>1, BucketSumSame
<1>3. v[I_MIN_US] \in Nat /\ v[I_MAX_US] \in Nat
  BY SlotType, BucketSlotsType DEF Slot, I_MIN_US, I_MAX_US
<1>4. ASSUME NEW us \in Nat, Extreme(v, us) PROVE Extreme(w, us)
  BY <1>1, <1>4, BucketsOfType DEF Extreme
<1> QED BY <1>1, <1>2, <1>3, <1>4 DEF Summary

(* A worker is recording on shard i, its own.                               *)
Records(i) == pc[i[1]] = "record" /\ writer[i[1]] = i

(* No request has changed the minimum of shard i yet.                       *)
Untouched(i) ==
  \/ begun[i] = 0
  \/ Records(i) /\ begun[i] = 1 /\ I_MIN_US \in todo[i[1]]

(* A shard about to count its first request has the sentinel in place.      *)
Opening(p) ==
  /\ pc[p] = "header" =>
       /\ file[writer[p]][I_TOTAL] = 0
       /\ I_MIN_US \notin todo[p] => file[writer[p]][I_MIN_US] = MIN_EMPTY
  /\ proc[p] = "running" /\ dir[p] = 0 => \A i \in Ino : i[1] = p => ~Complete(i)
  /\ proc[p] = "running" /\ dir[p] # 0 /\ pc[p] # "header" =>
       \A i \in Ino : i = OwnShard(p) /\ Complete(i) /\ Untouched(i) => file[i][I_MIN_US] = MIN_EMPTY

(* A shard is a summary of its requests once the one under way is counted.  *)
Books(i) ==
  IF Records(i)
    THEN begun[i] = done[i] + 1 =>
           Summary(After(file[i], todo[i[1]], micros(call[i[1]].req.ticks)), begun[i])
    ELSE begun[i] = done[i] => Summary(file[i], done[i])

LEMMA RecorderBegun ==
  ASSUME TypeOK, Tally, NEW p \in Pid, pc[p] = "record", NEW i \in Ino, writer[p] = i
  PROVE  done[i] + 1 <= begun[i]
<1>1. Recorders(i) >= 1
  <2> DEFINE g == [q \in Pid |-> Adds(q, i)]
  <2>1. \A q \in Pid : g[q] \in Nat
    BY DEF Adds
  <2>2. g[p] = 1
    BY DEF Adds
  <2> HIDE DEF g
  <2>3. SumOf(g, Pid) \in Nat /\ g[p] <= SumOf(g, Pid)
    BY <2>1, PidAssumption, SumNat
  <2> QED BY <2>2, <2>3 DEF g, Recorders
<1>2. /\ done[i] + Recorders(i) <= file[i][I_TOTAL] + Owed(i, TotalSlot)
      /\ file[i][I_TOTAL] + Owed(i, TotalSlot) <= begun[i]
  BY DEF Tally
<1>3. /\ file[i][I_TOTAL] \in Nat /\ done[i] \in Nat /\ begun[i] \in Nat
      /\ Owed(i, TotalSlot) \in Nat /\ Recorders(i) \in Nat
  BY ShardType, OwedType
<1> QED BY <1>1, <1>2, <1>3

(* Going on with the call leaves the minimum of an untouched shard alone.   *)
LEMMA ProceedOpening ==
  ASSUME IType, Isolation', Headed, NEW p \in Pid, NEW c, NEW j \in Ino, j[1] = p, dir'[p] = j[2],
         Proceed(p, c, j), pc[p] # "record",
         (begun[j] = 0 /\ Complete(j)') => file'[j][I_MIN_US] = MIN_EMPTY
  PROVE  Opening(p)'
<1>0. TypeOK
  BY DEF IType
<1>1. pc'[p] # "header" /\ dir'[p] # 0
  BY <1>0, InoType DEF Proceed, TypeOK
<1>2. begun'[j] = begun[j] \/ (pc'[p] = "record" /\ begun'[j] = begun[j] + 1)
  BY <1>0 DEF Proceed, TypeOK
<1>3. pc'[p] = "record" => begun'[j] = begun[j] + 1
  BY <1>0 DEF Proceed, TypeOK
<1>4. begun[j] \in Nat
  BY <1>0, ShardType
<1>5. ASSUME NEW i \in Ino, i = OwnShard(p)', Complete(i)', Untouched(i)'
      PROVE  file'[i][I_MIN_US] = MIN_EMPTY
  <2>1. i = j
    BY <1>5, InoType DEF OwnShard
  <2>2. begun[j] = 0
    BY <1>2, <1>3, <1>4, <1>5, <2>1 DEF Untouched, Records
  <2> QED BY <1>5, <2>1, <2>2
<1> QED BY <1>1, <1>5 DEF Opening

(* A step that touches neither the shards of a process nor its records.     *)
LEMMA StillOpening ==
  ASSUME IType, Isolation, NEW p \in Pid, Opening(p), Still(p)
  PROVE  Opening(p)'
<1>0. Control
  BY DEF IType
<1>1. \A i \in Ino : i[1] = p => file'[i] = file[i] /\ begun'[i] = begun[i]
  BY DEF Still
<1>2. pc'[p] = pc[p] /\ writer'[p] = writer[p] /\ todo'[p] = todo[p] /\ proc'[p] = proc[p]
  BY DEF Still, Keeps
<1>3. pc[p] = "header" => writer[p] \in Ino /\ writer[p][1] = p
  BY <1>0, InoType DEF Control, Isolation
<1>4. \A i \in Ino : i[1] = p => (Untouched(i)' <=> Untouched(i)) /\ (Complete(i)' <=> Complete(i))
  BY <1>1, <1>2 DEF Untouched, Records, Complete
<1>5. proc[p] = "running" => dir'[p] = dir[p]
  BY DEF Still
<1>6. \A i \in Ino : i = OwnShard(p) => i[1] = p
  BY DEF OwnShard
<1> QED BY <1>1, <1>2, <1>3, <1>4, <1>5, <1>6 DEF Opening, OwnShard

LEMMA OpenOpening ==
  ASSUME IType, Isolation, Isolation', Headed, NEW p \in Pid, Opening(p), Open(p)
  PROVE  Opening(p)'
<1> USE DEF os, disk, state, ctl, hist
<1>0. TypeOK /\ Control
  BY DEF IType
<1> DEFINE k == IF dir[p] = 0 THEN gen[p] + 1 ELSE dir[p]
           j == <<p, k>>
<1>1. j \in Ino /\ j[1] = p /\ k # 0 /\ j[2] = k
  <2>1. k <= MaxGen
    BY <1>0, BoundAssumption DEF Open, Create, shard_name, TypeOK
  <2> QED BY <1>0, <2>1, BoundAssumption DEF TypeOK, Ino
<1>2. pc[p] = "open" /\ proc[p] = "running"
  BY <1>0 DEF Open, Control
<1>3. dir'[p] = k
  BY <1>0 DEF Open, Create, shard_name, TypeOK
<1>4. CASE Same(p, j)
  <2>1. Proceed(p, call[p], j) /\ file' = file
    BY <1>4 DEF Open, shard_name
  <2>2. Complete(j)
    BY <1>4, <1>1 DEF Same, Complete
  <2>3. dir[p] # 0
    BY <1>1, <1>2, <2>2 DEF Opening
  <2>4. j = OwnShard(p)
    BY <2>3 DEF OwnShard
  <2>5. begun[j] = 0 => file[j][I_MIN_US] = MIN_EMPTY
    BY <1>1, <1>2, <2>2, <2>3, <2>4 DEF Opening, Untouched
  <2> HIDE DEF j, k
  <2> QED BY <1>1, <1>2, <1>3, <2>1, <2>5, ProceedOpening
<1>5. CASE ~Same(p, j)
  <2>1. /\ file' = [file EXCEPT ![j] = ZeroShard]
        /\ writer' = [writer EXCEPT ![p] = j]
        /\ pc' = [pc EXCEPT ![p] = "header"]
        /\ todo' = [todo EXCEPT ![p] = HeaderSlots]
    BY <1>5 DEF Open, shard_name
  <2> HIDE DEF j, k
  <2>2. pc'[p] = "header" /\ writer'[p] = j /\ file'[j] = ZeroShard /\ todo'[p] = HeaderSlots
        /\ dir'[p] # 0
    BY <1>0, <1>1, <1>3, <2>1 DEF TypeOK
  <2>3. ZeroShard[I_TOTAL] = 0 /\ I_MIN_US \in HeaderSlots
    BY CounterSlots DEF ZeroShard, HeaderSlots
  <2> QED BY <2>2, <2>3 DEF Opening
<1> QED BY <1>4, <1>5

LEMMA HeaderOpening ==
  ASSUME IType, Isolation, Isolation', Headed, NEW p \in Pid, Opening(p), StoreHeader(p)
  PROVE  Opening(p)'
<1> USE DEF os, disk, state, ctl, hist
<1>0. TypeOK /\ Control /\ pc[p] = "header" /\ writer[p] \in Ino
  BY DEF IType, Control, StoreHeader
<1>1. PICK s \in Due(p) :
        /\ file' = [file EXCEPT ![writer[p]][s] = Header(p, s)]
        /\ IF todo[p] = {s}
             THEN Proceed(p, call[p], writer[p])
             ELSE /\ todo' = [todo EXCEPT ![p] = @ \ {s}]
                  /\ UNCHANGED <<state, pc, call, hist>>
  BY DEF StoreHeader
<1>2. s \in HeaderSlots /\ s \in todo[p] /\ s \in Slot
  BY <1>0, SlotType DEF Headed, Due
<1>3. \A t \in Slot : file'[writer[p]][t] = IF t = s THEN Header(p, s) ELSE file[writer[p]][t]
  BY <1>0, <1>1, <1>2 DEF TypeOK
<1>4. I_MIN_US \in Slot /\ I_TOTAL \in Slot /\ s # I_TOTAL /\ Header(p, I_MIN_US) = MIN_EMPTY
  BY <1>2, CounterSlots, SlotType DEF HeaderSlots, Header, I_MIN_US, I_VERSION, I_PID
<1>5. /\ file'[writer[p]][I_TOTAL] = 0
      /\ I_MIN_US \notin todo[p] \ {s} => file'[writer[p]][I_MIN_US] = MIN_EMPTY
  BY <1>0, <1>3, <1>4 DEF Opening
<1>6. writer[p][1] = p /\ dir'[p] = writer[p][2] /\ dir'[p] # 0
  BY <1>0, InoType DEF StoreHeader, Isolation
<1>7. CASE todo[p] = {s}
  <2>1. Proceed(p, call[p], writer[p]) /\ file'[writer[p]][I_MIN_US] = MIN_EMPTY
    BY <1>1, <1>5, <1>7
  <2> QED BY <1>0, <1>6, <2>1, ProceedOpening
<1>8. CASE todo[p] # {s}
  <2>1. writer'[p] = writer[p] /\ todo'[p] = todo[p] \ {s} /\ pc'[p] = "header"
    BY <1>0, <1>1, <1>8 DEF TypeOK
  <2> QED BY <1>5, <1>6, <2>1 DEF Opening
<1> QED BY <1>7, <1>8

LEMMA AddOpening ==
  ASSUME IType, Isolation, Isolation', Headed, Tally, NEW p \in Pid, Opening(p), AddToShard(p)
  PROVE  Opening(p)'
<1>0. TypeOK /\ Control /\ pc[p] = "record" /\ writer[p] \in Ino /\ proc[p] = "running"
  BY DEF IType, Control, AddToShard
<1>1. PICK s \in todo[p] :
        /\ s \in Slot \ {I_VERSION, I_PID}
        /\ \A t \in Slot :
             file'[writer[p]][t] = IF t = s
                                     THEN Added(s, file[writer[p]][s], micros(call[p].req.ticks))
                                     ELSE file[writer[p]][t]
        /\ todo'[p] = todo[p] \ {s} /\ writer' = writer
        /\ pc'[p] \in {"idle", "record"} /\ begun' = begun
  BY AddIs
<1>2. writer[p] = <<p, dir[p]>> /\ dir[p] # 0 /\ dir' = dir
  BY <1>0, InoType DEF AddToShard, Isolation
<1>3. done[writer[p]] + 1 <= begun[writer[p]] /\ done[writer[p]] \in Nat /\ begun[writer[p]] \in Nat
  BY <1>0, RecorderBegun, ShardType
<1>4. ASSUME NEW i \in Ino, i = OwnShard(p)', Complete(i)', Untouched(i)'
      PROVE  file'[i][I_MIN_US] = MIN_EMPTY
  <2>1. i = writer[p] /\ i = OwnShard(p) /\ i[1] = p
    BY <1>2, <1>4 DEF OwnShard
  <2>2. begun[i] = 1 /\ I_MIN_US \in todo[p] \ {s}
    BY <1>1, <1>3, <1>4, <2>1 DEF Untouched, Records
  <2>3. Untouched(i)
    BY <1>0, <2>1, <2>2 DEF Untouched, Records
  <2>4. Complete(i) /\ file'[i][I_MIN_US] = file[i][I_MIN_US]
    BY <1>1, <1>4, <2>1, <2>2, CounterSlots, SlotType DEF Complete, HeaderSlots
  <2> QED BY <1>0, <1>2, <2>1, <2>3, <2>4 DEF Opening
<1> QED BY <1>1, <1>2, <1>4 DEF Opening

LEMMA NextOpening ==
  ASSUME Unshared, IType, IType', Isolation, Isolation', Headed, Tally, Listed, [Next]_vars,
         NEW p \in Pid, Opening(p)
  PROVE  Opening(p)'
<1> USE DEF os, disk, state, ctl, hist
<1>0. TypeOK /\ Control /\ TypeOK' /\ Control'
  BY DEF IType
<1>1. CASE Still(p)
  BY <1>1, StillOpening
<1>2. CASE Open(p)
  BY <1>2, OpenOpening
<1>3. CASE StoreHeader(p)
  BY <1>3, HeaderOpening
<1>4. CASE AddToShard(p)
  BY <1>4, AddOpening
<1>5. CASE Degrade(p)
  <2>1. /\ pc[p] = "open" /\ proc[p] = "running" /\ pc'[p] = "idle" /\ UNCHANGED <<proc, file, begun>>
        /\ dir' = dir \/ dir[p] = 0
    BY <1>0, <1>5 DEF Degrade, Create, shard_name, Control, TypeOK
  <2>2. \A i \in Ino : (Complete(i)' <=> Complete(i)) /\ (i[1] = p /\ Untouched(i)' => Untouched(i))
    BY <2>1 DEF Complete, Untouched, Records
  <2>3. CASE dir' = dir
    BY <2>1, <2>2, <2>3 DEF Opening, OwnShard
  <2>4. CASE dir[p] = 0
    BY <2>1, <2>2, <2>4 DEF Opening, OwnShard
  <2> QED BY <2>1, <2>3, <2>4
<1>6. ASSUME NEW c \in Call, Invoke(p, c)
      PROVE  Opening(p)'
  <2>1. pc[p] = "idle" /\ proc[p] = "running" /\ UNCHANGED <<proc, dir, file>>
    BY <1>6 DEF Invoke
  <2>2. CASE c.op = "set_dir" \/ mode[p] = "uninit"
    <3>1. pc'[p] = "open" /\ UNCHANGED begun
      BY <1>0, <1>6, <2>2 DEF Invoke, TypeOK
    <3>2. \A i \in Ino : (Complete(i)' <=> Complete(i)) /\ (i[1] = p /\ Untouched(i)' => Untouched(i))
      BY <2>1, <3>1 DEF Complete, Untouched, Records
    <3> QED BY <2>1, <3>1, <3>2 DEF Opening, OwnShard
  <2>3. CASE ~(c.op = "set_dir" \/ mode[p] = "uninit")
    <3>1. Proceed(p, c, writer[p]) /\ mode[p] = "enabled"
      BY <1>6, <2>3 DEF Invoke
    <3>2. writer[p] \in Ino /\ writer[p][1] = p /\ dir[p] = writer[p][2]
      BY <1>0, <3>1, InoType DEF Control, Isolation
    <3>3. writer[p] = OwnShard(p) /\ dir[p] # 0
      BY <3>2, InoType DEF OwnShard
    <3>4. (begun[writer[p]] = 0 /\ Complete(writer[p])) => file[writer[p]][I_MIN_US] = MIN_EMPTY
      BY <2>1, <3>2, <3>3 DEF Opening, Untouched
    <3>5. PICK j : j = writer[p]
      OBVIOUS
    <3> QED BY <2>1, <3>1, <3>2, <3>4, <3>5, ProceedOpening DEF Complete
  <2> QED BY <2>2, <2>3
<1>7. CASE Appears(p)
  <2>1. CASE Start(p)
    <3>1. pc[p] = "idle" /\ dir[p] = 0 /\ p \notin used /\ UNCHANGED <<dir, file, pc>>
      BY <1>0, <2>1 DEF Start, Spawn, Control, Unshared, Listed
    <3>2. \A i \in Ino : i[1] = p => ~Complete(i)
      BY <3>1, InoType DEF Isolation, Complete
    <3> QED BY <3>1, <3>2 DEF Opening, Complete
  <2>2. CASE StartForeign(p) \/ Crash(p) \/ Reap(p)
    <3>1. proc'[p] # "running"
      BY <1>0, <2>2 DEF StartForeign, Spawn, Crash, Reap, TypeOK
    <3>2. pc'[p] = "idle"
      BY <1>0, <3>1 DEF Control
    <3> QED BY <3>1, <3>2 DEF Opening
  <2> QED BY <1>7, <2>1, <2>2 DEF Appears
<1>8. CASE Elsewhere(p)
  <2>1. /\ pc[p] \notin {"header", "record"} /\ pc'[p] \notin {"header", "record"}
        /\ UNCHANGED <<file, begun>> /\ proc'[p] = proc[p]
        /\ proc[p] = "running" => dir'[p] = dir[p]
    BY <1>8 DEF Elsewhere
  <2>2. \A i \in Ino : (Complete(i)' <=> Complete(i)) /\ (i[1] = p /\ Untouched(i)' => Untouched(i))
    BY <2>1 DEF Complete, Untouched, Records
  <2> QED BY <2>1, <2>2 DEF Opening, OwnShard
<1> QED BY <1>1, <1>2, <1>3, <1>4, <1>5, <1>6, <1>7, <1>8, StepOf DEF Writes

(* Going on with the call: a request that begins is the next in the books.  *)
LEMMA ProceedBooks ==
  ASSUME IType, IType', Isolation', Headed', NEW p \in Pid, Opening(p)', pc[p] # "record",
         NEW c \in Call, NEW j \in Ino, j[1] = p, Proceed(p, c, j),
         NEW i \in Ino, i[1] = p, Books(i),
         Summary(file[i], done[i]) => Summary(file'[i], done[i])
  PROVE  Books(i)'
<1>0. TypeOK /\ TypeOK' /\ Control'
  BY DEF IType
<1>1. ~Records(i) /\ (begun[i] = done[i] => Summary(file'[i], done[i]))
  BY DEF Records, Books
<1>2. done' = done /\ writer'[p] = j
  BY <1>0 DEF Proceed, TypeOK
<1>3. CASE c.op # "record"
  <2>1. pc'[p] # "record" /\ begun' = begun
    BY <1>0, <1>3 DEF Proceed, TypeOK
  <2> QED BY <1>1, <1>2, <2>1 DEF Books, Records
<1>4. CASE c.op = "record" /\ i # j
  <2>1. begun'[i] = begun[i]
    BY <1>0, <1>4 DEF Proceed, TypeOK
  <2> QED BY <1>1, <1>2, <1>4, <2>1 DEF Books, Records
<1>5. CASE c.op = "record" /\ i = j
  <2>1. /\ pc'[p] = "record" /\ call'[p] = c /\ todo'[p] = RecordSlots(c.req)
        /\ begun'[i] = begun[i] + 1 /\ c.req \in Requests
    BY <1>0, <1>5, CallType DEF Proceed, TypeOK
  <2>2. proc'[p] = "running" /\ dir'[p] = i[2] /\ dir'[p] # 0 /\ i = <<p, dir'[p]>> /\ Complete(i)'
    BY <1>0, <1>2, <1>5, <2>1, InoType DEF Control, Isolation, Headed, Complete
  <2>3. begun[i] \in Nat /\ done[i] \in Nat /\ file'[i] \in [Slot -> Nat]
    BY <1>0, ShardType DEF TypeOK
  <2>4. ASSUME begun[i] = 0
        PROVE  file'[i][I_MIN_US] = MIN_EMPTY
    <3>1. I_MIN_US \in RecordSlots(c.req)
      BY DEF RecordSlots
    <3>2. Untouched(i)'
      BY <1>2, <1>5, <2>1, <2>3, <2>4, <3>1 DEF Untouched, Records
    <3>3. i = OwnShard(p)'
      BY <2>2 DEF OwnShard
    <3> QED BY <2>1, <2>2, <3>2, <3>3 DEF Opening
  <2>5. ASSUME begun'[i] = done'[i] + 1
        PROVE  Summary(After(file'[i], RecordSlots(c.req), micros(c.req.ticks)), begun'[i])
    <3>1. begun[i] = done[i] /\ Summary(file'[i], begun[i])
      BY <1>1, <1>2, <2>1, <2>3, <2>5
    <3> QED BY <2>1, <2>3, <2>4, <3>1, OneMore
  <2>6. Records(i)'
    BY <1>2, <1>5, <2>1 DEF Records
  <2> QED BY <2>1, <2>5, <2>6 DEF Books
<1> QED BY <1>3, <1>4, <1>5

(* Opening and heading a shard change the counters of none that counts.     *)
LEMMA SummaryKept ==
  ASSUME IType, TypeOK', Tally, NEW i \in Ino, \A s \in Counters : file'[i][s] = file[i][s],
         file[i][I_TOTAL] = 0 \/ file'[i][I_MIN_US] = file[i][I_MIN_US]
  PROVE  Summary(file[i], done[i]) => Summary(file'[i], done[i])
<1>0. TypeOK
  BY DEF IType
<1>1. done[i] <= file[i][I_TOTAL] /\ done[i] \in Nat /\ file[i][I_TOTAL] \in Nat
  BY <1>0, TallyBounds, ShardType
<1>2. done[i] > 0 => file'[i][I_MIN_US] = file[i][I_MIN_US]
  BY <1>1
<1>3. file[i] \in [Slot -> Nat] /\ file'[i] \in [Slot -> Nat]
  BY <1>0 DEF TypeOK
<1> QED BY <1>1, <1>2, <1>3, SummarySame

LEMMA OpenBooks ==
  ASSUME IType, IType', Isolation', Headed, Headed', Tally, NEW p \in Pid, Opening(p)', Open(p),
         NEW i \in Ino, i[1] = p, Books(i)
  PROVE  Books(i)'
<1> USE DEF os, disk, state, ctl, hist
<1>0. TypeOK /\ TypeOK'
  BY DEF IType
<1> DEFINE k == IF dir[p] = 0 THEN gen[p] + 1 ELSE dir[p]
           j == <<p, k>>
<1>1. j \in Ino /\ j[1] = p
  <2>1. k <= MaxGen
    BY <1>0, BoundAssumption DEF Open, Create, shard_name, TypeOK
  <2> QED BY <1>0, <2>1, BoundAssumption DEF TypeOK, Ino
<1>2. pc[p] = "open" /\ call[p] \in Call
  BY <1>0 DEF Open, TypeOK
<1>3. CASE Same(p, j)
  <2>1. Proceed(p, call[p], j) /\ file' = file
    BY <1>3 DEF Open, shard_name
  <2> HIDE DEF j, k
  <2> QED BY <1>1, <1>2, <2>1, ProceedBooks
<1>4. CASE ~Same(p, j)
  <2>1. /\ file' = [file EXCEPT ![j] = ZeroShard]
        /\ pc' = [pc EXCEPT ![p] = "header"]
        /\ UNCHANGED hist
    BY <1>4 DEF Open, shard_name
  <2>2. ~Complete(j)
    BY <1>4 DEF Same, Complete
  <2> HIDE DEF j, k
  <2>3. file[i][I_TOTAL] = 0 \/ file'[i][I_MIN_US] = file[i][I_MIN_US]
    <3>1. CASE i = j
      BY <2>2, <3>1, CounterSlots DEF Headed, HeaderFirst, Counters
    <3>2. CASE i # j
      BY <1>0, <2>1, <3>2 DEF TypeOK
    <3> QED BY <3>1, <3>2
  <2>4. \A s \in Counters : file'[i][s] = file[i][s]
    BY OpenFile
  <2>5. Summary(file[i], done[i]) => Summary(file'[i], done[i])
    BY <1>0, <2>3, <2>4, SummaryKept
  <2>6. pc'[p] = "header" /\ begun' = begun /\ done' = done
    BY <1>0, <2>1 DEF TypeOK
  <2> QED BY <1>2, <2>5, <2>6 DEF Books, Records
<1> QED BY <1>3, <1>4

LEMMA HeaderBooks ==
  ASSUME IType, IType', Isolation, Isolation', Headed, Headed', Tally, NEW p \in Pid,
         Opening(p), Opening(p)', StoreHeader(p), NEW i \in Ino, i[1] = p, Books(i)
  PROVE  Books(i)'
<1> USE DEF os, disk, state, ctl, hist
<1>0. TypeOK /\ TypeOK' /\ pc[p] = "header" /\ writer[p] \in Ino /\ call[p] \in Call
  BY DEF IType, Control, StoreHeader, TypeOK
<1>1. PICK s \in Due(p) :
        /\ file' = [file EXCEPT ![writer[p]][s] = Header(p, s)]
        /\ IF todo[p] = {s}
             THEN Proceed(p, call[p], writer[p])
             ELSE /\ todo' = [todo EXCEPT ![p] = @ \ {s}]
                  /\ UNCHANGED <<state, pc, call, hist>>
  BY DEF StoreHeader
<1>2. \A t \in Counters : file'[i][t] = file[i][t]
  BY <1>0, <1>1, HeaderFile
<1>3. file[i][I_TOTAL] = 0 \/ file'[i][I_MIN_US] = file[i][I_MIN_US]
  <2>1. CASE i = writer[p]
    BY <1>0, <2>1 DEF Opening
  <2>2. CASE i # writer[p]
    BY <1>0, <1>1, <2>2 DEF TypeOK
  <2> QED BY <2>1, <2>2
<1>4. Summary(file[i], done[i]) => Summary(file'[i], done[i])
  BY <1>0, <1>2, <1>3, SummaryKept
<1>5. writer[p][1] = p
  BY <1>0, InoType DEF Isolation
<1>6. CASE todo[p] = {s}
  BY <1>0, <1>1, <1>4, <1>5, <1>6, ProceedBooks
<1>7. CASE todo[p] # {s}
  BY <1>0, <1>1, <1>4, <1>7 DEF Books, Records
<1> QED BY <1>6, <1>7

(* An addition makes of the shard what it was going to be.                  *)
LEMMA AddBooks ==
  ASSUME IType, TypeOK', Isolation, NEW p \in Pid, AddToShard(p), NEW i \in Ino, i[1] = p, Books(i)
  PROVE  Books(i)'
<1>0. TypeOK /\ pc[p] = "record"
  BY DEF IType, AddToShard
<1>1. PICK s \in todo[p] :
        /\ s \in Slot \ {I_VERSION, I_PID} /\ writer[p] \in Ino
        /\ \A t \in Slot :
             file'[writer[p]][t] = IF t = s
                                     THEN Added(s, file[writer[p]][s], micros(call[p].req.ticks))
                                     ELSE file[writer[p]][t]
        /\ \A l \in Ino : l # writer[p] => file'[l] = file[l]
        /\ todo'[p] = todo[p] \ {s} /\ writer' = writer
        /\ IF todo[p] = {s}
             THEN pc'[p] = "idle" /\ done' = [done EXCEPT ![writer[p]] = @ + 1]
             ELSE pc'[p] = "record" /\ call'[p] = call[p] /\ done' = done
        /\ begun' = begun
  BY AddIs
<1>2. CASE i # writer[p]
  <2>1. done'[i] = done[i] /\ file'[i] = file[i] /\ begun'[i] = begun[i]
    BY <1>0, <1>1, <1>2 DEF TypeOK
  <2> QED BY <1>1, <1>2, <2>1 DEF Books, Records
<1>3. CASE i = writer[p]
  <2> DEFINE us == micros(call[p].req.ticks)
  <2>1. file'[i] \in [Slot -> Nat] /\ done[i] \in Nat
    BY <1>0, ShardType DEF TypeOK
  <2>2. \A t \in Slot : file'[i][t] = IF t = s THEN Added(s, file[i][s], us) ELSE file[i][t]
    BY <1>1, <1>3
  <2>3. begun[i] = done[i] + 1 => Summary(After(file[i], todo[p], us), begun[i])
    BY <1>0, <1>3 DEF Books, Records
  <2>4. CASE todo[p] = {s}
    <3>1. After(file[i], todo[p], us) = file'[i]
      BY <2>1, <2>2, <2>4 DEF After
    <3>2. done'[i] = done[i] + 1 /\ ~Records(i)'
      BY <1>0, <1>1, <1>3, <2>4 DEF Records, TypeOK
    <3> QED BY <1>1, <2>3, <3>1, <3>2 DEF Books
  <2>5. CASE todo[p] # {s}
    <3> HIDE DEF us
    <3>1. After(file[i], todo[p], us) = After(file'[i], todo[p] \ {s}, us)
      BY <2>2 DEF After
    <3>2. Records(i)' /\ done'[i] = done[i] /\ call'[p] = call[p]
      BY <1>1, <1>3, <2>5 DEF Records
    <3> QED BY <1>1, <2>3, <3>1, <3>2 DEF Books, us
  <2> QED BY <2>4, <2>5
<1> QED BY <1>2, <1>3

LEMMA NextBooks ==
  ASSUME Unshared, IType, IType', Isolation, Isolation', Headed, Headed', Tally, [Next]_vars,
         NEW i \in Ino, Opening(i[1]), Opening(i[1])', Books(i)
  PROVE  Books(i)'
<1> USE DEF os, disk, state, ctl, hist
<1>p. PICK p \in Pid : p = i[1]
  BY InoType
<1>0. TypeOK /\ Control /\ TypeOK' /\ Control' /\ Opening(p) /\ Opening(p)'
  BY <1>p DEF IType, Opening, OwnShard
<1>1. CASE Still(p)
  BY <1>1, <1>p DEF Still, Keeps, Books, Records
<1>2. ASSUME pc[p] # "record", pc'[p] # "record", UNCHANGED <<file, begun, done>>
      PROVE  Books(i)'
  BY <1>2, <1>p DEF Books, Records
<1>3. CASE Open(p)
  BY <1>0, <1>3, <1>p, OpenBooks
<1>4. CASE StoreHeader(p)
  BY <1>0, <1>4, <1>p, HeaderBooks
<1>5. CASE AddToShard(p)
  BY <1>0, <1>5, <1>p, AddBooks
<1>6. CASE Degrade(p)
  BY <1>0, <1>2, <1>6 DEF Degrade, TypeOK
<1>7. ASSUME NEW c \in Call, Invoke(p, c)
      PROVE  Books(i)'
  <2>1. pc[p] = "idle" /\ file' = file
    BY <1>7 DEF Invoke
  <2>2. CASE c.op = "set_dir" \/ mode[p] = "uninit"
    <3>1. pc'[p] = "open" /\ UNCHANGED <<begun, done>>
      BY <1>0, <1>7, <2>2 DEF Invoke, TypeOK
    <3> QED BY <1>2, <2>1, <3>1
  <2>3. CASE ~(c.op = "set_dir" \/ mode[p] = "uninit")
    <3>1. Proceed(p, c, writer[p]) /\ mode[p] = "enabled"
      BY <1>7, <2>3 DEF Invoke
    <3>2. writer[p] \in Ino /\ writer[p][1] = p
      BY <1>0, <3>1, InoType DEF Control, Isolation
    <3> QED BY <1>0, <1>p, <2>1, <3>1, <3>2, ProceedBooks
  <2> QED BY <2>2, <2>3
<1>8. CASE Appears(p)
  <2>1. UNCHANGED <<file, begun, done>>
    BY <1>8 DEF Appears, Start, StartForeign, Crash, Reap
  <2>2. CASE pc[p] # "record" \/ writer[p] # i
    <3>1. ~Records(i)'
      <4>1. pc'[p] = "idle" \/ (pc'[p] = pc[p] /\ writer'[p] = writer[p])
        BY <1>0, <1>8 DEF Appears, Start, StartForeign, Crash, Forget, Reap, TypeOK
      <4> QED BY <1>p, <2>2, <4>1 DEF Records
    <3> QED BY <1>p, <2>1, <2>2, <3>1 DEF Books, Records
  <2>3. CASE pc[p] = "record" /\ writer[p] = i
    <3>1. done[i] + 1 <= begun[i] /\ done[i] \in Nat /\ begun[i] \in Nat
      BY <1>0, <2>3, RecorderBegun, ShardType
    <3>2. pc'[p] = "idle"
      <4>1. proc[p] = "running"
        BY <1>0, <2>3 DEF Control
      <4>2. Crash(p)
        BY <1>8, <4>1 DEF Appears, Start, StartForeign, Spawn, Reap
      <4> QED BY <1>0, <4>2 DEF Crash, Forget, TypeOK
    <3> QED BY <1>p, <2>1, <3>1, <3>2 DEF Books, Records
  <2> QED BY <2>2, <2>3
<1>9. CASE Elsewhere(p)
  BY <1>2, <1>9 DEF Elsewhere
<1> QED BY <1>1, <1>3, <1>4, <1>5, <1>6, <1>7, <1>8, <1>9, StepOf DEF Writes

LEMMA BooksInvariant ==
  ASSUME Unshared
  PROVE  Spec => [](/\ IType /\ Isolation /\ Headed /\ Tally /\ Accounts
                    /\ (\A p \in Pid : Opening(p)) /\ \A i \in Ino : Books(i))
<1> DEFINE Old == IType /\ Isolation /\ Headed /\ Tally /\ Accounts
           New == (\A p \in Pid : Opening(p)) /\ \A i \in Ino : Books(i)
<1>1. Init => New
  <2> SUFFICES ASSUME Init PROVE New
    OBVIOUS
  <2>1. \A i \in Ino, s \in Slot : file[i][s] = 0
    BY DEF Init, ZeroShard
  <2>2. \A p \in Pid : Opening(p)
    BY DEF Init, Opening
  <2>3. \A i \in Ino : Summary(file[i], 0)
    <3>1. \A i \in Ino : BucketSum(file[i]) = 0
      BY <2>1, BucketSumIs, BucketSlotsType, SumZero
    <3> QED BY <2>1, <3>1, CounterSlots DEF Summary
  <2>4. \A i \in Ino : begun[i] = 0 /\ done[i] = 0 /\ ~Records(i)
    BY InoType DEF Init, Records
  <2> QED BY <2>2, <2>3, <2>4 DEF Books
<1>2. Old /\ New /\ [Next]_vars /\ Old' => New'
  <2> SUFFICES ASSUME Old, New, [Next]_vars, Old' PROVE New'
    OBVIOUS
  <2>1. ASSUME NEW p \in Pid PROVE Opening(p)'
    BY NextOpening DEF Accounts
  <2>2. ASSUME NEW i \in Ino PROVE Books(i)'
    <3>1. PICK p \in Pid : p = i[1]
      BY InoType
    <3>2. Opening(i[1]) /\ Opening(i[1])'
      BY <2>1, <3>1
    <3> QED BY <3>2, NextBooks
  <2> QED BY <2>1, <2>2
<1> QED BY <1>1, <1>2, AccountsInvariant, PTL DEF Spec

(* With pids of their own, a shard nobody is adding to is coherent: one     *)
(* bucket for each request, the extremes in buckets that counted something, *)
(* the sum between them - in whatever order the additions of each call took *)
(* effect, and however calls were cut off, resumed or shards re-opened.     *)
THEOREM QuiescentShardsCohere ==
  ASSUME Unshared
  PROVE  Spec => []QuiescentCoherent
<1>1. ASSUME IType, Tally, NEW i \in Ino, Books(i), begun[i] = done[i]
      PROVE  Summary(file[i], done[i])
  <2>1. PICK p \in Pid : p = i[1]
    BY InoType
  <2>2. ~Records(i)
    BY <1>1, <2>1, RecorderBegun, ShardType DEF Records, IType
  <2> QED BY <1>1, <2>2 DEF Books
<1>2. IType /\ Tally /\ (\A i \in Ino : Books(i)) => QuiescentCoherent
  BY <1>1 DEF QuiescentCoherent, Summary, Extreme
<1> QED BY <1>2, BooksInvariant, PTL
=============================================================================
