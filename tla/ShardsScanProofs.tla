-------------------------- MODULE ShardsScanProofs --------------------------
(***************************************************************************)
(* Proofs about what a scrape reads of the shards while they change.       *)
(***************************************************************************)
EXTENDS ShardsCountProofs

-----------------------------------------------------------------------------
(* What a step does to a scan: it ends or is none, it is left alone, or it  *)
(* goes on, and then no shard changes.                                      *)
Scanning(r) == pc[r] \in {"scan", "version", "owner", "unlink", "read"}

Advances(r) ==
  \/ \E ok \in BOOLEAN : ReadDir(r, ok) \/ \E n \in Pid : Visit(r, n, ok)
  \/ CheckVersion(r) \/ CheckOwner(r) \/ Unlink(r) \/ ReadSlot(r)

LEMMA ScanStep ==
  ASSUME IType, [Next]_vars, NEW r \in Pid, Scanning(r)'
  PROVE  \/ pc'[r] = pc[r] /\ scan'[r] = scan[r] /\ todo'[r] = todo[r]
         \/ (Advances(r) /\ UNCHANGED <<proc, file, begun, done, mode, writer>>)
<1> USE DEF os, disk, state, ctl, hist, Scanning
<1>0. TypeOK /\ Control
  BY DEF IType
<1> DEFINE Left == pc'[r] = pc[r] /\ scan'[r] = scan[r] /\ todo'[r] = todo[r]
<1>1. CASE UNCHANGED vars
  BY <1>1 DEF vars
<1>2. ASSUME NEW p \in Pid, Start(p) \/ StartForeign(p) \/ Reap(p) \/ Disable(p) \/ Degrade(p)
      PROVE  Left
  BY <1>0, <1>2 DEF Start, StartForeign, Spawn, Reap, Disable, Degrade, TypeOK
<1>3. ASSUME NEW p \in Pid, NEW q \in Pid, Fork(q, p)
      PROVE  Left
  BY <1>3 DEF Fork
<1>4. ASSUME NEW p \in Pid, Crash(p)
      PROVE  Left
  BY <1>0, <1>4 DEF Crash, Forget, TypeOK
<1>5. ASSUME NEW p \in Pid, NEW c \in Call, NEW i, Proceed(p, c, i), UNCHANGED scan
      PROVE  Left
  BY <1>0, <1>5 DEF Proceed, TypeOK
<1>6. ASSUME NEW p \in Pid, NEW c \in Call, Invoke(p, c)
      PROVE  Left
  <2>1. CASE c.op = "set_dir" \/ mode[p] = "uninit"
    BY <1>0, <1>6, <2>1 DEF Invoke, TypeOK
  <2>2. CASE ~(c.op = "set_dir" \/ mode[p] = "uninit")
    BY <1>5, <1>6, <2>2 DEF Invoke
  <2> QED BY <2>1, <2>2
<1>7. ASSUME NEW p \in Pid, Open(p)
      PROVE  Left
  <2>1. call[p] \in Call /\ UNCHANGED scan
    BY <1>0, <1>7 DEF Open, TypeOK
  <2>2. \/ \E i : Proceed(p, call[p], i)
        \/ pc' = [pc EXCEPT ![p] = "header"] /\ todo' = [todo EXCEPT ![p] = HeaderSlots]
    BY <1>7 DEF Open
  <2>3. CASE \E i : Proceed(p, call[p], i)
    BY <1>5, <2>1, <2>3
  <2>4. CASE pc' = [pc EXCEPT ![p] = "header"] /\ todo' = [todo EXCEPT ![p] = HeaderSlots]
    BY <1>0, <2>1, <2>4 DEF TypeOK
  <2> QED BY <2>2, <2>3, <2>4
<1>8. ASSUME NEW p \in Pid, StoreHeader(p)
      PROVE  Left
  <2>1. call[p] \in Call /\ UNCHANGED scan /\ pc[p] = "header"
    BY <1>0, <1>8 DEF StoreHeader, TypeOK
  <2>2. \/ Proceed(p, call[p], writer[p])
        \/ pc' = pc /\ \E x : todo' = [todo EXCEPT ![p] = x]
    BY <1>8 DEF StoreHeader
  <2> QED BY <1>0, <1>5, <2>1, <2>2 DEF TypeOK
<1>9. ASSUME NEW p \in Pid, AddToShard(p)
      PROVE  Left
  <2>1. PICK s \in Due(p) :
          /\ todo' = [todo EXCEPT ![p] = @ \ {s}]
          /\ pc' = pc \/ pc' = [pc EXCEPT ![p] = "idle"]
    BY <1>9 DEF AddToShard
  <2>2. pc[p] = "record" /\ UNCHANGED scan
    BY <1>9 DEF AddToShard
  <2> QED BY <1>0, <2>1, <2>2 DEF TypeOK
<1>10. ASSUME NEW p \in Pid, Advances(p)
       PROVE  Left \/ (Advances(r) /\ UNCHANGED <<proc, file, begun, done, mode, writer>>)
  <2>1. UNCHANGED <<proc, file, begun, done, mode, writer>>
    BY <1>10 DEF Advances, ReadDir, Visit, CheckVersion, CheckOwner, Unlink, ReadSlot
  <2>2. CASE p = r
    BY <1>10, <2>1, <2>2
  <2>3. CASE p # r
    <3>1. /\ \E x : pc' = [pc EXCEPT ![p] = x]
          /\ scan' = scan \/ \E x : scan' = [scan EXCEPT ![p] = x]
          /\ todo' = todo \/ \E x : todo' = [todo EXCEPT ![p] = x]
      <4>1. CASE CheckVersion(p) \/ CheckOwner(p) \/ Unlink(p)
        BY <4>1 DEF CheckVersion, CheckOwner, Unlink, Move
      <4>2. CASE ReadSlot(p)
        BY <4>2 DEF ReadSlot, Move
      <4>3. CASE \E ok \in BOOLEAN : ReadDir(p, ok)
        BY <4>3 DEF ReadDir, Move
      <4>4. CASE \E ok \in BOOLEAN, n \in Pid : Visit(p, n, ok)
        BY <4>4 DEF Visit, Move
      <4> QED BY <1>10, <4>1, <4>2, <4>3, <4>4 DEF Advances
    <3>2. DOMAIN pc = Pid /\ DOMAIN scan = Pid /\ DOMAIN todo = Pid
      BY <1>0 DEF TypeOK
    <3>3. pc'[r] = pc[r]
      BY <2>3, <3>1, <3>2
    <3>4. scan'[r] = scan[r]
      BY <2>3, <3>1, <3>2
    <3>5. todo'[r] = todo[r]
      BY <2>3, <3>1, <3>2
    <3> QED BY ONLY <3>3, <3>4, <3>5
  <2> QED BY <2>2, <2>3
<1>11. ASSUME NEW p \in Pid, Return(p)
       PROVE  Left
  BY <1>0, <1>11 DEF Return, Move, TypeOK
<1> QED
  BY <1>1, <1>2, <1>3, <1>4, <1>6, <1>7, <1>8, <1>9, <1>10, <1>11 DEF Next, Working, Advances

-----------------------------------------------------------------------------
(* A reading of a shard lies between what was recorded when the scrape      *)
(* read the directory and what is recorded now.                             *)

(* The reading of the shard it is at, unread slots as they are now.         *)
Reading(r) ==
  [s \in MergeSlots |-> IF pc[r] = "read" /\ s \in todo[r]
                          THEN file[scan[r].at][s] ELSE scan[r].view[scan[r].at[1]][s]]

Sound(r) ==
  LET i == scan[r].at
  IN  /\ \A s \in Counters : Reading(r)[s] <= file[i][s]
      /\ scan[r].floor[i] <= Reading(r)[I_TOTAL]
      /\ scan[r].floor[i] <= BucketSum(Reading(r))
      /\ \A lo, hi \in Nat : Bounding(lo, hi) => scan[r].floor[i] * lo <= Reading(r)[I_SUM_US]

Unread(r) == scan[r].view[scan[r].at[1]] = EmptyReading

Faithful(r) ==
  /\ \A i \in Ino : scan[r].floor[i] <= done[i]
  /\ \A n \in Pid \ scan[r].seen : scan[r].view[n] = EmptyReading
  /\ scan[r].at # NoFile =>
       /\ scan[r].at[1] \in scan[r].seen
       /\ Sound(r) \/ (pc[r] # "read" /\ Unread(r))
       /\ pc[r] \in {"version", "owner", "unlink"} => Unread(r)

Readings == \A r \in Pid : Scanning(r) => Faithful(r)

LEMMA ScanType ==
  ASSUME TypeOK, NEW r \in Pid
  PROVE  /\ scan[r].at \in Ino \cup {NoFile}
         /\ scan[r].view \in [Pid -> [MergeSlots -> Nat]]
         /\ scan[r].floor \in [Ino -> Nat] /\ scan[r].base \in [Ino -> Nat]
         /\ scan[r].left \subseteq Pid /\ scan[r].seen \subseteq Pid
<1>1. scan[r] \in Scan
  BY DEF TypeOK
<1> QED BY <1>1 DEF Scan

LEMMA ReadingType ==
  ASSUME IType, NEW r \in Pid, Scanning(r), scan[r].at # NoFile
  PROVE  Reading(r) \in [MergeSlots -> Nat]
<1>1. scan[r].at \in Ino /\ scan[r].view[scan[r].at[1]] \in [MergeSlots -> Nat]
  BY ScanType, InoType DEF IType
<1>2. \A s \in MergeSlots : file[scan[r].at][s] \in Nat
  BY <1>1, SlotType DEF IType, TypeOK
<1> QED BY <1>1, <1>2 DEF Reading

LEMMA CounterBuckets ==
  /\ Counters \subseteq MergeSlots /\ BucketSlots \subseteq Counters
  /\ I_TOTAL \in Counters /\ I_ERRORS \in Counters /\ I_SUM_US \in Counters
BY BucketSlotsType, CounterSlots DEF Counters

LEMMA BucketSumMonotone ==
  ASSUME NEW f, NEW g, \A s \in BucketSlots : f[s] \in Nat /\ g[s] \in Nat /\ f[s] <= g[s]
  PROVE  BucketSum(f) <= BucketSum(g)
<1>1. \A s \in BucketSlots : f[s] \in Int /\ g[s] \in Int /\ f[s] <= g[s]
  OBVIOUS
<1>2. SumOf(f, BucketSlots) <= SumOf(g, BucketSlots)
  BY <1>1, BucketSlotsType, SumMonotone
<1> QED BY <1>2, BucketSumIs

(* While others act, a reading only gains what is recorded meanwhile.       *)
LEMMA ReadingRises ==
  ASSUME IType, IType', Headed, [Next]_vars, NEW r \in Pid, Scanning(r), scan[r].at # NoFile,
         pc'[r] = pc[r], scan'[r] = scan[r], todo'[r] = todo[r]
  PROVE  /\ Reading(r) \in [MergeSlots -> Nat] /\ Reading(r)' \in [MergeSlots -> Nat]
         /\ \A s \in Counters :
              /\ Reading(r)[s] <= Reading(r)'[s]
              /\ Reading(r)[s] <= file[scan[r].at][s] => Reading(r)'[s] <= file'[scan[r].at][s]
<1> DEFINE i == scan[r].at
           f == Reading(r)
           g == Reading(r)'
<1>0. i \in Ino
  BY ScanType DEF IType
<1>1. f \in [MergeSlots -> Nat] /\ g \in [MergeSlots -> Nat]
  <2>1. scan[r].view[i[1]] \in [MergeSlots -> Nat]
    BY <1>0, ScanType, InoType DEF IType
  <2>2. g = [s \in MergeSlots |-> IF pc[r] = "read" /\ s \in todo[r]
                                    THEN file'[i][s] ELSE scan[r].view[i[1]][s]]
    BY DEF Reading
  <2>3. \A s \in MergeSlots : file'[i][s] \in Nat
    <3>1. file' \in [Ino -> [Slot -> Nat]]
      BY DEF IType, TypeOK
    <3> QED BY <1>0, <3>1, SlotType
  <2> QED BY <2>1, <2>2, <2>3, ReadingType
<1>2. \A s \in Counters : file'[i][s] >= file[i][s] /\ file[i][s] \in Nat /\ file'[i][s] \in Nat
  BY <1>0, FileStep, CounterSlots DEF IType, TypeOK
<1>3. ASSUME NEW s \in Counters
      PROVE  f[s] <= g[s] /\ (f[s] <= file[i][s] => g[s] <= file'[i][s])
  <2>1. s \in MergeSlots /\ f[s] \in Nat /\ g[s] \in Nat
    BY <1>1, CounterBuckets
  <2>2. CASE pc[r] = "read" /\ s \in todo[r]
    <3>1. f[s] = file[i][s] /\ g[s] = file'[i][s]
      BY <2>1, <2>2 DEF Reading
    <3> QED BY <1>2, <2>1, <3>1
  <2>3. CASE ~(pc[r] = "read" /\ s \in todo[r])
    <3>1. f[s] = g[s]
      BY <2>1, <2>3 DEF Reading
    <3>2. file[i][s] <= file'[i][s] /\ file[i][s] \in Nat /\ file'[i][s] \in Nat
      BY <1>2
    <3> HIDE DEF f, g, i
    <3> QED BY <2>1, <3>1, <3>2
  <2> QED BY <2>2, <2>3
<1> QED BY <1>1, <1>3

LEMMA SoundLeft ==
  ASSUME IType, IType', Headed, [Next]_vars, NEW r \in Pid, Scanning(r), scan[r].at # NoFile,
         pc'[r] = pc[r], scan'[r] = scan[r], todo'[r] = todo[r], Sound(r)
  PROVE  Sound(r)'
<1> DEFINE i == scan[r].at
           f == Reading(r)
           g == Reading(r)'
<1>1. /\ f \in [MergeSlots -> Nat] /\ g \in [MergeSlots -> Nat]
      /\ \A s \in Counters : f[s] <= g[s] /\ (f[s] <= file[i][s] => g[s] <= file'[i][s])
  BY ReadingRises
<1>2. /\ \A s \in Counters : f[s] <= file[i][s]
      /\ scan[r].floor[i] <= f[I_TOTAL] /\ scan[r].floor[i] <= BucketSum(f)
  BY DEF Sound
<1>3. f[I_TOTAL] \in Nat /\ g[I_TOTAL] \in Nat /\ f[I_TOTAL] <= g[I_TOTAL]
  BY <1>1, CounterBuckets
<1>4. BucketSum(f) \in Nat /\ BucketSum(g) \in Nat /\ BucketSum(f) <= BucketSum(g)
  <2>1. \A s \in BucketSlots : f[s] \in Nat /\ g[s] \in Nat /\ f[s] <= g[s]
    BY <1>1, CounterBuckets
  <2> HIDE DEF f, g
  <2> QED BY <2>1, BucketSumMonotone, BucketSumType
<1>5. scan[r].floor[i] \in Nat
  BY ScanType DEF IType
<1>6. scan[r].floor[i] <= g[I_TOTAL] /\ scan[r].floor[i] <= BucketSum(g)
  <2> HIDE DEF f, g, i
  <2> QED BY <1>2, <1>3, <1>4, <1>5
<1>7. ASSUME NEW lo \in Nat, NEW hi \in Nat, Bounding(lo, hi)
      PROVE  scan[r].floor[i] * lo <= g[I_SUM_US]
  <2>1. f[I_SUM_US] \in Nat /\ g[I_SUM_US] \in Nat /\ f[I_SUM_US] <= g[I_SUM_US]
    BY <1>1, CounterBuckets
  <2>2. scan[r].floor[i] * lo <= f[I_SUM_US]
    BY <1>7 DEF Sound
  <2>3. scan[r].floor[i] * lo \in Int
    BY <1>5, Products
  <2> DEFINE low == scan[r].floor[i] * lo
  <2> HIDE DEF low, f, g
  <2>4. low <= g[I_SUM_US]
    BY <2>1, <2>2, <2>3 DEF low
  <2> QED BY <2>4 DEF low
<1> QED BY <1>1, <1>2, <1>6, <1>7 DEF Sound, Bounding

LEMMA FaithfulLeft ==
  ASSUME IType, IType', Headed, [Next]_vars, NEW r \in Pid, Scanning(r), Faithful(r),
         pc'[r] = pc[r], scan'[r] = scan[r], todo'[r] = todo[r]
  PROVE  Faithful(r)'
<1>1. \A i \in Ino : scan'[r].floor[i] <= done'[i]
  <2> SUFFICES ASSUME NEW i \in Ino PROVE scan'[r].floor[i] <= done'[i]
    OBVIOUS
  <2>1. scan[r].floor[i] \in Nat /\ done[i] \in Nat /\ done'[i] \in Nat
    BY ScanType DEF IType, TypeOK
  <2>2. scan[r].floor[i] <= done[i] /\ done[i] <= done'[i]
    BY DoneStep DEF Faithful
  <2> QED BY <2>1, <2>2
<1>2. scan[r].at # NoFile /\ Sound(r) => Sound(r)'
  BY SoundLeft
<1> QED BY <1>1, <1>2 DEF Faithful, Unread

(* While it goes on, a reading stays what it is: a slot is read as it is.   *)
LEMMA ReadSlotIs ==
  ASSUME IType, NEW r \in Pid, ReadSlot(r)
  PROVE  \E s \in todo[r] :
           /\ pc[r] = "read" /\ s \in MergeSlots /\ scan[r].at \in Ino
           /\ todo[r] \subseteq MergeSlots
           /\ todo'[r] = todo[r] \ {s}
           /\ pc'[r] = (IF todo[r] = {s} THEN "scan" ELSE "read")
           /\ scan'[r].floor = scan[r].floor /\ scan'[r].base = scan[r].base
           /\ scan'[r].at = scan[r].at
           /\ scan'[r].left = scan[r].left /\ scan'[r].seen = scan[r].seen
           /\ \A n \in Pid \ {scan[r].at[1]} : scan'[r].view[n] = scan[r].view[n]
           /\ \A t \in MergeSlots :
                scan'[r].view[scan[r].at[1]][t]
                  = IF t = s THEN file[scan[r].at][s] ELSE scan[r].view[scan[r].at[1]][t]
<1>1. pc[r] = "read" /\ todo[r] \subseteq MergeSlots /\ scan[r].at \in Ino
  BY DEF ReadSlot, IType, Control
<1>2. PICK s \in Due(r) :
        /\ scan' = [scan EXCEPT ![r].view[scan[r].at[1]][s] = file[scan[r].at][s]]
        /\ todo' = [todo EXCEPT ![r] = @ \ {s}]
        /\ pc' = [pc EXCEPT ![r] = IF todo[r] = {s} THEN "scan" ELSE "read"]
  BY DEF ReadSlot, Move
<1>3. s \in todo[r] /\ s \in MergeSlots
  BY <1>1 DEF Due
<1>4. scan[r] \in Scan /\ DOMAIN scan = Pid /\ DOMAIN todo = Pid /\ DOMAIN pc = Pid
  BY DEF IType, TypeOK
<1>5. todo'[r] = todo[r] \ {s} /\ pc'[r] = (IF todo[r] = {s} THEN "scan" ELSE "read")
  BY <1>2, <1>4
<1> DEFINE n    == scan[r].at[1]
           view == [scan[r].view EXCEPT ![n][s] = file[scan[r].at][s]]
<1>6. scan'[r] = [scan[r] EXCEPT !.view = view]
  <2>1. scan' = [scan EXCEPT ![r] = [scan[r] EXCEPT !.view = view]]
    BY <1>2
  <2> HIDE DEF view
  <2> QED BY <1>4, <2>1
<1>7. /\ scan'[r].floor = scan[r].floor /\ scan'[r].base = scan[r].base
      /\ scan'[r].at = scan[r].at /\ scan'[r].view = view
      /\ scan'[r].left = scan[r].left /\ scan'[r].seen = scan[r].seen
  <2> HIDE DEF view
  <2> QED BY <1>4, <1>6 DEF Scan
<1>8. scan[r].view \in [Pid -> [MergeSlots -> Nat]] /\ n \in Pid
  BY <1>1, ScanType, InoType DEF IType
<1>9. /\ \A m \in Pid \ {n} : view[m] = scan[r].view[m]
      /\ \A t \in MergeSlots :
           view[n][t] = IF t = s THEN file[scan[r].at][s] ELSE scan[r].view[n][t]
  BY <1>3, <1>8
<1> HIDE DEF view
<1> QED BY <1>1, <1>3, <1>5, <1>7, <1>9

LEMMA ReadSlotReading ==
  ASSUME IType, NEW r \in Pid, ReadSlot(r), UNCHANGED file
  PROVE  Reading(r)' = Reading(r)
<1> DEFINE i == scan[r].at
<1>1. PICK s \in todo[r] :
        /\ pc[r] = "read" /\ s \in MergeSlots /\ i \in Ino /\ todo[r] \subseteq MergeSlots
        /\ todo'[r] = todo[r] \ {s}
        /\ pc'[r] = (IF todo[r] = {s} THEN "scan" ELSE "read")
        /\ scan'[r].at = i
        /\ \A t \in MergeSlots :
             scan'[r].view[i[1]][t] = IF t = s THEN file[i][s] ELSE scan[r].view[i[1]][t]
  BY ReadSlotIs
<1>2. \A t \in MergeSlots : (pc'[r] = "read" /\ t \in todo'[r]) <=> (t \in todo[r] /\ t # s)
  BY <1>1
<1>3. Reading(r)' = [t \in MergeSlots |-> IF pc'[r] = "read" /\ t \in todo'[r]
                                            THEN file[i][t] ELSE scan'[r].view[i[1]][t]]
  BY <1>1 DEF Reading
<1>4. Reading(r) = [t \in MergeSlots |-> IF t \in todo[r] THEN file[i][t]
                                                           ELSE scan[r].view[i[1]][t]]
  BY <1>1 DEF Reading
<1> HIDE DEF i
<1>5. ASSUME NEW t \in MergeSlots
      PROVE  (IF pc'[r] = "read" /\ t \in todo'[r] THEN file[i][t] ELSE scan'[r].view[i[1]][t])
               = IF t \in todo[r] THEN file[i][t] ELSE scan[r].view[i[1]][t]
  BY <1>1, <1>2
<1> QED BY ONLY <1>3, <1>4, <1>5

LEMMA FaithfulReadSlot ==
  ASSUME IType, NEW r \in Pid, Faithful(r), ReadSlot(r), UNCHANGED <<file, done>>
  PROVE  Faithful(r)'
<1> DEFINE i == scan[r].at
<1>1. /\ pc[r] = "read" /\ i \in Ino /\ pc'[r] \in {"scan", "read"}
      /\ scan'[r].floor = scan[r].floor /\ scan'[r].at = i /\ scan'[r].seen = scan[r].seen
      /\ \A n \in Pid \ {i[1]} : scan'[r].view[n] = scan[r].view[n]
  BY ReadSlotIs
<1>2. i # NoFile /\ i[1] \in Pid /\ i[1] \in scan[r].seen /\ Sound(r)
  BY <1>1, InoType DEF Faithful
<1>3. Sound(r)'
  BY <1>1, <1>2, ReadSlotReading DEF Sound
<1> QED BY <1>1, <1>2, <1>3 DEF Faithful

LEMMA FaithfulAdvance ==
  ASSUME IType, Tally, SumTally, NEW r \in Pid, Scanning(r) => Faithful(r), Advances(r),
         UNCHANGED <<file, begun, done>>
  PROVE  Faithful(r)'
<1>0. TypeOK
  BY DEF IType
<1>1. CASE ReadSlot(r)
  BY <1>1, FaithfulReadSlot DEF ReadSlot, Scanning
<1>2. ASSUME NEW ok \in BOOLEAN, ReadDir(r, ok)
      PROVE  Faithful(r)'
  <2>1. scan'[r].at = NoFile /\ scan'[r].view = EmptyView /\ scan'[r].floor = done
    BY <1>0, <1>2 DEF ReadDir, NoScan, TypeOK
  <2> QED BY <1>0, <2>1 DEF Faithful, EmptyView, TypeOK
<1>3. ASSUME NEW ok \in BOOLEAN, NEW n \in Pid, Visit(r, n, ok)
      PROVE  Faithful(r)'
  <2>1. /\ scan'[r].view = scan[r].view /\ scan'[r].floor = scan[r].floor
        /\ scan'[r].seen = scan[r].seen \cup {n}
        /\ scan'[r].at = IF ok THEN <<n, dir[n]>> ELSE NoFile
        /\ pc'[r] = IF ok THEN "version" ELSE "scan"
        /\ pc[r] = "scan" /\ n \notin scan[r].seen
    <3>1. scan[r] \in Scan /\ DOMAIN scan = Pid /\ DOMAIN pc = Pid
      BY <1>0 DEF TypeOK
    <3> QED BY <1>3, <3>1 DEF Visit, Move, Scan
  <2>2. Faithful(r)
    BY <2>1 DEF Scanning
  <2>3. scan'[r].view[n] = EmptyReading
    BY <2>1, <2>2 DEF Faithful
  <2> QED BY <2>1, <2>2, <2>3 DEF Faithful, Unread
<1>4. CASE CheckVersion(r) \/ Unlink(r)
  <2>1. /\ UNCHANGED <<scan, todo>> /\ pc[r] \in {"version", "unlink"}
        /\ pc'[r] \in {"owner", "scan"}
    BY <1>0, <1>4 DEF CheckVersion, Unlink, Move, ctl, TypeOK
  <2>2. Faithful(r) /\ scan[r].at \in Ino
    BY <2>1 DEF Scanning, IType, Control
  <2> QED BY <2>1, <2>2, InoType DEF Faithful, Unread
<1>5. CASE CheckOwner(r)
  <2>1. /\ UNCHANGED scan /\ pc[r] = "owner"
        /\ pc'[r] = "unlink" \/ (pc'[r] = "read" /\ todo'[r] = MergeSlots)
    BY <1>0, <1>5 DEF CheckOwner, Move, ctl, TypeOK
  <2> DEFINE i == scan[r].at
  <2>2. Faithful(r) /\ i \in Ino /\ i # NoFile
    BY <2>1, InoType DEF Scanning, IType, Control
  <2>3. CASE pc'[r] = "unlink"
    BY <2>1, <2>2, <2>3 DEF Faithful, Unread
  <2>4. CASE pc'[r] = "read" /\ todo'[r] = MergeSlots
    <3>1. \A s \in MergeSlots : Reading(r)'[s] = file[i][s]
      BY <2>1, <2>4 DEF Reading
    <3>2. BucketSum(Reading(r)') = BucketSum(file[i])
      BY <3>1, CounterBuckets, BucketSumSame
    <3>3. /\ scan[r].floor[i] <= done[i] /\ done[i] <= file[i][I_TOTAL]
          /\ done[i] <= BucketSum(file[i])
      BY <1>0, <2>2, TallyBounds DEF Faithful
    <3>4. /\ scan[r].floor[i] \in Nat /\ done[i] \in Nat /\ file[i][I_TOTAL] \in Nat
          /\ BucketSum(file[i]) \in Nat
      BY <1>0, <2>2, ShardType, ScanType
    <3>5. scan[r].floor[i] <= file[i][I_TOTAL] /\ scan[r].floor[i] <= BucketSum(file[i])
      BY <3>3, <3>4
    <3>6. \A s \in Counters : file[i][s] <= file[i][s]
      BY <1>0, <2>2, CounterSlots DEF TypeOK
    <3>7. ASSUME NEW lo \in Nat, NEW hi \in Nat, Bounding(lo, hi)
          PROVE  scan[r].floor[i] * lo <= file[i][I_SUM_US]
      <4>1. /\ scan[r].floor[i] * lo <= done[i] * lo
            /\ scan[r].floor[i] * lo \in Int
        BY <3>3, <3>4, Products
      <4>2. /\ done[i] * lo <= file[i][I_SUM_US]
            /\ done[i] * lo \in Int /\ file[i][I_SUM_US] \in Nat
        BY <1>0, <2>2, <3>7, SumBounds
      <4> DEFINE low == scan[r].floor[i] * lo
                 mid == done[i] * lo
      <4> HIDE DEF low, mid
      <4>3. low <= file[i][I_SUM_US]
        BY <4>1, <4>2 DEF low, mid
      <4> QED BY <4>3 DEF low
    <3>8. Sound(r)'
      BY <2>1, <3>1, <3>2, <3>5, <3>6, <3>7, CounterBuckets DEF Sound, Bounding
    <3> QED BY <2>1, <2>2, <2>4, <3>8 DEF Faithful
  <2> QED BY <2>1, <2>3, <2>4
<1> QED BY <1>1, <1>2, <1>3, <1>4, <1>5 DEF Advances

LEMMA NextReadings ==
  ASSUME IType, IType', Headed, Tally, SumTally, Readings, [Next]_vars
  PROVE  Readings'
<1> SUFFICES ASSUME NEW r \in Pid, Scanning(r)'
             PROVE  Faithful(r)'
  BY DEF Readings
<1>1. CASE pc'[r] = pc[r] /\ scan'[r] = scan[r] /\ todo'[r] = todo[r]
  BY <1>1, FaithfulLeft DEF Readings, Scanning
<1>2. CASE Advances(r) /\ UNCHANGED <<file, begun, done>>
  BY <1>2, FaithfulAdvance DEF Readings
<1> QED BY <1>1, <1>2, ScanStep

LEMMA ReadingsInvariant == Spec => [](IType /\ Headed /\ Tally /\ SumTally /\ Readings)
<1> DEFINE Inv == IType /\ Headed /\ Tally /\ SumTally /\ Readings
<1>1. Init => Inv
  BY InitHeaded, InitTally, InitSumTally DEF Readings, Scanning, Init
<1>2. Inv /\ [Next]_vars => Inv'
  BY NextType, NextControl, NextHeaded, NextTally, NextSumTally, NextReadings DEF IType
<1> QED BY <1>1, <1>2, PTL DEF Spec

LEMMA EmptySums ==
  /\ BucketSum(EmptyReading) = 0 /\ EmptyReading[I_TOTAL] = 0
  /\ EmptyReading[I_ERRORS] = 0 /\ EmptyReading[I_SUM_US] = 0
<1>1. \A s \in Counters : EmptyReading[s] = 0
  BY DEF EmptyReading, Counters
<1> QED BY <1>1, CounterBuckets, BucketSlotsType, BucketSumIs, SumZero

(* With that many requests in it, a sum is within the slack of the total.   *)
LEMMA SumWithin ==
  ASSUME NEW total \in Nat, NEW floor \in Nat, NEW calls \in Nat, NEW sum \in Nat,
         NEW lo \in Nat, NEW hi \in Nat, floor <= total, total <= calls,
         floor * lo <= sum, sum <= calls * hi
  PROVE  /\ (total - (calls - floor)) * lo <= sum
         /\ sum <= (total + (calls - floor)) * hi
<1> DEFINE m == total - (calls - floor)
           n == total + (calls - floor)
<1>1. m \in Int /\ n \in Int /\ m <= floor /\ calls <= n
  OBVIOUS
<1> HIDE DEF m, n
<1>2. /\ m * lo <= floor * lo /\ calls * hi <= n * hi
      /\ m * lo \in Int /\ floor * lo \in Int /\ calls * hi \in Int /\ n * hi \in Int
  BY <1>1, Products
<1> DEFINE a == m * lo
           b == floor * lo
           c == calls * hi
           d == n * hi
<1> HIDE DEF a, b, c, d
<1>3. a <= sum /\ sum <= d
  BY <1>2 DEF a, b, c, d
<1> QED BY <1>3 DEF a, d, m, n

(* The fields of a reading disagree at most by the requests whose record()  *)
(* overlapped the scrape or never returned, whosever shard it is and        *)
(* whatever the workers, the system and the directory do meanwhile.         *)
THEOREM ReadingsSkew == Spec => []SkewBounded
<1>1. ASSUME IType, Headed, Tally, SumTally, Readings
      PROVE  SkewBounded
  <2> SUFFICES ASSUME NEW r \in Pid, pc[r] = "scan", scan[r].at # NoFile
               PROVE  LET i     == scan[r].at
                          read  == scan[r].view[i[1]]
                          slack == begun[i] - scan[r].floor[i]
                      IN  /\ read[I_TOTAL] - BucketSum(read) \in -slack .. slack
                          /\ read[I_ERRORS] <= read[I_TOTAL] + slack
                          /\ \A lo, hi \in Latencies : Bounding(lo, hi) =>
                               /\ (read[I_TOTAL] - slack) * lo <= read[I_SUM_US]
                               /\ read[I_SUM_US] <= (read[I_TOTAL] + slack) * hi
    BY DEF SkewBounded
  <2> DEFINE i    == scan[r].at
             read == scan[r].view[i[1]]
  <2>0. TypeOK /\ i \in Ino /\ Faithful(r)
    BY <1>1, ScanType DEF IType, Readings, Scanning
  <2>1. read \in [MergeSlots -> Nat]
    BY <2>0, ScanType, InoType
  <2>2. /\ read[I_TOTAL] \in Nat /\ read[I_ERRORS] \in Nat /\ read[I_SUM_US] \in Nat
        /\ BucketSum(read) \in Nat
    <3> HIDE DEF read
    <3> QED BY <2>1, CounterBuckets, BucketSumType
  <2>3. /\ scan[r].floor[i] \in Nat /\ begun[i] \in Nat /\ done[i] \in Nat
        /\ file[i][I_TOTAL] \in Nat /\ file[i][I_ERRORS] \in Nat /\ BucketSum(file[i]) \in Nat
    BY <2>0, ShardType, ScanType
  <2>4. /\ done[i] <= file[i][I_TOTAL] /\ file[i][I_TOTAL] <= begun[i]
        /\ BucketSum(file[i]) <= begun[i] /\ file[i][I_ERRORS] <= begun[i]
        /\ scan[r].floor[i] <= done[i]
    BY <1>1, <2>0, TallyBounds DEF Faithful
  <2> DEFINE floor == scan[r].floor[i]
             calls == begun[i]
  <2> SUFFICES
          /\ floor <= calls
          /\ read[I_TOTAL] - BucketSum(read) \in -(calls - floor) .. (calls - floor)
          /\ read[I_ERRORS] <= read[I_TOTAL] + (calls - floor)
          /\ \A lo, hi \in Nat : Bounding(lo, hi) =>
               /\ (read[I_TOTAL] - (calls - floor)) * lo <= read[I_SUM_US]
               /\ read[I_SUM_US] <= (read[I_TOTAL] + (calls - floor)) * hi
    <3>1. Latencies \subseteq Nat
      BY MicrosType, RequestAssumption DEF Latencies
    <3> HIDE DEF read
    <3> QED BY <3>1 DEF read
  <2>5. CASE Unread(r)
    <3>1. /\ read[I_TOTAL] = 0 /\ read[I_ERRORS] = 0 /\ BucketSum(read) = 0
          /\ read[I_SUM_US] = 0
      BY <2>5, EmptySums DEF Unread
    <3>2. floor <= calls /\ floor \in Nat /\ calls \in Nat
      BY <2>3, <2>4
    <3> HIDE DEF i, read, floor, calls
    <3>3. ASSUME NEW lo \in Nat, NEW hi \in Nat
          PROVE  (0 - (calls - floor)) * lo <= 0 /\ 0 <= (0 + (calls - floor)) * hi
      <4>1. (0 - (calls - floor)) * lo <= 0 * lo /\ 0 * hi <= (0 + (calls - floor)) * hi
        BY <3>2, Products
      <4> QED BY <4>1
    <3> QED BY <3>1, <3>2, <3>3
  <2>6. CASE Sound(r)
    <3>1. Reading(r) = read
      BY <2>1 DEF Reading
    <3>2. /\ \A s \in Counters : read[s] <= file[i][s]
          /\ scan[r].floor[i] <= read[I_TOTAL] /\ scan[r].floor[i] <= BucketSum(read)
      BY <2>6, <3>1 DEF Sound
    <3>3. read[I_TOTAL] <= file[i][I_TOTAL] /\ read[I_ERRORS] <= file[i][I_ERRORS]
      BY <3>2, CounterBuckets
    <3>4. BucketSum(read) <= BucketSum(file[i])
      <4> DEFINE f == file[i]
      <4>1. \A s \in BucketSlots : read[s] \in Nat /\ f[s] \in Nat /\ read[s] <= f[s]
        BY <2>0, <2>1, <3>2, CounterBuckets, CounterSlots DEF TypeOK
      <4> HIDE DEF read, f
      <4>2. BucketSum(read) <= BucketSum(f)
        BY <4>1, BucketSumMonotone
      <4> QED BY <4>2 DEF f
    <3>5. /\ read[I_TOTAL] <= calls /\ BucketSum(read) <= calls
          /\ read[I_ERRORS] <= calls /\ floor <= calls
          /\ floor \in Nat /\ calls \in Nat
          /\ floor <= read[I_TOTAL] /\ floor <= BucketSum(read)
      <4> HIDE DEF read
      <4> QED BY <2>2, <2>3, <2>4, <3>2, <3>3, <3>4
    <3>6. ASSUME NEW lo \in Nat, NEW hi \in Nat, Bounding(lo, hi)
          PROVE  floor * lo <= read[I_SUM_US] /\ read[I_SUM_US] <= calls * hi
      <4>1. floor * lo <= read[I_SUM_US]
        BY <2>6, <3>1, <3>6 DEF Sound
      <4>2. /\ file[i][I_SUM_US] <= begun[i] * hi /\ begun[i] * hi \in Int
            /\ file[i][I_SUM_US] \in Nat
        BY <1>1, <2>0, <3>6, SumBounds
      <4>3. read[I_SUM_US] <= file[i][I_SUM_US]
        BY <3>2, CounterBuckets
      <4> DEFINE top == begun[i] * hi
      <4> HIDE DEF top, read
      <4>4. read[I_SUM_US] <= top
        BY <2>2, <4>2, <4>3 DEF top
      <4> QED BY <4>1, <4>4 DEF top
    <3> HIDE DEF i, read, floor, calls
    <3>7. ASSUME NEW lo \in Nat, NEW hi \in Nat, Bounding(lo, hi)
          PROVE  /\ (read[I_TOTAL] - (calls - floor)) * lo <= read[I_SUM_US]
                 /\ read[I_SUM_US] <= (read[I_TOTAL] + (calls - floor)) * hi
      BY <2>2, <3>5, <3>6, <3>7, SumWithin
    <3>8. /\ read[I_TOTAL] - BucketSum(read) \in -(calls - floor) .. (calls - floor)
          /\ read[I_ERRORS] <= read[I_TOTAL] + (calls - floor)
      BY <2>2, <3>5
    <3> QED BY <3>5, <3>7, <3>8
  <2> QED BY <2>0, <2>5, <2>6 DEF Faithful
<1> QED BY <1>1, ReadingsInvariant, PTL

-----------------------------------------------------------------------------
(* A scrape misses no live worker, when workers share no shard and the      *)
(* directory can be read.                                                   *)
Readable == "read_error" \notin Env

(* A count that includes the requests the scrape must report of shard i.    *)
Covers(r, i, n) == n >= scan[r].floor[i] /\ n >= scan[r].base[i]

(* The scrape has counted the shard, or still will.                         *)
Assured(r, i) ==
  \/ i[1] \in scan[r].left
  \/ scan[r].at = i /\ pc[r] \in {"version", "owner"}
  \/ scan[r].at = i /\ pc[r] = "read" /\ Covers(r, i, Reading(r)[I_TOTAL])
  \/ Covers(r, i, scan[r].view[i[1]][I_TOTAL])

NothingDue(r, i) == scan[r].floor[i] = 0 /\ scan[r].base[i] = 0

Counted(r, i) ==
  /\ i[1] \in used
  /\ proc[i[1]] = "running" => dir[i[1]] = i[2] /\ Complete(i) /\ Assured(r, i)

(* The shard a scrape is at is the one of its worker, if that runs.         *)
AtListed(r) ==
  LET i == scan[r].at
  IN  i # NoFile => i[1] \in used /\ (proc[i[1]] = "running" => dir[i[1]] = i[2])

Tracked(r) ==
  /\ AtListed(r)
  /\ \A i \in Ino :
       /\ scan[r].base[i] <= file[i][I_TOTAL]
       /\ NothingDue(r, i) \/ Counted(r, i)

LEMMA TrackedLeft ==
  ASSUME Unshared, IType, IType', Isolation, Headed, Listed, [Next]_vars,
         NEW r \in Pid, Scanning(r), Tracked(r),
         pc'[r] = pc[r], scan'[r] = scan[r], todo'[r] = todo[r]
  PROVE  Tracked(r)'
<1>1. \A n \in Pid : Lives(n)
  BY LivesStep
<1>2. AtListed(r)'
  <2>1. scan[r].at \in Ino \cup {NoFile} /\ \A j \in Ino : j[1] \in Pid /\ j[2] # 0
    BY ScanType, InoType DEF IType
  <2> QED BY <1>1, <2>1 DEF Tracked, AtListed, Lives
<1>3. ASSUME NEW i \in Ino
      PROVE  scan'[r].base[i] <= file'[i][I_TOTAL]
  <2>1. scan[r].base[i] \in Nat /\ file[i][I_TOTAL] \in Nat
    BY ScanType, ShardType DEF IType
  <2>2. file'[i][I_TOTAL] \in Nat
    BY CounterSlots DEF IType, TypeOK
  <2>3. file'[i][I_TOTAL] >= file[i][I_TOTAL] /\ scan[r].base[i] <= file[i][I_TOTAL]
    BY FileStep, CounterSlots DEF Tracked
  <2> QED BY <2>1, <2>2, <2>3
<1>4. ASSUME NEW i \in Ino
      PROVE  NothingDue(r, i)' \/ Counted(r, i)'
  <2>1. CASE NothingDue(r, i)
    BY <2>1 DEF NothingDue
  <2>2. CASE Counted(r, i)
    <3>0. i[1] \in Pid /\ i[2] # 0
      BY InoType
    <3>1. i[1] \in used'
      BY <1>1, <2>2, <3>0 DEF Counted, Lives
    <3>2. SUFFICES ASSUME proc'[i[1]] = "running"
                   PROVE  dir'[i[1]] = i[2] /\ Complete(i)' /\ Assured(r, i)'
      BY <3>1 DEF Counted
    <3>3. proc[i[1]] = "running" /\ (dir[i[1]] = 0 \/ dir'[i[1]] = dir[i[1]])
      BY <1>1, <2>2, <3>0, <3>2 DEF Counted, Lives
    <3>4. dir[i[1]] = i[2] /\ Complete(i) /\ Assured(r, i)
      BY <2>2, <3>3 DEF Counted
    <3>5. dir'[i[1]] = i[2] /\ Complete(i)'
      BY <3>0, <3>3, <3>4, FileStep
    <3>6. scan[r].at = i /\ Covers(r, i, Reading(r)[I_TOTAL]) => Covers(r, i, Reading(r)[I_TOTAL])'
      <4> SUFFICES ASSUME scan[r].at = i, Covers(r, i, Reading(r)[I_TOTAL])
                   PROVE  Covers(r, i, Reading(r)[I_TOTAL])'
        OBVIOUS
      <4>1. /\ Reading(r)[I_TOTAL] \in Nat /\ Reading(r)'[I_TOTAL] \in Nat
            /\ Reading(r)[I_TOTAL] <= Reading(r)'[I_TOTAL]
        BY ReadingRises, CounterBuckets, InoType
      <4>2. scan[r].floor[i] \in Nat /\ scan[r].base[i] \in Nat
        BY ScanType DEF IType
      <4> QED BY <4>1, <4>2 DEF Covers
    <3>7. Assured(r, i)'
      BY <3>4, <3>6 DEF Assured, Covers
    <3> QED BY <3>5, <3>7
  <2> QED BY <2>1, <2>2 DEF Tracked
<1> QED BY <1>2, <1>3, <1>4 DEF Tracked

(* A file of a running worker is its own or has no header: its name leads   *)
(* to the only file it ever completed.                                      *)
Strays ==
  \A i \in Ino : proc[i[1]] = "running" /\ dir[i[1]] # i[2] => ~Complete(i)

LEMMA CompletedBy ==
  ASSUME IType, [Next]_vars, NEW i \in Ino, ~Complete(i), Complete(i)'
  PROVE  \E p \in Pid : writer'[p] = i
<1> USE DEF os, disk, state, ctl, hist
<1>1. file'[i] # file[i]
  BY DEF Complete
<1>2. CASE \E p \in Pid : Open(p)
  <2>1. PICK p \in Pid : Open(p)
    BY <1>2
  <2>2. \E j : file' = [file EXCEPT ![j] = ZeroShard]
    BY <1>1, <2>1 DEF Open
  <2>3. file'[i] = ZeroShard
    BY <1>1, <2>2 DEF IType, TypeOK
  <2> QED BY <2>3, CounterSlots DEF Complete, ZeroShard, FORMAT_VERSION
<1>3. CASE \E p \in Pid : StoreHeader(p)
  <2>1. PICK p \in Pid : StoreHeader(p)
    BY <1>3
  <2>2. writer[p] = i
    BY <1>1, <2>1 DEF StoreHeader, IType, TypeOK
  <2>3. writer' = writer \/ writer' = [writer EXCEPT ![p] = writer[p]]
    BY <2>1 DEF StoreHeader, Proceed
  <2> QED BY <2>2, <2>3 DEF IType, TypeOK
<1>4. CASE \E p \in Pid : AddToShard(p)
  <2>1. PICK p \in Pid : AddToShard(p)
    BY <1>4
  <2>2. writer[p] = i /\ writer' = writer
    BY <1>1, <2>1, AddIs
  <2> QED BY <2>2
<1>5. CASE UNCHANGED file
  BY <1>1, <1>5
<1>6. ASSUME NEW p \in Pid, NEW c \in Call, Invoke(p, c)
      PROVE  UNCHANGED file
  BY <1>6 DEF Invoke
<1>7. ASSUME NEW p \in Pid, NEW q \in Pid, Fork(q, p)
      PROVE  UNCHANGED file
  BY <1>7 DEF Fork
<1>8. ASSUME NEW p \in Pid,
             \/ Start(p) \/ StartForeign(p) \/ Crash(p) \/ Reap(p) \/ Disable(p) \/ Degrade(p)
             \/ CheckVersion(p) \/ CheckOwner(p) \/ Unlink(p) \/ ReadSlot(p) \/ Return(p)
             \/ \E ok \in BOOLEAN : ReadDir(p, ok) \/ \E n \in Pid : Visit(p, n, ok)
      PROVE  UNCHANGED file
  BY <1>8 DEF Start, StartForeign, Crash, Reap, Disable, Degrade, CheckVersion, CheckOwner,
              Unlink, ReadSlot, Return, ReadDir, Visit
<1>9. CASE UNCHANGED vars
  BY <1>5, <1>9 DEF vars
<1> QED BY <1>2, <1>3, <1>4, <1>5, <1>6, <1>7, <1>8, <1>9 DEF Next, Working

LEMMA NextStrays ==
  ASSUME Unshared, IType, Isolation, Isolation', Strays, [Next]_vars
  PROVE  Strays'
<1> SUFFICES ASSUME NEW i \in Ino, proc'[i[1]] = "running", dir'[i[1]] # i[2], Complete(i)'
             PROVE  FALSE
  BY DEF Strays
<1>0. i[1] \in Pid /\ i[2] # 0
  BY InoType
<1>1. ~Complete(i)
  <2>1. CASE proc[i[1]] = "running" /\ (dir[i[1]] = 0 \/ dir'[i[1]] = dir[i[1]])
    BY <1>0, <2>1 DEF Strays
  <2>2. CASE i[1] \notin used
    BY <1>0, <2>2, InoType, PidAssumption DEF Isolation, Complete
  <2> QED BY <1>0, <2>1, <2>2, LivesStep DEF Lives
<1>2. PICK p \in Pid : writer'[p] = i
  BY <1>1, CompletedBy
<1>3. i[1] = p /\ dir'[p] = i[2]
  BY <1>0, <1>2, InoType DEF Isolation
<1> QED BY <1>3

LEMMA TrackedReadDir ==
  ASSUME Readable, IType, Isolation, Headed, Tally, Strays,
         NEW r \in Pid, NEW ok \in BOOLEAN, ReadDir(r, ok)
  PROVE  Tracked(r)'
<1>0. TypeOK
  BY DEF IType
<1>1. /\ scan'[r].at = NoFile /\ scan'[r].left = {n \in Pid : dir[n] # 0}
      /\ scan'[r].floor = done
      /\ scan'[r].base = [i \in Ino |-> file[i][I_TOTAL]]
      /\ UNCHANGED <<proc, used, dir, file>>
  BY <1>0 DEF ReadDir, Readable, NoScan, TypeOK, os, disk
<1>2. ASSUME NEW i \in Ino
      PROVE  scan'[r].base[i] <= file'[i][I_TOTAL] /\ (NothingDue(r, i)' \/ Counted(r, i)')
  <2>1. file[i][I_TOTAL] \in Nat /\ done[i] \in Nat /\ done[i] <= file[i][I_TOTAL]
    BY <1>0, ShardType, TallyBounds
  <2>2. scan'[r].base[i] <= file'[i][I_TOTAL] /\ scan'[r].floor[i] = done[i]
    BY <1>1, <2>1
  <2>3. CASE ~Complete(i)
    <3>1. file[i][I_TOTAL] = 0
      BY <2>3, CounterSlots DEF Headed, HeaderFirst, Counters
    <3>2. done[i] = 0
      BY <2>1, <3>1
    <3> QED BY <1>1, <2>2, <3>1, <3>2 DEF NothingDue
  <2>4. CASE Complete(i)
    <3>1. i[1] \in used /\ i[1] \in Pid /\ i[2] # 0
      BY <2>4, InoType DEF Isolation, Complete
    <3>2. proc[i[1]] = "running" => dir[i[1]] = i[2]
      BY <2>4 DEF Strays
    <3> QED BY <1>1, <2>2, <2>4, <3>1, <3>2 DEF Counted, Assured, Complete
  <2> QED BY <2>3, <2>4
<1> QED BY <1>1, <1>2 DEF Tracked, AtListed

LEMMA TrackedVisit ==
  ASSUME Readable, IType, Listed, NEW r \in Pid, Tracked(r),
         NEW n \in Pid, NEW ok \in BOOLEAN, Visit(r, n, ok)
  PROVE  Tracked(r)'
<1>1. /\ scan'[r].view = scan[r].view /\ scan'[r].floor = scan[r].floor
      /\ scan'[r].base = scan[r].base /\ scan'[r].left = scan[r].left \ {n}
      /\ scan'[r].at = IF ok THEN <<n, dir[n]>> ELSE NoFile
      /\ pc'[r] = (IF ok THEN "version" ELSE "scan") /\ pc[r] = "scan"
      /\ UNCHANGED <<proc, used, dir, file>>
      /\ IF ok THEN dir[n] # 0 ELSE dir[n] = 0
  <2>1. scan[r] \in Scan /\ DOMAIN scan = Pid /\ DOMAIN pc = Pid
    BY DEF IType, TypeOK
  <2>2. scan'[r] = [scan[r] EXCEPT !.left = @ \ {n}, !.seen = @ \cup {n},
                                   !.at = IF ok THEN <<n, dir[n]>> ELSE NoFile]
    BY <2>1 DEF Visit
  <2>3. /\ pc'[r] = (IF ok THEN "version" ELSE "scan") /\ pc[r] = "scan"
        /\ UNCHANGED <<proc, used, dir, file>>
        /\ IF ok THEN dir[n] # 0 ELSE dir[n] = 0
    BY <2>1 DEF Visit, Move, Readable, os, disk
  <2> QED BY <2>1, <2>2, <2>3 DEF Scan
<1>2. AtListed(r)'
  BY <1>1 DEF AtListed, Listed
<1>3. ASSUME NEW i \in Ino
      PROVE  NothingDue(r, i)' \/ Counted(r, i)'
  <2>1. CASE NothingDue(r, i)
    BY <1>1, <2>1 DEF NothingDue
  <2>2. CASE Counted(r, i)
    <3>1. ASSUME proc[i[1]] = "running"
          PROVE  Assured(r, i)'
      <4>1. dir[i[1]] = i[2] /\ Assured(r, i) /\ i = <<i[1], i[2]>> /\ i[2] # 0
        BY <2>2, <3>1, InoType DEF Counted
      <4>2. CASE i[1] = n
        BY <1>1, <4>1, <4>2 DEF Assured
      <4>3. CASE i[1] # n
        BY <1>1, <4>1, <4>3, InoType DEF Assured, Covers
      <4> QED BY <4>2, <4>3
    <3> QED BY <1>1, <2>2, <3>1 DEF Counted, Complete
  <2> QED BY <2>1, <2>2 DEF Tracked
<1> QED BY <1>1, <1>2, <1>3 DEF Tracked

LEMMA TrackedReadSlot ==
  ASSUME IType, Tally, NEW r \in Pid, Tracked(r), Faithful(r), ReadSlot(r),
         UNCHANGED <<proc, used, dir, file>>
  PROVE  Tracked(r)'
<1> DEFINE j == scan[r].at
<1>1. PICK s \in todo[r] :
        /\ pc[r] = "read" /\ s \in MergeSlots /\ j \in Ino /\ todo[r] \subseteq MergeSlots
        /\ todo'[r] = todo[r] \ {s}
        /\ pc'[r] = (IF todo[r] = {s} THEN "scan" ELSE "read")
        /\ scan'[r].floor = scan[r].floor /\ scan'[r].base = scan[r].base /\ scan'[r].at = j
        /\ scan'[r].left = scan[r].left
        /\ \A n \in Pid \ {j[1]} : scan'[r].view[n] = scan[r].view[n]
        /\ \A t \in MergeSlots :
             scan'[r].view[j[1]][t] = IF t = s THEN file[j][s] ELSE scan[r].view[j[1]][t]
  BY ReadSlotIs
<1>2. ASSUME NEW i \in Ino
      PROVE  NothingDue(r, i)' \/ Counted(r, i)'
  <2>1. CASE NothingDue(r, i)
    BY <1>1, <2>1 DEF NothingDue
  <2>2. CASE Counted(r, i)
    <3> SUFFICES ASSUME proc[i[1]] = "running"
                 PROVE  Assured(r, i)'
      BY <1>1, <2>2 DEF Counted, Complete
    <3>1. dir[i[1]] = i[2] /\ Assured(r, i) /\ i[1] \in Pid
      BY <2>2, InoType DEF Counted
    <3>2. CASE i # j
      <4>1. i[1] # j[1]
        BY <1>1, <3>1, <3>2, InoType DEF Tracked, AtListed
      <4> QED BY <1>1, <3>1, <3>2, <4>1 DEF Assured, Covers
    <3>3. CASE i = j
      <4>1. /\ scan[r].floor[i] \in Nat /\ scan[r].base[i] \in Nat
            /\ file[i][I_TOTAL] \in Nat /\ done[i] \in Nat
        BY ScanType, ShardType DEF IType
      <4>2. Covers(r, i, file[i][I_TOTAL])
        <5>1. /\ scan[r].base[i] <= file[i][I_TOTAL] /\ scan[r].floor[i] <= done[i]
              /\ done[i] <= file[i][I_TOTAL]
          BY TallyBounds DEF Tracked, Faithful, IType
        <5> QED BY <4>1, <5>1 DEF Covers
      <4>3. Covers(r, i, scan[r].view[i[1]][I_TOTAL]) => Covers(r, i, scan[r].view[i[1]][I_TOTAL])'
        BY <1>1, <3>3, <4>2, CounterBuckets DEF Covers
      <4>4. Reading(r)' = Reading(r)
        BY ReadSlotReading
      <4>5. pc'[r] # "read" => Reading(r)'[I_TOTAL] = scan'[r].view[i[1]][I_TOTAL]
        BY <1>1, <3>3, CounterBuckets DEF Reading
      <4>6. Covers(r, i, Reading(r)[I_TOTAL])
              => Covers(r, i, Reading(r)[I_TOTAL])'
        BY <1>1, <4>4 DEF Covers
      <4>7. CASE Covers(r, i, Reading(r)[I_TOTAL])
        BY <1>1, <3>3, <4>5, <4>6, <4>7 DEF Assured, Covers
      <4>8. CASE ~Covers(r, i, Reading(r)[I_TOTAL])
        BY <1>1, <3>1, <3>3, <4>3, <4>8 DEF Assured
      <4> QED BY <4>7, <4>8
    <3> QED BY <3>2, <3>3
  <2> QED BY <2>1, <2>2 DEF Tracked
<1> QED BY <1>1, <1>2 DEF Tracked, AtListed

LEMMA TrackedAdvance ==
  ASSUME Readable, IType, Isolation, Headed, Tally, Listed, Strays, NEW r \in Pid,
         Scanning(r) => Faithful(r) /\ Tracked(r), Advances(r), UNCHANGED <<proc, file>>
  PROVE  Tracked(r)'
<1>0. TypeOK
  BY DEF IType
<1>1. CASE ReadSlot(r)
  <2>1. pc[r] = "read" /\ UNCHANGED <<used, dir>>
    BY <1>1 DEF ReadSlot, os, disk
  <2> QED BY <1>1, <2>1, TrackedReadSlot DEF Scanning
<1>2. ASSUME NEW ok \in BOOLEAN, ReadDir(r, ok)
      PROVE  Tracked(r)'
  BY <1>2, TrackedReadDir
<1>3. ASSUME NEW ok \in BOOLEAN, NEW n \in Pid, Visit(r, n, ok)
      PROVE  Tracked(r)'
  <2>1. pc[r] = "scan"
    BY <1>3 DEF Visit
  <2> QED BY <1>3, <2>1, TrackedVisit DEF Scanning
<1>4. ASSUME UNCHANGED <<scan, used>>, pc[r] \in {"version", "owner", "unlink"},
             AtListed(r)',
             \A i \in Ino : proc[i[1]] = "running" => dir'[i[1]] = dir[i[1]],
             ASSUME NEW i \in Ino, proc[i[1]] = "running", Complete(i), scan[r].at = i,
                    pc[r] \in {"version", "owner"}
             PROVE  Assured(r, i)'
      PROVE  Tracked(r)'
  <2>1. ASSUME NEW i \in Ino
        PROVE  NothingDue(r, i)' \/ Counted(r, i)'
    <3>1. CASE NothingDue(r, i)
      BY <1>4, <3>1 DEF NothingDue
    <3>2. CASE Counted(r, i)
      <4>1. ASSUME proc[i[1]] = "running"
            PROVE  Assured(r, i)'
        <5>1. Assured(r, i) /\ Complete(i)
          BY <3>2, <4>1 DEF Counted
        <5> QED BY <1>4, <4>1, <5>1 DEF Assured, Covers
      <4> QED BY <1>4, <3>2, <4>1 DEF Counted, Complete
    <3> QED BY <1>4, <3>1, <3>2 DEF Tracked, Scanning
  <2> QED BY <1>4, <2>1 DEF Tracked, Scanning
<1>5. CASE CheckVersion(r)
  <2>1. /\ UNCHANGED <<scan, used, dir>> /\ pc[r] = "version"
        /\ Complete(scan[r].at) => pc'[r] = "owner"
    BY <1>0, <1>5 DEF CheckVersion, Move, os, disk, Complete, TypeOK
  <2>2. AtListed(r)'
    BY <2>1 DEF Tracked, AtListed, Scanning
  <2> QED BY <1>4, <2>1, <2>2 DEF Assured
<1>6. CASE CheckOwner(r)
  <2>1. /\ UNCHANGED <<scan, used, dir>> /\ pc[r] = "owner"
        /\ pid_alive(file[scan[r].at][I_PID]) => pc'[r] = "read" /\ todo'[r] = MergeSlots
    BY <1>0, <1>6 DEF CheckOwner, Move, os, disk, TypeOK
  <2>2. AtListed(r)'
    BY <2>1 DEF Tracked, AtListed, Scanning
  <2>3. ASSUME NEW i \in Ino, proc[i[1]] = "running", Complete(i), scan[r].at = i
        PROVE  Assured(r, i)'
    <3>1. pc'[r] = "read" /\ todo'[r] = MergeSlots
      BY <2>1, <2>3 DEF Complete, pid_alive
    <3>2. Reading(r)'[I_TOTAL] = file[i][I_TOTAL]
      BY <2>1, <2>3, <3>1, CounterBuckets DEF Reading
    <3>3. /\ scan[r].floor[i] \in Nat /\ scan[r].base[i] \in Nat
          /\ file[i][I_TOTAL] \in Nat /\ done[i] \in Nat
      BY <1>0, ScanType, ShardType
    <3>4. /\ scan[r].base[i] <= file[i][I_TOTAL] /\ scan[r].floor[i] <= done[i]
          /\ done[i] <= file[i][I_TOTAL]
      BY <1>0, <2>1, TallyBounds DEF Tracked, Faithful, Scanning
    <3>5. scan[r].floor[i] <= file[i][I_TOTAL]
      BY <3>3, <3>4
    <3> QED BY <2>1, <2>3, <3>1, <3>2, <3>3, <3>4, <3>5 DEF Assured, Covers
  <2> QED BY <1>4, <2>1, <2>2, <2>3
<1>7. CASE Unlink(r)
  <2>1. /\ UNCHANGED <<scan, used>> /\ pc[r] = "unlink" /\ proc[scan[r].at[1]] = "free"
        /\ dir' = [dir EXCEPT ![scan[r].at[1]] = 0]
    BY <1>7 DEF Unlink, os, Isolation
  <2>2. \A n \in Pid : proc[n] = "running" => dir'[n] = dir[n]
    BY <1>0, <2>1 DEF TypeOK
  <2>3. AtListed(r)'
    BY <2>1 DEF Tracked, AtListed, Scanning
  <2> QED BY <1>4, <2>1, <2>2, <2>3, InoType
<1> QED BY <1>1, <1>2, <1>3, <1>5, <1>6, <1>7 DEF Advances

Scrapes == \A r \in Pid : Scanning(r) => Tracked(r)

LEMMA NextScrapes ==
  ASSUME Unshared, Readable, IType, IType', Isolation, Headed, Tally, Listed, Strays,
         Readings, Scrapes, [Next]_vars
  PROVE  Scrapes'
<1> SUFFICES ASSUME NEW r \in Pid, Scanning(r)'
             PROVE  Tracked(r)'
  BY DEF Scrapes
<1>1. CASE pc'[r] = pc[r] /\ scan'[r] = scan[r] /\ todo'[r] = todo[r]
  BY <1>1, TrackedLeft DEF Scrapes, Scanning
<1>2. CASE Advances(r) /\ UNCHANGED <<proc, file>>
  BY <1>2, TrackedAdvance DEF Scrapes, Readings
<1> QED BY <1>1, <1>2, ScanStep

LEMMA ScrapesInvariant ==
  ASSUME Unshared, Readable
  PROVE  Spec => [](IType /\ Isolation /\ Scrapes)
<1> DEFINE Inv == /\ IType /\ Isolation /\ Headed /\ Tally /\ SumTally
                  /\ Listed /\ Strays /\ Readings /\ Scrapes
<1>1. Init => Inv
  <2>1. Init => Listed /\ Strays /\ Readings /\ Scrapes
    BY InoType DEF Init, Listed, Strays, Readings, Scrapes, Scanning
  <2> QED BY <2>1, InitHeaded, InitIsolation, InitTally, InitSumTally
<1>2. Inv /\ [Next]_vars => Inv'
  BY NextType, NextControl, NextHeaded, NextIsolation, NextTally, NextSumTally, NextListed,
     NextStrays, NextReadings, NextScrapes DEF IType
<1>3. Inv => IType /\ Isolation /\ Scrapes
  OBVIOUS
<1> HIDE DEF Inv
<1> QED BY <1>1, <1>2, <1>3, PTL DEF Spec

LEMMA MaxOfTwo ==
  ASSUME NEW a \in Nat, NEW b \in Nat, NEW n \in Nat, n >= a, n >= b
  PROVE  n >= Max({a, b})
<1>1. \E x \in {a, b} : \A y \in {a, b} : x >= y
  OBVIOUS
<1>2. Max({a, b}) \in {a, b}
  BY <1>1 DEF Max
<1> QED BY <1>2

(* With pids of their own and a directory that can be read, a scrape that   *)
(* returns has missed no live worker: of each it reports the requests that  *)
(* were recorded, and those that were visible, when it began - for any      *)
(* number of workers that record, open, crash and prune meanwhile, and      *)
(* under either memory order.                                               *)
THEOREM ScrapesLoseNothing ==
  ASSUME Unshared, Readable
  PROVE  Spec => []NoLostRequests
<1>1. ASSUME IType, Isolation, Scrapes, NEW r \in Pid, Returning(r), NEW i \in Ino, Mapped(i)
      PROVE  scan[r].view[i[1]][I_TOTAL] >= Max({scan[r].floor[i], scan[r].base[i]})
  <2>1. proc[i[1]] = "running" /\ i[1] \in Pid
    BY <1>1, InoType DEF Mapped, Isolation
  <2>2. NothingDue(r, i) \/ Covers(r, i, scan[r].view[i[1]][I_TOTAL])
    <3>1. pc[r] = "scan" /\ scan[r].left = {} /\ Tracked(r)
      BY <1>1 DEF Returning, Scrapes, Scanning
    <3> QED BY <2>1, <3>1 DEF Tracked, Counted, Assured
  <2>3. /\ scan[r].floor[i] \in Nat /\ scan[r].base[i] \in Nat
        /\ scan[r].view[i[1]][I_TOTAL] \in Nat
    BY <1>1, <2>1, ScanType, CounterBuckets DEF IType
  <2>4. /\ scan[r].view[i[1]][I_TOTAL] >= scan[r].floor[i]
        /\ scan[r].view[i[1]][I_TOTAL] >= scan[r].base[i]
    BY <2>2, <2>3 DEF NothingDue, Covers
  <2> QED BY <2>3, <2>4, MaxOfTwo
<1>2. IType /\ Isolation /\ Scrapes => NoLostRequests
  BY <1>1 DEF NoLostRequests
<1> QED BY <1>2, ScrapesInvariant, PTL
=============================================================================
