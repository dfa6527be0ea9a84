---------------------------- MODULE ShardsProofs ----------------------------
(***************************************************************************)
(* Proofs about Shards for every set of pids, any bucket bounds, requests  *)
(* and calls, and both memory orders.                                      *)
(***************************************************************************)
EXTENDS ShardsProperties, ShardLayoutProofs

-----------------------------------------------------------------------------
(* Type correctness.                                                        *)

LEMMA HeaderType ==
  ASSUME NEW p \in Pid, NEW s \in Slot
  PROVE  Header(p, s) \in Nat
BY PidAssumption, RequestAssumption DEF Header, FORMAT_VERSION

LEMMA InoType ==
  /\ Ino = Pid \X (1 .. MaxGen)
  /\ NoFile \notin Ino
  /\ 0 \notin Pid
  /\ \A i \in Ino : i[1] \in Pid /\ i[2] \in 1 .. MaxGen /\ i = <<i[1], i[2]>>
BY PidAssumption DEF Ino, NoFile

LEMMA NoneType == NoCall \in Call /\ NoScan \in Scan
<1>1. EmptyView \in [Pid -> [MergeSlots -> Nat]]
  BY RequestAssumption DEF EmptyView, EmptyReading
<1>2. NoScan \in Scan
  BY <1>1 DEF NoScan, Scan
<1>3. NoCall \in Call
  BY DEF NoCall, Call
<1> QED BY <1>2, <1>3

LEMMA InitType == Init => TypeOK
<1>1. ZeroShard \in [Slot -> Nat]
  BY DEF ZeroShard
<1> QED BY <1>1, NoneType, BoundAssumption DEF Init, TypeOK, PC

(* The fields of a call.                                                    *)
LEMMA CallType ==
  ASSUME NEW c \in Call
  PROVE  /\ c.op \in {"none"} \cup Ops
         /\ c.op = "record" => c.req \in Requests
BY DEF Call, Ops

LEMMA ProceedType ==
  ASSUME TypeOK, NEW p \in Pid, NEW c \in Call, c.op # "none", NEW i \in Ino, Proceed(p, c, i)
  PROVE  /\ mode' \in [Pid -> {"uninit", "disabled", "enabled"}]
         /\ writer' \in [Pid -> Ino \cup {NoFile}]
         /\ pc' \in [Pid -> PC]
         /\ call' \in [Pid -> Call]
         /\ todo' \in [Pid -> SUBSET Slot]
         /\ begun' \in [Ino -> Nat] /\ done' \in [Ino -> Nat] /\ own' \in [Pid -> Nat]
<1>1. NoCall \in Call
  BY NoneType
<1>2. (IF c.op \in {"record", "merged"} THEN c.op ELSE "idle") \in PC
  BY CallType DEF PC, Ops
<1>3. c.op = "record" => RecordSlots(c.req) \subseteq Slot
  BY CallType, SlotType
<1>4. todo' \in [Pid -> SUBSET Slot]
  <2>1. CASE c.op = "record"
    BY <2>1, <1>3 DEF TypeOK, Proceed
  <2>2. CASE c.op # "record"
    BY <2>2 DEF TypeOK, Proceed
  <2> QED BY <2>1, <2>2
<1>5. begun' \in [Ino -> Nat] /\ own' \in [Pid -> Nat]
  <2>1. CASE c.op = "record"
    <3>1. begun' = [begun EXCEPT ![i] = @ + 1] /\ own' = [own EXCEPT ![p] = @ + 1]
      BY <2>1 DEF Proceed
    <3>2. begun \in [Ino -> Nat] /\ own \in [Pid -> Nat]
      BY DEF TypeOK
    <3> QED BY <3>1, <3>2
  <2>2. CASE c.op # "record"
    BY <2>2 DEF TypeOK, Proceed
  <2> QED BY <2>1, <2>2
<1>6. mode' \in [Pid -> {"uninit", "disabled", "enabled"}] /\ pc' \in [Pid -> PC]
  BY <1>2 DEF TypeOK, Proceed
<1>7. writer' \in [Pid -> Ino \cup {NoFile}] /\ call' \in [Pid -> Call]
  BY <1>1 DEF TypeOK, Proceed
<1> QED BY <1>4, <1>5, <1>6, <1>7 DEF TypeOK, Proceed

LEMMA CreateType ==
  ASSUME TypeOK, NEW n \in Pid, Create(n)
  PROVE  dir' \in [Pid -> 0 .. MaxGen] /\ gen' \in [Pid -> 0 .. MaxGen]
<1> DEFINE k == gen[n] + 1
<1>1. dir' = [dir EXCEPT ![n] = k] /\ gen' = [gen EXCEPT ![n] = k]
  BY DEF Create
<1>2. k \in 0 .. MaxGen
  BY BoundAssumption DEF Create, TypeOK
<1> HIDE DEF k
<1> QED BY <1>1, <1>2 DEF TypeOK

LEMMA ForgetType ==
  ASSUME TypeOK, NEW p \in Pid, Forget(p)
  PROVE  /\ mode' \in [Pid -> {"uninit", "disabled", "enabled"}]
         /\ writer' \in [Pid -> Ino \cup {NoFile}]
         /\ pc' \in [Pid -> PC]
         /\ call' \in [Pid -> Call]
         /\ todo' \in [Pid -> SUBSET Slot]
         /\ scan' \in [Pid -> Scan]
         /\ own' \in [Pid -> Nat]
BY NoneType DEF TypeOK, Forget, PC

LEMMA SpawnType ==
  ASSUME TypeOK, NEW p \in Pid, NEW kind \in {"running", "foreign"}, Spawn(p, kind)
  PROVE  /\ proc' \in [Pid -> {"free", "running", "zombie", "foreign"}]
         /\ used' \subseteq Pid
         /\ starts' \in Nat
BY DEF TypeOK, Spawn

(* Where a call is decides which of its local variables mean something.     *)
Control ==
  \A p \in Pid :
    /\ proc[p] # "running" => pc[p] = "idle"
    /\ pc[p] \in {"open", "header"} => call[p].op # "none"
    /\ pc[p] = "record" =>
         call[p].op = "record" /\ todo[p] \subseteq Slot \ {I_VERSION, I_PID}
    /\ pc[p] \in {"header", "record"} \/ mode[p] = "enabled" => writer[p] \in Ino
    /\ pc[p] \in {"version", "owner", "unlink", "read"} => scan[p].at \in Ino
    /\ pc[p] = "read" => todo[p] \subseteq MergeSlots

IType == TypeOK /\ Control

LEMMA NextType == IType /\ [Next]_vars => TypeOK'
<1> SUFFICES ASSUME TypeOK, Control, [Next]_vars PROVE TypeOK'
  BY DEF IType
<1> USE DEF os, disk, state, ctl, hist
<1>1. ASSUME NEW p \in Pid, Start(p) PROVE TypeOK'
  BY <1>1, SpawnType DEF Start, TypeOK
<1>2. ASSUME NEW p \in Pid, StartForeign(p) PROVE TypeOK'
  BY <1>2, SpawnType DEF StartForeign, TypeOK
<1>3. ASSUME NEW p \in Pid, NEW q \in Pid, Fork(q, p) PROVE TypeOK'
  <2>1. /\ proc' \in [Pid -> {"free", "running", "zombie", "foreign"}]
        /\ used' \subseteq Pid /\ starts' \in Nat
    BY <1>3, SpawnType DEF Fork
  <2>2. /\ mode' \in [Pid -> {"uninit", "disabled", "enabled"}]
        /\ writer' \in [Pid -> Ino \cup {NoFile}]
    BY <1>3 DEF Fork, TypeOK
  <2> QED BY <1>3, <2>1, <2>2 DEF Fork, TypeOK
<1>4. ASSUME NEW p \in Pid, Crash(p) PROVE TypeOK'
  <2>1. Forget(p) /\ proc' = [proc EXCEPT ![p] = "zombie"]
        /\ UNCHANGED <<used, starts, issued, dir, gen, file, begun, done>>
    BY <1>4 DEF Crash
  <2> QED BY <2>1, ForgetType DEF TypeOK
<1>5. ASSUME NEW p \in Pid, Reap(p) PROVE TypeOK'
  BY <1>5 DEF Reap, TypeOK
<1>6. ASSUME NEW p \in Pid, NEW c \in Call, Invoke(p, c) PROVE TypeOK'
  <2>1. issued' \in Nat /\ c.op # "none"
    BY <1>6, FlagAssumption DEF Invoke, Ops, TypeOK
  <2>2. CASE c.op = "set_dir" \/ mode[p] = "uninit"
    <3>1. /\ pc' = [pc EXCEPT ![p] = "open"]
          /\ call' = [call EXCEPT ![p] = c]
          /\ UNCHANGED <<proc, used, starts, disk, scan, state, todo, hist>>
      BY <1>6, <2>2 DEF Invoke
    <3> QED BY <2>1, <3>1 DEF TypeOK, PC
  <2>3. CASE ~(c.op = "set_dir" \/ mode[p] = "uninit")
    <3>1. Proceed(p, c, writer[p]) /\ mode[p] = "enabled"
      BY <1>6, <2>3 DEF Invoke
    <3>2. writer[p] \in Ino
      BY <3>1 DEF Control
    <3> QED BY <1>6, <2>1, <3>1, <3>2, ProceedType DEF Invoke, TypeOK
  <2> QED BY <2>2, <2>3
<1>7. ASSUME NEW p \in Pid, Disable(p) PROVE TypeOK'
  BY <1>7 DEF Disable, TypeOK
<1>8. ASSUME NEW p \in Pid, Degrade(p) PROVE TypeOK'
  <2>1. /\ mode' = [mode EXCEPT ![p] = "disabled"]
        /\ writer' = [writer EXCEPT ![p] = NoFile]
        /\ pc' = [pc EXCEPT ![p] = "idle"]
        /\ call' = [call EXCEPT ![p] = NoCall]
        /\ UNCHANGED <<os, file, todo, scan, hist>>
        /\ UNCHANGED <<dir, gen>> \/ Create(p)
    BY <1>8 DEF Degrade, shard_name
  <2>2. dir' \in [Pid -> 0 .. MaxGen] /\ gen' \in [Pid -> 0 .. MaxGen]
    <3>1. CASE Create(p)
      BY <3>1, CreateType
    <3>2. CASE ~Create(p)
      BY <2>1, <3>2 DEF TypeOK
    <3> QED BY <3>1, <3>2
  <2> QED BY <2>1, <2>2, NoneType DEF TypeOK, PC
<1>9. ASSUME NEW p \in Pid, Open(p) PROVE TypeOK'
  <2> DEFINE k == IF dir[p] = 0 THEN gen[p] + 1 ELSE dir[p]
             i == <<p, k>>
  <2>1. k <= MaxGen /\ dir' = [dir EXCEPT ![p] = k]
        /\ gen' = IF dir[p] = 0 THEN [gen EXCEPT ![p] = k] ELSE gen
    BY <1>9, BoundAssumption DEF Open, Create, shard_name, TypeOK
  <2>2. k \in 1 .. MaxGen
    BY <2>1, BoundAssumption DEF TypeOK
  <2>3. i \in Ino
    BY <2>2 DEF Ino
  <2>4. dir' \in [Pid -> 0 .. MaxGen] /\ gen' \in [Pid -> 0 .. MaxGen]
    <3> HIDE DEF k
    <3> QED BY <2>1, <2>2, BoundAssumption DEF TypeOK
  <2>5. call[p] \in Call /\ call[p].op # "none"
    BY <1>9 DEF Open, Control, TypeOK
  <2>6. CASE Same(p, i)
    <3>1. Proceed(p, call[p], i) /\ file' = file /\ UNCHANGED <<os, scan>>
      BY <1>9, <2>6 DEF Open, shard_name
    <3> QED BY <2>3, <2>4, <2>5, <3>1, ProceedType DEF TypeOK
  <2>7. CASE ~Same(p, i)
    <3>1. /\ file' = [file EXCEPT ![i] = ZeroShard]
          /\ writer' = [writer EXCEPT ![p] = i]
          /\ pc' = [pc EXCEPT ![p] = "header"]
          /\ todo' = [todo EXCEPT ![p] = HeaderSlots]
          /\ UNCHANGED <<os, mode, call, hist, scan>>
      BY <1>9, <2>7 DEF Open, shard_name
    <3>2. file' \in [Ino -> [Slot -> Nat]]
      BY <3>1 DEF TypeOK, ZeroShard
    <3> HIDE DEF i
    <3> QED BY <2>3, <2>4, <3>1, <3>2, SlotType DEF TypeOK, PC
  <2> QED BY <2>6, <2>7
<1>10. ASSUME NEW p \in Pid, StoreHeader(p) PROVE TypeOK'
  <2>1. PICK s \in Due(p) :
          /\ file' = [file EXCEPT ![writer[p]][s] = Header(p, s)]
          /\ IF todo[p] = {s}
               THEN Proceed(p, call[p], writer[p])
               ELSE /\ todo' = [todo EXCEPT ![p] = @ \ {s}]
                    /\ UNCHANGED <<state, pc, call, hist>>
    BY <1>10 DEF StoreHeader
  <2>2. s \in Slot /\ writer[p] \in Ino /\ call[p] \in Call /\ call[p].op # "none"
    BY <1>10 DEF StoreHeader, Due, Control, TypeOK
  <2>3. file' \in [Ino -> [Slot -> Nat]]
    BY <2>1, <2>2, HeaderType DEF TypeOK
  <2>4. UNCHANGED <<os, dir, gen, scan>>
    BY <1>10 DEF StoreHeader
  <2>5. CASE todo[p] = {s}
    BY <2>1, <2>2, <2>3, <2>4, <2>5, ProceedType DEF TypeOK
  <2>6. CASE todo[p] # {s}
    BY <2>1, <2>2, <2>3, <2>4, <2>6 DEF TypeOK
  <2> QED BY <2>5, <2>6
<1>11. ASSUME NEW p \in Pid, AddToShard(p) PROVE TypeOK'
  <2>1. PICK s \in Due(p) :
          /\ file' = [file EXCEPT ![writer[p]][s] = Added(s, @, micros(call[p].req.ticks))]
          /\ todo' = [todo EXCEPT ![p] = @ \ {s}]
          /\ IF todo[p] = {s}
               THEN /\ pc' = [pc EXCEPT ![p] = "idle"]
                    /\ call' = [call EXCEPT ![p] = NoCall]
                    /\ done' = [done EXCEPT ![writer[p]] = @ + 1]
               ELSE UNCHANGED <<pc, call, done>>
    BY <1>11 DEF AddToShard
  <2>2. s \in Slot /\ writer[p] \in Ino /\ call[p] \in Call /\ call[p].op = "record"
    BY <1>11 DEF AddToShard, Due, Control, TypeOK
  <2>3. micros(call[p].req.ticks) \in Nat
    BY <2>2, CallType, MicrosType, RequestAssumption
  <2>4. Added(s, file[writer[p]][s], micros(call[p].req.ticks)) \in Nat
    BY <2>2, <2>3, AddedType DEF TypeOK
  <2>5. file' \in [Ino -> [Slot -> Nat]]
    BY <2>1, <2>2, <2>4 DEF TypeOK
  <2>6. UNCHANGED <<os, dir, gen, state, scan, begun, own>>
    BY <1>11 DEF AddToShard
  <2>7. pc' \in [Pid -> PC] /\ call' \in [Pid -> Call] /\ done' \in [Ino -> Nat]
    <3>1. CASE todo[p] = {s}
      <4>1. done' = [done EXCEPT ![writer[p]] = @ + 1]
        BY <2>1, <3>1
      <4>2. done' \in [Ino -> Nat]
        BY <4>1, <2>2 DEF TypeOK
      <4>3. pc' \in [Pid -> PC] /\ call' \in [Pid -> Call]
        BY <2>1, <3>1, NoneType DEF TypeOK, PC
      <4> QED BY <4>2, <4>3
    <3>2. CASE todo[p] # {s}
      BY <2>1, <3>2 DEF TypeOK
    <3> QED BY <3>1, <3>2
  <2> QED BY <2>1, <2>5, <2>6, <2>7 DEF TypeOK
<1>12. ASSUME NEW r \in Pid, NEW ok \in BOOLEAN, ReadDir(r, ok) PROVE TypeOK'
  <2> DEFINE floor == done
             base  == [i \in Ino |-> file[i][I_TOTAL]]
  <2>1. I_TOTAL \in Slot
    BY SlotType DEF Slot, I_TOTAL
  <2>2. floor \in [Ino -> Nat] /\ base \in [Ino -> Nat]
    BY <2>1 DEF TypeOK
  <2>3. scan' = [scan EXCEPT ![r] =
          [NoScan EXCEPT !.left  = IF ok THEN {n \in Pid : dir[n] # 0} ELSE {},
                         !.seen  = IF ok THEN {} ELSE Pid,
                         !.floor = floor,
                         !.base  = base]]
    BY <1>12 DEF ReadDir
  <2>4. scan' \in [Pid -> Scan]
    <3> HIDE DEF floor, base
    <3> QED BY <2>2, <2>3, NoneType DEF TypeOK, Scan
  <2> QED BY <1>12, <2>4 DEF ReadDir, Move, TypeOK, PC
<1>13. ASSUME NEW r \in Pid, NEW n \in Pid, NEW ok \in BOOLEAN, Visit(r, n, ok) PROVE TypeOK'
  <2> DEFINE at == IF ok THEN <<n, dir[n]>> ELSE NoFile
  <2>1. /\ pc' = [pc EXCEPT ![r] = IF ok THEN "version" ELSE "scan"]
        /\ scan' = [scan EXCEPT ![r] = [scan[r] EXCEPT !.left = @ \ {n},
                                                      !.seen = @ \cup {n},
                                                      !.at   = at]]
        /\ UNCHANGED <<os, disk, state, call, todo, hist>>
    BY <1>13 DEF Visit, Move, TypeOK
  <2>2. at \in Ino \cup {NoFile}
    BY <1>13, BoundAssumption DEF Visit, TypeOK, Ino
  <2>3. scan[r] \in Scan
    BY DEF TypeOK
  <2>4. [scan[r] EXCEPT !.left = @ \ {n}, !.seen = @ \cup {n}, !.at = at] \in Scan
    <3> HIDE DEF at
    <3> QED BY <2>2, <2>3 DEF Scan
  <2> HIDE DEF at
  <2> QED BY <2>1, <2>4 DEF TypeOK, PC
<1>14. ASSUME NEW r \in Pid, CheckVersion(r) PROVE TypeOK'
  BY <1>14 DEF CheckVersion, Move, TypeOK, PC
<1>15. ASSUME NEW r \in Pid, CheckOwner(r) PROVE TypeOK'
  <2>1. /\ pc' \in [Pid -> PC]
        /\ UNCHANGED <<os, disk, state, call, scan, hist>>
    BY <1>15 DEF CheckOwner, Move, TypeOK, PC
  <2>2. todo' = [todo EXCEPT ![r] = MergeSlots] \/ todo' = todo
    BY <1>15 DEF CheckOwner
  <2>3. todo' \in [Pid -> SUBSET Slot]
    BY <2>2, SlotType DEF TypeOK
  <2> QED BY <2>1, <2>3 DEF TypeOK
<1>16. ASSUME NEW r \in Pid, Unlink(r) PROVE TypeOK'
  <2>1. /\ dir' = [dir EXCEPT ![scan[r].at[1]] = 0]
        /\ pc' = [pc EXCEPT ![r] = "scan"]
        /\ UNCHANGED <<os, gen, file, state, call, todo, scan, hist>>
    BY <1>16 DEF Unlink, Move
  <2>2. dir' \in [Pid -> 0 .. MaxGen]
    <3>1. scan[r].at[1] \in Pid
      BY <1>16, InoType DEF Unlink, Control
    <3>2. dir \in [Pid -> 0 .. MaxGen] /\ 0 \in 0 .. MaxGen
      BY BoundAssumption DEF TypeOK
    <3> QED BY <2>1, <3>1, <3>2
  <2> QED BY <2>1, <2>2 DEF TypeOK, PC
<1>17. ASSUME NEW r \in Pid, ReadSlot(r) PROVE TypeOK'
  <2>1. PICK s \in Due(r) :
          /\ scan' = [scan EXCEPT ![r].view[scan[r].at[1]][s] = file[scan[r].at][s]]
          /\ todo' = [todo EXCEPT ![r] = @ \ {s}]
          /\ pc' = [pc EXCEPT ![r] = IF todo[r] = {s} THEN "scan" ELSE "read"]
    BY <1>17 DEF ReadSlot, Move
  <2>2. s \in MergeSlots /\ s \in Slot /\ scan[r].at \in Ino
    BY <1>17, SlotType DEF ReadSlot, Due, Control
  <2>3. file[scan[r].at][s] \in Nat
    BY <2>2 DEF TypeOK
  <2>4. scan' \in [Pid -> Scan]
    <3> DEFINE n    == scan[r].at[1]
               view == [scan[r].view EXCEPT ![n][s] = file[scan[r].at][s]]
    <3>1. scan[r] \in Scan /\ scan \in [Pid -> Scan]
      BY DEF TypeOK
    <3>2. scan[r].view \in [Pid -> [MergeSlots -> Nat]]
      BY <3>1 DEF Scan
    <3>3. view \in [Pid -> [MergeSlots -> Nat]]
      BY <3>2, <2>3
    <3>4. scan' = [scan EXCEPT ![r] = [scan[r] EXCEPT !.view = view]]
      BY <2>1
    <3>5. [scan[r] EXCEPT !.view = view] \in Scan
      <4> HIDE DEF view
      <4> QED BY <3>1, <3>3 DEF Scan
    <3> HIDE DEF view
    <3> QED BY <3>1, <3>4, <3>5
  <2>5. UNCHANGED <<os, disk, state, call, hist>>
    BY <1>17 DEF ReadSlot
  <2> QED BY <2>1, <2>4, <2>5 DEF TypeOK, PC
<1>18. ASSUME NEW r \in Pid, Return(r) PROVE TypeOK'
  BY <1>18, NoneType DEF Return, Move, TypeOK, PC
<1>19. CASE UNCHANGED vars
  BY <1>19 DEF vars, TypeOK
<1> QED
  BY <1>1, <1>2, <1>3, <1>4, <1>5, <1>6, <1>7, <1>8, <1>9, <1>10, <1>11, <1>12, <1>13,
     <1>14, <1>15, <1>16, <1>17, <1>18, <1>19 DEF Next, Working

(* What remains true of a process that neither acts nor is acted upon.      *)
LEMMA ControlFrame ==
  ASSUME Control, NEW p \in Pid, proc[p] = "running", UNCHANGED proc,
         \A q \in Pid \ {p} : /\ pc'[q] = pc[q] /\ call'[q] = call[q] /\ todo'[q] = todo[q]
                              /\ mode'[q] = mode[q] /\ writer'[q] = writer[q]
                              /\ scan'[q] = scan[q],
         /\ pc'[p] \in {"open", "header"} => call'[p].op # "none"
         /\ pc'[p] = "record" =>
              call'[p].op = "record" /\ todo'[p] \subseteq Slot \ {I_VERSION, I_PID}
         /\ pc'[p] \in {"header", "record"} \/ mode'[p] = "enabled" => writer'[p] \in Ino
         /\ pc'[p] \in {"version", "owner", "unlink", "read"} => scan'[p].at \in Ino
         /\ pc'[p] = "read" => todo'[p] \subseteq MergeSlots
  PROVE  Control'
BY DEF Control

LEMMA ProceedControl ==
  ASSUME TypeOK, Control, NEW p \in Pid, NEW c \in Call, c.op # "none", NEW i \in Ino,
         Proceed(p, c, i), proc[p] = "running", UNCHANGED <<proc, scan>>
  PROVE  Control'
<1>1. /\ mode' = [mode EXCEPT ![p] = "enabled"]
      /\ writer' = [writer EXCEPT ![p] = i]
      /\ pc' = [pc EXCEPT ![p] = IF c.op \in {"record", "merged"} THEN c.op ELSE "idle"]
      /\ call' = [call EXCEPT ![p] = IF c.op \in {"record", "merged"} THEN c ELSE NoCall]
  BY DEF Proceed
<1>2. todo' = [todo EXCEPT ![p] = IF c.op = "record" THEN RecordSlots(c.req) ELSE {}]
  BY DEF Proceed
<1>3. pc'[p] \in {"idle", "record", "merged"} /\ (pc'[p] = "record" => c.op = "record")
  BY <1>1, CallType DEF TypeOK, Ops
<1>4. c.op = "record" => RecordSlots(c.req) \subseteq Slot \ {I_VERSION, I_PID}
  BY CallType, SlotType
<1>5. pc'[p] = "record" =>
        call'[p].op = "record" /\ todo'[p] \subseteq Slot \ {I_VERSION, I_PID}
  BY <1>1, <1>2, <1>3, <1>4 DEF TypeOK
<1>6. writer'[p] \in Ino
  BY <1>1 DEF TypeOK
<1>7. \A q \in Pid \ {p} : /\ pc'[q] = pc[q] /\ call'[q] = call[q] /\ todo'[q] = todo[q]
                           /\ mode'[q] = mode[q] /\ writer'[q] = writer[q]
                           /\ scan'[q] = scan[q]
  BY <1>1, <1>2 DEF TypeOK
<1> QED BY <1>3, <1>5, <1>6, <1>7, ControlFrame

LEMMA NextControl == IType /\ [Next]_vars => Control'
<1> SUFFICES ASSUME TypeOK, Control, [Next]_vars PROVE Control'
  BY DEF IType
<1> USE DEF os, disk, state, ctl, hist
<1>1. ASSUME NEW p \in Pid, Start(p) \/ StartForeign(p) \/ Reap(p) PROVE Control'
  BY <1>1 DEF Start, StartForeign, Spawn, Reap, Control, TypeOK
<1>3. ASSUME NEW p \in Pid, NEW q \in Pid, Fork(q, p) PROVE Control'
  <2>1. p # q
    BY <1>3 DEF Fork, Spawn
  <2>2. pc[p] = "idle"
    BY <1>3 DEF Fork, Spawn, Control
  <2> QED BY <1>3, <2>1, <2>2 DEF Fork, Spawn, Control, TypeOK
<1>4. ASSUME NEW p \in Pid, Crash(p) PROVE Control'
  BY <1>4 DEF Crash, Forget, Control, TypeOK
<1>6. ASSUME NEW p \in Pid, NEW c \in Call, Invoke(p, c) PROVE Control'
  <2>1. c.op # "none"
    BY <1>6, FlagAssumption DEF Invoke, Ops
  <2>2. CASE c.op = "set_dir" \/ mode[p] = "uninit"
    <3>1. /\ pc' = [pc EXCEPT ![p] = "open"]
          /\ call' = [call EXCEPT ![p] = c]
          /\ UNCHANGED <<proc, scan, state, todo>>
      BY <1>6, <2>2 DEF Invoke
    <3>2. proc[p] = "running"
      BY <1>6 DEF Invoke
    <3> QED BY <2>1, <3>1, <3>2 DEF Control, TypeOK
  <2>3. CASE ~(c.op = "set_dir" \/ mode[p] = "uninit")
    <3>1. /\ Proceed(p, c, writer[p]) /\ mode[p] = "enabled"
          /\ proc[p] = "running" /\ UNCHANGED <<proc, scan>>
      BY <1>6, <2>3 DEF Invoke
    <3>2. writer[p] \in Ino
      BY <3>1 DEF Control
    <3> QED BY <2>1, <3>1, <3>2, ProceedControl
  <2> QED BY <2>2, <2>3
<1>7. ASSUME NEW p \in Pid, Disable(p) PROVE Control'
  BY <1>7 DEF Disable, Control, TypeOK
<1>8. ASSUME NEW p \in Pid, Degrade(p) PROVE Control'
  BY <1>8 DEF Degrade, Control, TypeOK
<1>9. ASSUME NEW p \in Pid, Open(p) PROVE Control'
  <2> DEFINE k == IF dir[p] = 0 THEN gen[p] + 1 ELSE dir[p]
             i == <<p, k>>
  <2>1. k <= MaxGen /\ UNCHANGED <<proc, scan>> /\ pc[p] = "open"
    BY <1>9, BoundAssumption DEF Open, Create, shard_name, TypeOK
  <2>2. i \in Ino
    BY <2>1, BoundAssumption DEF TypeOK, Ino
  <2>3. call[p] \in Call /\ call[p].op # "none" /\ proc[p] = "running"
    BY <2>1 DEF Control, TypeOK
  <2>4. CASE Same(p, i)
    <3>1. Proceed(p, call[p], i)
      BY <1>9, <2>4 DEF Open, shard_name
    <3> QED BY <2>1, <2>2, <2>3, <3>1, ProceedControl
  <2>5. CASE ~Same(p, i)
    <3>1. /\ writer' = [writer EXCEPT ![p] = i]
          /\ pc' = [pc EXCEPT ![p] = "header"]
          /\ todo' = [todo EXCEPT ![p] = HeaderSlots]
          /\ UNCHANGED <<mode, call>>
      BY <1>9, <2>5 DEF Open, shard_name
    <3> HIDE DEF i
    <3>2. pc'[p] = "header" /\ writer'[p] \in Ino /\ call'[p].op # "none"
      BY <2>2, <2>3, <3>1 DEF TypeOK
    <3>3. \A q \in Pid \ {p} : pc'[q] = pc[q] /\ todo'[q] = todo[q] /\ writer'[q] = writer[q]
      BY <3>1 DEF TypeOK
    <3> QED BY <2>1, <2>3, <3>1, <3>2, <3>3, ControlFrame
  <2> QED BY <2>4, <2>5
<1>10. ASSUME NEW p \in Pid, StoreHeader(p) PROVE Control'
  <2>1. PICK s \in Due(p) :
          IF todo[p] = {s}
            THEN Proceed(p, call[p], writer[p])
            ELSE /\ todo' = [todo EXCEPT ![p] = @ \ {s}]
                 /\ UNCHANGED <<state, pc, call>>
    BY <1>10 DEF StoreHeader
  <2>2. /\ writer[p] \in Ino /\ call[p] \in Call /\ call[p].op # "none"
        /\ UNCHANGED <<proc, scan>> /\ pc[p] = "header" /\ proc[p] = "running"
    BY <1>10 DEF StoreHeader, Control, TypeOK
  <2>3. CASE todo[p] = {s}
    BY <2>1, <2>2, <2>3, ProceedControl
  <2>4. CASE todo[p] # {s}
    BY <2>1, <2>2, <2>4 DEF Control, TypeOK
  <2> QED BY <2>3, <2>4
<1>11. ASSUME NEW p \in Pid, AddToShard(p) PROVE Control'
  <2>1. PICK s \in Due(p) :
          /\ todo' = [todo EXCEPT ![p] = @ \ {s}]
          /\ IF todo[p] = {s}
               THEN /\ pc' = [pc EXCEPT ![p] = "idle"]
                    /\ call' = [call EXCEPT ![p] = NoCall]
               ELSE UNCHANGED <<pc, call>>
    BY <1>11 DEF AddToShard
  <2>2. UNCHANGED <<proc, state, scan>> /\ pc[p] = "record"
    BY <1>11 DEF AddToShard
  <2> QED BY <2>1, <2>2 DEF Control, TypeOK
<1>12. ASSUME NEW r \in Pid, NEW ok \in BOOLEAN, ReadDir(r, ok) PROVE Control'
  BY <1>12 DEF ReadDir, Move, Control, TypeOK
<1>13. ASSUME NEW r \in Pid, NEW n \in Pid, NEW ok \in BOOLEAN, Visit(r, n, ok) PROVE Control'
  <2>1. /\ pc' = [pc EXCEPT ![r] = IF ok THEN "version" ELSE "scan"]
        /\ scan'[r].at = IF ok THEN <<n, dir[n]>> ELSE NoFile
        /\ \A q \in Pid \ {r} : scan'[q] = scan[q]
        /\ UNCHANGED <<proc, call, todo, mode, writer>> /\ pc[r] = "scan"
    BY <1>13 DEF Visit, Move, TypeOK, Scan
  <2>2. ok => <<n, dir[n]>> \in Ino
    BY <1>13, BoundAssumption DEF Visit, TypeOK, Ino
  <2> QED BY <2>1, <2>2 DEF Control, TypeOK
<1>14. ASSUME NEW r \in Pid, CheckVersion(r) PROVE Control'
  BY <1>14 DEF CheckVersion, Move, Control, TypeOK
<1>15. ASSUME NEW r \in Pid, CheckOwner(r) PROVE Control'
  BY <1>15 DEF CheckOwner, Move, Control, TypeOK
<1>16. ASSUME NEW r \in Pid, Unlink(r) PROVE Control'
  BY <1>16 DEF Unlink, Move, Control, TypeOK
<1>17. ASSUME NEW r \in Pid, ReadSlot(r) PROVE Control'
  <2>1. PICK s \in Due(r) :
          /\ scan' = [scan EXCEPT ![r].view[scan[r].at[1]][s] = file[scan[r].at][s]]
          /\ todo' = [todo EXCEPT ![r] = @ \ {s}]
          /\ pc' = [pc EXCEPT ![r] = IF todo[r] = {s} THEN "scan" ELSE "read"]
    BY <1>17 DEF ReadSlot, Move
  <2>2. UNCHANGED <<proc, call, mode, writer>> /\ pc[r] = "read"
    BY <1>17 DEF ReadSlot
  <2>3. scan'[r].at = scan[r].at /\ \A q \in Pid \ {r} : scan'[q] = scan[q]
    BY <2>1 DEF TypeOK, Scan
  <2>4. todo'[r] \subseteq MergeSlots /\ \A q \in Pid \ {r} : todo'[q] = todo[q]
    BY <2>1, <2>2 DEF TypeOK, Control
  <2> QED BY <2>1, <2>2, <2>3, <2>4 DEF Control, TypeOK
<1>18. ASSUME NEW r \in Pid, Return(r) PROVE Control'
  BY <1>18 DEF Return, Move, Control, TypeOK
<1>19. CASE UNCHANGED vars
  BY <1>19 DEF vars, Control
<1> QED
  BY <1>1, <1>3, <1>4, <1>6, <1>7, <1>8, <1>9, <1>10, <1>11, <1>12, <1>13,
     <1>14, <1>15, <1>16, <1>17, <1>18, <1>19 DEF Next, Working

(* Type correctness: every variable keeps its type in every behaviour.      *)
THEOREM TypeCorrect == Spec => []TypeOK
<1>1. Init => IType
  BY InitType DEF IType, Init, Control
<1>2. IType /\ [Next]_vars => IType'
  BY NextType, NextControl DEF IType
<1>3. IType => TypeOK
  BY DEF IType
<1> QED BY <1>1, <1>2, <1>3, PTL DEF Spec

-----------------------------------------------------------------------------
(* Isolation of the workers.                                                *)

(* As long as no pid is given out twice and no worker forks: only a running *)
(* process has anything mapped; what it maps is its own, listed file; a     *)
(* shard names its own worker or nobody; and a shard about to be unlinked   *)
(* is that of a process that will never come back.                          *)
Isolation ==
  /\ \A p \in Pid :
       /\ proc[p] # "free" => p \in used
       /\ proc[p] # "running" => mode[p] = "uninit" /\ writer[p] = NoFile
       /\ writer[p] # NoFile => writer[p][1] = p /\ dir[p] = writer[p][2]
       /\ pc[p] = "unlink" => proc[scan[p].at[1]] = "free" /\ scan[p].at[1] \in used
  /\ \A i \in Ino : file[i][I_PID] # 0 => file[i][I_PID] = i[1] /\ i[1] \in used

Unshared == "reuse" \notin Env /\ "fork" \notin Env

LEMMA InitIsolation == Init => Isolation
<1>1. ASSUME Init, NEW i \in Ino PROVE file[i][I_PID] = 0
  BY <1>1, SlotType DEF Init, ZeroShard, I_PID, Slot
<1> QED BY <1>1 DEF Init, Isolation

(* A new process is given a pid that nothing refers to.                     *)
LEMMA SpawnIsolation ==
  ASSUME Unshared, TypeOK, Isolation, NEW p \in Pid, NEW kind \in {"running", "foreign"},
         Spawn(p, kind), UNCHANGED <<mode, writer, pc, scan, dir, file>>
  PROVE  Isolation'
BY DEF Unshared, Isolation, Spawn, TypeOK

(* Going on with the call after mapping one's own listed shard.             *)
LEMMA ProceedIsolation ==
  ASSUME TypeOK, Isolation, NEW p \in Pid, NEW c \in Call, c.op # "none", NEW i \in Ino,
         Proceed(p, c, i), proc[p] = "running", i[1] = p, dir' = [dir EXCEPT ![p] = i[2]],
         \A j \in Ino : file'[j][I_PID] \in {file[j][I_PID], p}
                        /\ (file'[j][I_PID] # file[j][I_PID] => j[1] = p),
         UNCHANGED <<proc, used, scan>>
  PROVE  Isolation'
<1>1. /\ mode' = [mode EXCEPT ![p] = "enabled"]
      /\ writer' = [writer EXCEPT ![p] = i]
      /\ pc' = [pc EXCEPT ![p] = IF c.op \in {"record", "merged"} THEN c.op ELSE "idle"]
  BY DEF Proceed
<1>2. pc'[p] \in {"idle", "record", "merged"}
  BY <1>1, CallType DEF TypeOK, Ops
<1>3. ASSUME NEW q \in Pid
      PROVE  /\ proc'[q] # "free" => q \in used'
             /\ proc'[q] # "running" =>
                  mode'[q] = "uninit" /\ writer'[q] = NoFile
             /\ pc'[q] = "unlink" =>
                  proc'[scan'[q].at[1]] = "free" /\ scan'[q].at[1] \in used'
  BY <1>1, <1>2 DEF Isolation, TypeOK
<1>4. ASSUME NEW q \in Pid, writer'[q] # NoFile
      PROVE  writer'[q][1] = q /\ dir'[q] = writer'[q][2]
  BY <1>1, <1>4 DEF Isolation, TypeOK
<1>5. ASSUME NEW j \in Ino, file'[j][I_PID] # 0
      PROVE  file'[j][I_PID] = j[1] /\ j[1] \in used'
  BY <1>5 DEF Isolation
<1> QED BY <1>3, <1>4, <1>5 DEF Isolation

LEMMA NextIsolation ==
  ASSUME Unshared, IType, Isolation, [Next]_vars
  PROVE  Isolation'
<1> USE DEF os, disk, state, ctl, hist
<1>0. TypeOK /\ Control
  BY DEF IType
<1>1. ASSUME NEW p \in Pid, Start(p) PROVE Isolation'
  BY <1>0, <1>1, SpawnIsolation DEF Start
<1>2. ASSUME NEW p \in Pid, StartForeign(p) PROVE Isolation'
  BY <1>0, <1>2, SpawnIsolation DEF StartForeign
<1>3. ASSUME NEW p \in Pid, NEW q \in Pid, Fork(q, p) PROVE Isolation'
  BY <1>3 DEF Fork, Unshared
<1>4. ASSUME NEW p \in Pid, Crash(p) PROVE Isolation'
  BY <1>0, <1>4 DEF Crash, Forget, Isolation, TypeOK
<1>5. ASSUME NEW p \in Pid, Reap(p) PROVE Isolation'
  BY <1>0, <1>5 DEF Reap, Isolation, TypeOK
<1>6. ASSUME NEW p \in Pid, NEW c \in Call, Invoke(p, c) PROVE Isolation'
  <2>1. proc[p] = "running" /\ c.op # "none" /\ UNCHANGED <<proc, used, dir, file, scan>>
    BY <1>6, FlagAssumption DEF Invoke, Ops
  <2>2. CASE c.op = "set_dir" \/ mode[p] = "uninit"
    BY <1>0, <1>6, <2>1, <2>2 DEF Invoke, Isolation, TypeOK
  <2>3. CASE ~(c.op = "set_dir" \/ mode[p] = "uninit")
    <3>1. Proceed(p, c, writer[p]) /\ mode[p] = "enabled"
      BY <1>6, <2>3 DEF Invoke
    <3>2. writer[p] \in Ino
      BY <1>0, <3>1 DEF Control
    <3>3. writer[p][1] = p /\ dir[p] = writer[p][2]
      BY <3>2, InoType DEF Isolation
    <3>4. dir' = [dir EXCEPT ![p] = writer[p][2]]
      BY <1>0, <2>1, <3>3 DEF TypeOK
    <3> QED BY <1>0, <2>1, <3>1, <3>2, <3>3, <3>4, ProceedIsolation
  <2> QED BY <2>2, <2>3
<1>7. ASSUME NEW p \in Pid, Disable(p) PROVE Isolation'
  BY <1>0, <1>7 DEF Disable, Isolation, TypeOK
<1>8. ASSUME NEW p \in Pid, Degrade(p) PROVE Isolation'
  BY <1>0, <1>8 DEF Degrade, Create, shard_name, Control, Isolation, TypeOK
<1>9. ASSUME NEW p \in Pid, Open(p) PROVE Isolation'
  <2> DEFINE k == IF dir[p] = 0 THEN gen[p] + 1 ELSE dir[p]
             i == <<p, k>>
  <2>1. k <= MaxGen /\ UNCHANGED <<proc, used, scan>> /\ pc[p] = "open"
        /\ dir' = [dir EXCEPT ![p] = k]
    BY <1>0, <1>9, BoundAssumption DEF Open, Create, shard_name, TypeOK
  <2>2. i \in Ino
    BY <1>0, <2>1, BoundAssumption DEF TypeOK, Ino
  <2>3. call[p] \in Call /\ call[p].op # "none" /\ proc[p] = "running"
    BY <1>0, <2>1 DEF Control, TypeOK, Isolation
  <2>4. CASE Same(p, i)
    <3>1. Proceed(p, call[p], i) /\ file' = file
      BY <1>9, <2>4 DEF Open, shard_name
    <3> QED BY <1>0, <2>1, <2>2, <2>3, <3>1, ProceedIsolation
  <2>5. CASE ~Same(p, i)
    <3>1. /\ file' = [file EXCEPT ![i] = ZeroShard]
          /\ writer' = [writer EXCEPT ![p] = i]
          /\ pc' = [pc EXCEPT ![p] = "header"]
          /\ UNCHANGED mode
      BY <1>9, <2>5 DEF Open, shard_name
    <3>2. ZeroShard[I_PID] = 0
      BY SlotType DEF ZeroShard, Slot, I_PID
    <3>3. ASSUME NEW j \in Ino, file'[j][I_PID] # 0
          PROVE  file'[j][I_PID] = j[1] /\ j[1] \in used'
      BY <1>0, <2>1, <3>1, <3>2, <3>3 DEF Isolation, TypeOK
    <3>4. ASSUME NEW q \in Pid, writer'[q] # NoFile
          PROVE  writer'[q][1] = q /\ dir'[q] = writer'[q][2]
      BY <1>0, <2>1, <3>1, <3>4 DEF Isolation, TypeOK
    <3>5. ASSUME NEW q \in Pid
          PROVE  /\ proc'[q] # "free" => q \in used'
                 /\ proc'[q] # "running" =>
                      mode'[q] = "uninit" /\ writer'[q] = NoFile
                 /\ pc'[q] = "unlink" =>
                      proc'[scan'[q].at[1]] = "free" /\ scan'[q].at[1] \in used'
      BY <1>0, <2>1, <2>3, <3>1 DEF Isolation, TypeOK
    <3> QED BY <3>3, <3>4, <3>5 DEF Isolation
  <2> QED BY <2>4, <2>5
<1>10. ASSUME NEW p \in Pid, StoreHeader(p) PROVE Isolation'
  <2>1. PICK s \in Due(p) :
          /\ file' = [file EXCEPT ![writer[p]][s] = Header(p, s)]
          /\ IF todo[p] = {s}
               THEN Proceed(p, call[p], writer[p])
               ELSE /\ todo' = [todo EXCEPT ![p] = @ \ {s}]
                    /\ UNCHANGED <<state, pc, call, hist>>
    BY <1>10 DEF StoreHeader
  <2>2. /\ writer[p] \in Ino /\ call[p] \in Call /\ call[p].op # "none"
        /\ UNCHANGED <<proc, used, dir, scan>> /\ pc[p] = "header" /\ s \in Slot
    BY <1>0, <1>10 DEF StoreHeader, Control, TypeOK, Due
  <2>3. writer[p][1] = p /\ dir[p] = writer[p][2] /\ proc[p] = "running" /\ p \in used
    BY <2>2, InoType DEF Isolation
  <2>4. \A j \in Ino : file'[j][I_PID] \in {file[j][I_PID], p}
                       /\ (file'[j][I_PID] # file[j][I_PID] => j[1] = p)
    <3>1. s = I_PID => Header(p, s) = p
      BY DEF Header, I_PID, I_VERSION
    <3>2. I_PID \in Slot
      BY SlotType DEF Slot, I_PID
    <3> QED BY <1>0, <2>1, <2>2, <2>3, <3>1, <3>2 DEF TypeOK
  <2>5. CASE todo[p] = {s}
    <3>1. dir' = [dir EXCEPT ![p] = writer[p][2]]
      BY <1>0, <2>2, <2>3 DEF TypeOK
    <3> QED BY <1>0, <2>1, <2>2, <2>3, <2>4, <2>5, <3>1, ProceedIsolation
  <2>6. CASE todo[p] # {s}
    BY <2>1, <2>2, <2>3, <2>4, <2>6 DEF Isolation
  <2> QED BY <2>5, <2>6
<1>11. ASSUME NEW p \in Pid, AddToShard(p) PROVE Isolation'
  <2>1. PICK s \in Due(p) :
          /\ file' = [file EXCEPT ![writer[p]][s] = Added(s, @, micros(call[p].req.ticks))]
          /\ pc' = pc \/ pc' = [pc EXCEPT ![p] = "idle"]
    BY <1>11 DEF AddToShard
  <2>2. s # I_PID
    BY <1>0, <1>11 DEF AddToShard, Due, Control
  <2>3. \A j \in Ino : file'[j][I_PID] = file[j][I_PID]
    BY <1>0, <2>1, <2>2 DEF TypeOK
  <2>4. UNCHANGED <<proc, used, mode, writer, dir, scan>>
    BY <1>11 DEF AddToShard
  <2> QED BY <1>0, <2>1, <2>3, <2>4 DEF Isolation, TypeOK
<1>12. ASSUME NEW r \in Pid, NEW ok \in BOOLEAN, ReadDir(r, ok) PROVE Isolation'
  BY <1>0, <1>12 DEF ReadDir, Move, Isolation, TypeOK
<1>13. ASSUME NEW r \in Pid, NEW n \in Pid, NEW ok \in BOOLEAN, Visit(r, n, ok) PROVE Isolation'
  BY <1>0, <1>13 DEF Visit, Move, Isolation, TypeOK
<1>14. ASSUME NEW r \in Pid, CheckVersion(r) PROVE Isolation'
  BY <1>0, <1>14 DEF CheckVersion, Move, Isolation, TypeOK
<1>15. ASSUME NEW r \in Pid, CheckOwner(r) PROVE Isolation'
  <2>1. /\ scan[r].at \in Ino /\ pc[r] = "owner"
        /\ UNCHANGED <<proc, used, mode, writer, dir, file, scan>>
    BY <1>0, <1>15 DEF CheckOwner, Control
  <2>2. CASE pid_alive(file[scan[r].at][I_PID])
    BY <1>0, <1>15, <2>1, <2>2 DEF CheckOwner, Move, Isolation, TypeOK
  <2>3. CASE ~pid_alive(file[scan[r].at][I_PID])
    <3>1. proc[scan[r].at[1]] = "free" /\ scan[r].at[1] \in used
      BY <2>1, <2>3 DEF pid_alive, Isolation
    <3> QED BY <1>0, <1>15, <2>1, <2>3, <3>1 DEF CheckOwner, Move, Isolation, TypeOK
  <2> QED BY <2>2, <2>3
<1>16. ASSUME NEW r \in Pid, Unlink(r) PROVE Isolation'
  <2>1. /\ dir' = [dir EXCEPT ![scan[r].at[1]] = 0]
        /\ pc' = [pc EXCEPT ![r] = "scan"]
        /\ UNCHANGED <<proc, used, mode, writer, file, scan>>
    BY <1>16 DEF Unlink, Move
  <2>2. proc[scan[r].at[1]] = "free"
    BY <1>16 DEF Unlink, Isolation
  <2>3. ASSUME NEW q \in Pid, writer'[q] # NoFile
        PROVE  writer'[q][1] = q /\ dir'[q] = writer'[q][2]
    BY <1>0, <2>1, <2>2, <2>3 DEF Isolation, TypeOK
  <2>4. \A q \in Pid : pc'[q] = "unlink" => pc[q] = "unlink"
    BY <1>0, <2>1 DEF TypeOK
  <2> QED BY <2>1, <2>3, <2>4 DEF Isolation
<1>17. ASSUME NEW r \in Pid, ReadSlot(r) PROVE Isolation'
  <2>1. \E s \in Due(r) :
          /\ scan' = [scan EXCEPT ![r].view[scan[r].at[1]][s] = file[scan[r].at][s]]
          /\ pc' = [pc EXCEPT ![r] = IF todo[r] = {s} THEN "scan" ELSE "read"]
    BY <1>17 DEF ReadSlot, Move
  <2>2. UNCHANGED <<proc, used, mode, writer, dir, file>>
    BY <1>17 DEF ReadSlot
  <2>3. pc'[r] # "unlink" /\ (pc[r] = "read")
        /\ \A q \in Pid \ {r} : scan'[q] = scan[q] /\ pc'[q] = pc[q]
    BY <1>0, <1>17, <2>1 DEF ReadSlot, TypeOK
  <2> QED BY <1>0, <2>1, <2>2, <2>3 DEF Isolation, TypeOK
<1>18. ASSUME NEW r \in Pid, Return(r) PROVE Isolation'
  BY <1>0, <1>18 DEF Return, Returning, Move, Isolation, TypeOK
<1>19. CASE UNCHANGED vars
  BY <1>19 DEF vars, Isolation
<1> QED
  BY <1>1, <1>2, <1>3, <1>4, <1>5, <1>6, <1>7, <1>8, <1>9, <1>10, <1>11, <1>12, <1>13,
     <1>14, <1>15, <1>16, <1>17, <1>18, <1>19 DEF Next, Working

(* Isolation holds whatever crashes, prunes, opens and scans interleave.    *)
LEMMA IsolationInvariant ==
  ASSUME Unshared
  PROVE  Spec => [](IType /\ Isolation)
<1>1. Init => IType /\ Isolation
  BY InitType, InitIsolation DEF IType, Init, Control
<1>2. IType /\ Isolation /\ [Next]_vars => (IType /\ Isolation)'
  BY NextType, NextControl, NextIsolation DEF IType
<1> QED BY <1>1, <1>2, PTL DEF Spec

LEMMA LiveWriter ==
  ASSUME IType, Isolation, NEW p \in Pid, Live(p)
  PROVE  writer[p][1] = p /\ dir[p] = writer[p][2]
<1>1. writer[p] \in Ino
  BY DEF Live, IType, Control
<1> QED BY <1>1, InoType DEF Isolation

(* record() needs no lock between processes: a shard has one live writer.   *)
THEOREM OwnShardsOnly ==
  ASSUME Unshared
  PROVE  Spec => []OwnShardOnly
<1>1. IType /\ Isolation => OwnShardOnly
  BY LiveWriter DEF OwnShardOnly
<1> QED BY <1>1, IsolationInvariant, PTL

(* The shard of a live worker stays listed under its name: no pruning, by   *)
(* any process and however late, ever detaches it.                          *)
THEOREM LiveShardsListed ==
  ASSUME Unshared
  PROVE  Spec => []LiveShardListed
<1>1. IType /\ Isolation => LiveShardListed
  BY LiveWriter DEF LiveShardListed
<1> QED BY <1>1, IsolationInvariant, PTL

-----------------------------------------------------------------------------
(* Headers and counters, whatever the environment does.                     *)

(* A shard gets its header from the process its name says, and a process    *)
(* adds to no shard without one.                                            *)
Headed ==
  /\ HeaderFirst
  /\ \A p \in Pid :
       /\ pc[p] = "header" =>
            /\ writer[p][1] = p
            /\ todo[p] \subseteq HeaderSlots
            /\ \A s \in {I_VERSION, I_PID} \ todo[p] : file[writer[p]][s] = Header(p, s)
       /\ pc[p] = "record" \/ (mode[p] = "enabled" /\ pc[p] # "header") => Complete(writer[p])

(* Opening a shard zeroes it only if its header is not complete.            *)
LEMMA OpenFile ==
  ASSUME IType, Headed, NEW p \in Pid, Open(p), NEW i \in Ino
  PROVE  /\ Complete(i) => Complete(i)'
         /\ \A s \in Counters : file'[i][s] = file[i][s]
<1> USE DEF disk
<1>0. TypeOK
  BY DEF IType
<1> DEFINE k == IF dir[p] = 0 THEN gen[p] + 1 ELSE dir[p]
           j == <<p, k>>
<1>1. k <= MaxGen
  BY <1>0, BoundAssumption DEF Open, Create, shard_name, TypeOK
<1>2. j \in Ino
  BY <1>0, <1>1, BoundAssumption DEF TypeOK, Ino
<1>3. CASE Same(p, j)
  BY <1>3 DEF Open, shard_name, Complete
<1>4. CASE ~Same(p, j)
  <2>1. file' = [file EXCEPT ![j] = ZeroShard]
    BY <1>4 DEF Open, shard_name
  <2>2. ~Complete(j)
    BY <1>4 DEF Same, Complete
  <2>3. \A s \in Counters : file[j][s] = 0 /\ ZeroShard[s] = 0
    BY <1>2, <2>2, SlotType DEF Headed, HeaderFirst, Counters, ZeroShard
  <2> HIDE DEF j
  <2>4. CASE i = j
    BY <1>0, <1>2, <2>1, <2>2, <2>3, <2>4 DEF TypeOK
  <2>5. CASE i # j
    BY <1>0, <2>1, <2>5 DEF TypeOK, Complete
  <2> QED BY <2>4, <2>5
<1> QED BY <1>3, <1>4

(* Storing a header completes it and leaves the counters alone.             *)
LEMMA HeaderFile ==
  ASSUME IType, Headed, NEW p \in Pid, pc[p] = "header", NEW s \in Due(p),
         file' = [file EXCEPT ![writer[p]][s] = Header(p, s)], NEW i \in Ino
  PROVE  /\ Complete(i) => Complete(i)'
         /\ \A t \in Counters : file'[i][t] = file[i][t]
         /\ todo[p] = {s} /\ i = writer[p] => Complete(i)'
<1>0. TypeOK /\ writer[p] \in Ino
  BY DEF IType, Control
<1>1. s \in HeaderSlots /\ s \in todo[p] /\ writer[p][1] = p /\ s \in Slot
  BY SlotType DEF Headed, Due
<1>2. \A t \in Slot : file'[writer[p]][t] = IF t = s THEN Header(p, s) ELSE file[writer[p]][t]
  BY <1>0, <1>1 DEF TypeOK
<1>3. \A j \in Ino : j # writer[p] => file'[j] = file[j]
  BY <1>0 DEF TypeOK
<1>4. Header(p, I_VERSION) = FORMAT_VERSION /\ Header(p, I_PID) = p
  BY DEF Header, I_VERSION, I_PID
<1>5. Complete(i) => Complete(i)'
  <2>1. CASE i = writer[p]
    BY <1>1, <1>2, <1>4, <2>1, CounterSlots DEF Complete
  <2>2. CASE i # writer[p]
    BY <1>3, <2>2 DEF Complete
  <2> QED BY <2>1, <2>2
<1>6. \A t \in Counters : file'[i][t] = file[i][t]
  BY <1>1, <1>2, <1>3, CounterSlots, SlotType
<1>7. ASSUME todo[p] = {s}, i = writer[p] PROVE Complete(i)'
  <2>1. \A t \in {I_VERSION, I_PID} : file'[i][t] = Header(p, t)
    BY <1>2, <1>7, CounterSlots DEF Headed
  <2> QED BY <1>1, <1>4, <1>7, <2>1 DEF Complete
<1> QED BY <1>5, <1>6, <1>7

(* Only a process past open_writer() adds to a shard, and only upwards.     *)
LEMMA AddFile ==
  ASSUME IType, Headed, NEW p \in Pid, AddToShard(p), NEW i \in Ino
  PROVE  /\ \A s \in {I_VERSION, I_PID} : file'[i][s] = file[i][s]
         /\ \A s \in Counters : file'[i][s] >= file[i][s]
         /\ ~Complete(i) => file'[i] = file[i]
<1>0. TypeOK /\ writer[p] \in Ino /\ Complete(writer[p]) /\ call[p].op = "record"
      /\ todo[p] \subseteq Slot \ {I_VERSION, I_PID}
  BY DEF AddToShard, IType, Control, Headed
<1>1. PICK s \in Due(p) :
        file' = [file EXCEPT ![writer[p]][s] = Added(s, @, micros(call[p].req.ticks))]
  BY DEF AddToShard
<1>2. s \in Slot \ {I_VERSION, I_PID}
  BY <1>0 DEF Due
<1> DEFINE us == micros(call[p].req.ticks)
<1>3. us \in Nat
  BY <1>0, CallType, RequestAssumption, MicrosType DEF TypeOK
<1>4. /\ \A t \in Slot : file'[writer[p]][t] = IF t = s THEN Added(s, file[writer[p]][s], us)
                                                        ELSE file[writer[p]][t]
      /\ \A j \in Ino : j # writer[p] => file'[j] = file[j]
  BY <1>0, <1>1, <1>2 DEF TypeOK
<1>5. \A t \in Slot : file[i][t] \in Nat
  BY <1>0 DEF TypeOK
<1>6. s \in Counters => Added(s, file[writer[p]][s], us) >= file[writer[p]][s]
  <2> HIDE DEF us
  <2>1. file[writer[p]][s] \in Nat
    BY <1>0, <1>2 DEF TypeOK
  <2> QED BY <1>3, <2>1 DEF Added, Counters, I_TOTAL, I_ERRORS, I_SUM_US, I_MAX_US, I_MIN_US
<1>7. CASE i = writer[p]
  <2> HIDE DEF us
  <2>1. \A t \in Counters : file'[i][t] >= file[i][t]
    BY <1>4, <1>5, <1>6, <1>7, CounterSlots
  <2> QED BY <1>0, <1>2, <1>4, <1>7, <2>1, CounterSlots
<1>8. CASE i # writer[p]
  BY <1>4, <1>5, <1>8, CounterSlots
<1> QED BY <1>7, <1>8

(* What a step does to the files.                                           *)
LEMMA FileStep ==
  ASSUME IType, Headed, [Next]_vars, NEW i \in Ino
  PROVE  /\ Complete(i) => Complete(i)'
         /\ \A s \in Counters : file'[i][s] >= file[i][s]
         /\ ~Complete(i)' => \A s \in Counters : file'[i][s] = 0
<1> USE DEF disk
<1>0. TypeOK
  BY DEF IType
<1>1. \A s \in Slot : file[i][s] \in Nat
  BY <1>0 DEF TypeOK
<1>2. \A s \in Counters : file[i][s] >= file[i][s]
  BY <1>1, CounterSlots
<1>3. ~Complete(i) => \A s \in Counters : file[i][s] = 0
  BY DEF Headed, HeaderFirst, Counters
<1>4. CASE \E p \in Pid : Open(p)
  BY <1>2, <1>3, <1>4, OpenFile, CounterSlots
<1>5. CASE \E p \in Pid : StoreHeader(p)
  <2>1. PICK p \in Pid : StoreHeader(p)
    BY <1>5
  <2>2. PICK s \in Due(p) : file' = [file EXCEPT ![writer[p]][s] = Header(p, s)]
    BY <2>1 DEF StoreHeader
  <2>3. pc[p] = "header"
    BY <2>1 DEF StoreHeader
  <2> QED BY <1>2, <1>3, <2>2, <2>3, HeaderFile, CounterSlots
<1>6. CASE \E p \in Pid : AddToShard(p)
  <2>1. PICK p \in Pid : AddToShard(p)
    BY <1>6
  <2> QED BY <1>3, <2>1, AddFile DEF Complete
<1>7. CASE file' = file
  BY <1>2, <1>3, <1>7 DEF Complete
<1>8. \/ \E p \in Pid : Open(p) \/ StoreHeader(p) \/ AddToShard(p)
      \/ file' = file
  <2>1. CASE UNCHANGED vars
    BY <2>1 DEF vars
  <2>2. ASSUME NEW p \in Pid,
               Start(p) \/ StartForeign(p) \/ Crash(p) \/ Reap(p) \/ Disable(p) \/ Degrade(p)
        PROVE  file' = file
    BY <2>2 DEF Start, StartForeign, Crash, Reap, Disable, Degrade
  <2>3. ASSUME NEW p \in Pid, NEW q \in Pid, Fork(q, p) PROVE file' = file
    BY <2>3 DEF Fork
  <2>4. ASSUME NEW p \in Pid, NEW c \in Call, Invoke(p, c) PROVE file' = file
    BY <2>4 DEF Invoke
  <2>5. ASSUME NEW p \in Pid,
               CheckVersion(p) \/ CheckOwner(p) \/ Unlink(p) \/ ReadSlot(p) \/ Return(p)
        PROVE  file' = file
    BY <2>5 DEF CheckVersion, CheckOwner, Unlink, ReadSlot, Return
  <2>6. ASSUME NEW p \in Pid, NEW n \in Pid, NEW ok \in BOOLEAN, ReadDir(p, ok) \/ Visit(p, n, ok)
        PROVE  file' = file
    BY <2>6 DEF ReadDir, Visit
  <2>7. CASE Next
    BY <2>2, <2>3, <2>4, <2>5, <2>6, <2>7 DEF Next, Working
  <2> QED BY <2>1, <2>7
<1> QED BY <1>4, <1>5, <1>6, <1>7, <1>8

(* What remains to be shown of a process that acts.                         *)
LEMMA HeadFrame ==
  ASSUME IType, Headed, [Next]_vars, NEW p \in Pid,
         \A q \in Pid \ {p} : /\ pc'[q] = pc[q] /\ todo'[q] = todo[q]
                              /\ mode'[q] = mode[q] /\ writer'[q] = writer[q],
         \A i \in Ino : i[1] # p => \A s \in {I_VERSION, I_PID} : file'[i][s] = file[i][s],
         pc'[p] = "header" =>
           /\ writer'[p][1] = p
           /\ todo'[p] \subseteq HeaderSlots
           /\ \A s \in {I_VERSION, I_PID} \ todo'[p] : file'[writer'[p]][s] = Header(p, s),
         pc'[p] = "record" \/ (mode'[p] = "enabled" /\ pc'[p] # "header") => Complete(writer[p])' 
  PROVE  Headed'
<1>1. HeaderFirst'
  BY FileStep DEF HeaderFirst, Counters
<1>2. ASSUME NEW q \in Pid, q # p
      PROVE  /\ pc'[q] = "header" =>
                  /\ writer'[q][1] = q
                  /\ todo'[q] \subseteq HeaderSlots
                  /\ \A s \in {I_VERSION, I_PID} \ todo'[q] :
                       file'[writer'[q]][s] = Header(q, s)
             /\ pc'[q] = "record" \/ (mode'[q] = "enabled" /\ pc'[q] # "header") =>
                  Complete(writer[q])'
  <2>1. pc[q] \in {"header", "record"} \/ mode[q] = "enabled" => writer[q] \in Ino
    BY DEF IType, Control
  <2>2. ASSUME pc[q] = "header"
        PROVE  /\ writer[q][1] = q
               /\ \A s \in {I_VERSION, I_PID} \ todo[q] : file'[writer[q]][s] = Header(q, s)
    BY <1>2, <2>1, <2>2 DEF Headed
  <2>3. ASSUME pc[q] = "record" \/ (mode[q] = "enabled" /\ pc[q] # "header")
        PROVE  Complete(writer[q])'
    <3>1. writer[q] \in Ino /\ Complete(writer[q])
      BY <2>1, <2>3 DEF Headed
    <3>2. \A i \in Ino : Complete(i) => Complete(i)'
      BY FileStep
    <3> QED BY <1>2, <3>1, <3>2 DEF Complete
  <2> QED BY <1>2, <2>2, <2>3 DEF Headed
<1> QED BY <1>1, <1>2 DEF Headed

LEMMA ProceedHeaded ==
  ASSUME IType, Headed, [Next]_vars, NEW p \in Pid, NEW c \in Call, NEW i \in Ino,
         Proceed(p, c, i), Complete(i)',
         \A j \in Ino : j[1] # p => \A s \in {I_VERSION, I_PID} : file'[j][s] = file[j][s]
  PROVE  Headed'
<1>0. TypeOK
  BY DEF IType
<1>1. /\ mode' = [mode EXCEPT ![p] = "enabled"]
      /\ writer' = [writer EXCEPT ![p] = i]
      /\ pc' = [pc EXCEPT ![p] = IF c.op \in {"record", "merged"} THEN c.op ELSE "idle"]
      /\ todo' = [todo EXCEPT ![p] = IF c.op = "record" THEN RecordSlots(c.req) ELSE {}]
  BY DEF Proceed
<1>2. pc'[p] # "header" /\ writer'[p] = i
  BY <1>0, <1>1 DEF TypeOK
<1>3. Complete(writer[p])'
  BY <1>2 DEF Complete
<1>4. \A q \in Pid \ {p} : /\ pc'[q] = pc[q] /\ todo'[q] = todo[q]
                           /\ mode'[q] = mode[q] /\ writer'[q] = writer[q]
  BY <1>0, <1>1 DEF TypeOK
<1> QED BY <1>2, <1>3, <1>4, HeadFrame

LEMMA NextHeaded == IType /\ Headed /\ [Next]_vars => Headed'
<1> SUFFICES ASSUME IType, Headed, [Next]_vars PROVE Headed'
  OBVIOUS
<1> USE DEF os, disk, state, ctl, hist
<1>0. TypeOK /\ Control
  BY DEF IType
<1>1. ASSUME NEW p \in Pid, Start(p) \/ StartForeign(p) \/ Reap(p) PROVE Headed'
  BY <1>0, <1>1 DEF Start, StartForeign, Reap, Headed, HeaderFirst, Complete
<1>2. ASSUME NEW p \in Pid, NEW q \in Pid, Fork(q, p) PROVE Headed'
  <2>1. /\ proc[p] = "free" /\ p # q /\ pc[q] = "idle" /\ UNCHANGED <<pc, todo, file>>
        /\ mode' = [mode EXCEPT ![p] = mode[q]] /\ writer' = [writer EXCEPT ![p] = writer[q]]
    BY <1>2 DEF Fork, Spawn
  <2>2. pc[p] = "idle"
    BY <1>0, <2>1 DEF Control
  <2> QED BY <1>0, <2>1, <2>2 DEF Headed, HeaderFirst, Complete, TypeOK
<1>3. ASSUME NEW p \in Pid, Crash(p) PROVE Headed'
  <2>1. /\ pc'[p] = "idle" /\ mode'[p] = "uninit" /\ file' = file
        /\ \A q \in Pid \ {p} : /\ pc'[q] = pc[q] /\ todo'[q] = todo[q]
                                /\ mode'[q] = mode[q] /\ writer'[q] = writer[q]
    BY <1>0, <1>3 DEF Crash, Forget, TypeOK
  <2> QED BY <2>1, HeadFrame
<1>4. ASSUME NEW p \in Pid, NEW c \in Call, Invoke(p, c) PROVE Headed'
  <2>1. CASE c.op = "set_dir" \/ mode[p] = "uninit"
    <3>1. /\ pc' = [pc EXCEPT ![p] = "open"] /\ pc[p] = "idle"
          /\ UNCHANGED <<state, todo, file>>
      BY <1>4, <2>1 DEF Invoke
    <3> QED BY <1>0, <3>1 DEF Headed, HeaderFirst, Complete, TypeOK
  <2>2. CASE ~(c.op = "set_dir" \/ mode[p] = "uninit")
    <3>1. Proceed(p, c, writer[p]) /\ mode[p] = "enabled" /\ pc[p] = "idle" /\ file' = file
      BY <1>4, <2>2 DEF Invoke
    <3>2. writer[p] \in Ino /\ Complete(writer[p])
      BY <1>0, <3>1 DEF Control, Headed
    <3>3. PICK i \in Ino : i = writer[p]
      BY <3>2
    <3>4. Proceed(p, c, i) /\ Complete(i)'
      BY <3>1, <3>2, <3>3 DEF Complete
    <3> QED BY <3>1, <3>4, ProceedHeaded
  <2> QED BY <2>1, <2>2
<1>5. ASSUME NEW p \in Pid, Disable(p) \/ Degrade(p) PROVE Headed'
  <2>1. /\ pc'[p] \in {"idle", "open"} /\ mode'[p] = "disabled" /\ file' = file
        /\ \A q \in Pid \ {p} : /\ pc'[q] = pc[q] /\ todo'[q] = todo[q]
                                /\ mode'[q] = mode[q] /\ writer'[q] = writer[q]
    BY <1>0, <1>5 DEF Disable, Degrade, TypeOK
  <2> QED BY <2>1, HeadFrame
<1>6. ASSUME NEW p \in Pid, Open(p) PROVE Headed'
  <2> DEFINE k == IF dir[p] = 0 THEN gen[p] + 1 ELSE dir[p]
  <2>1. k <= MaxGen /\ pc[p] = "open"
    BY <1>0, <1>6, BoundAssumption DEF Open, Create, shard_name, TypeOK
  <2>2. <<p, k>> \in Ino
    BY <1>0, <2>1, BoundAssumption DEF TypeOK, Ino
  <2>3. PICK i \in Ino : i = <<p, k>>
    BY <2>2
  <2>4. /\ i[1] = p /\ call[p] \in Call
        /\ IF Same(p, i)
             THEN Proceed(p, call[p], i) /\ file' = file
             ELSE /\ file' = [file EXCEPT ![i] = ZeroShard]
                  /\ writer' = [writer EXCEPT ![p] = i]
                  /\ pc' = [pc EXCEPT ![p] = "header"]
                  /\ todo' = [todo EXCEPT ![p] = HeaderSlots]
                  /\ UNCHANGED mode
    BY <1>0, <1>6, <2>3 DEF Open, shard_name, TypeOK
  <2>5. CASE Same(p, i)
    <3>1. Proceed(p, call[p], i) /\ file' = file /\ Complete(i)'
      BY <2>4, <2>5 DEF Same, Complete
    <3>2. PICK c \in Call : c = call[p]
      BY <2>4
    <3>3. Proceed(p, c, i)
      BY <3>1, <3>2
    <3> QED BY <3>1, <3>3, ProceedHeaded
  <2>6. CASE ~Same(p, i)
    <3>1. /\ pc'[p] = "header" /\ writer'[p] = i /\ todo'[p] = HeaderSlots
          /\ \A q \in Pid \ {p} : /\ pc'[q] = pc[q] /\ todo'[q] = todo[q]
                                  /\ mode'[q] = mode[q] /\ writer'[q] = writer[q]
          /\ \A j \in Ino : j # i => file'[j] = file[j]
      BY <1>0, <2>4, <2>6 DEF TypeOK
    <3> QED BY <2>4, <3>1, HeadFrame, CounterSlots
  <2> QED BY <2>5, <2>6
<1>7. ASSUME NEW p \in Pid, StoreHeader(p) PROVE Headed'
  <2>1. PICK s \in Due(p) :
          /\ file' = [file EXCEPT ![writer[p]][s] = Header(p, s)]
          /\ IF todo[p] = {s}
               THEN Proceed(p, call[p], writer[p])
               ELSE /\ todo' = [todo EXCEPT ![p] = @ \ {s}]
                    /\ UNCHANGED <<state, pc, call, hist>>
    BY <1>7 DEF StoreHeader
  <2>2. /\ writer[p] \in Ino /\ call[p] \in Call /\ pc[p] = "header" /\ s \in todo[p]
        /\ s \in Slot /\ writer[p][1] = p /\ todo[p] \subseteq HeaderSlots
    BY <1>0, <1>7 DEF StoreHeader, Control, TypeOK, Due, Headed
  <2>3. PICK i \in Ino : i = writer[p]
    BY <2>2
  <2>4. /\ \A j \in Ino : j # i => file'[j] = file[j]
        /\ \A t \in Slot : file'[i][t] = IF t = s THEN Header(p, s) ELSE file[i][t]
    BY <1>0, <2>1, <2>2, <2>3 DEF TypeOK
  <2>5. CASE todo[p] = {s}
    <3>1. Complete(i)'
      BY <2>1, <2>2, <2>3, <2>5, HeaderFile
    <3>2. PICK c \in Call : c = call[p]
      BY <2>2
    <3>3. Proceed(p, c, i)
      BY <2>1, <2>3, <2>5, <3>2
    <3> QED BY <2>2, <2>3, <2>4, <3>1, <3>3, ProceedHeaded
  <2>6. CASE todo[p] # {s}
    <3>1. /\ todo' = [todo EXCEPT ![p] = @ \ {s}] /\ UNCHANGED <<mode, writer, pc>>
          /\ todo'[p] = todo[p] \ {s}
      BY <1>0, <2>1, <2>6 DEF TypeOK
    <3>2. \A t \in {I_VERSION, I_PID} \ todo'[p] : file'[writer'[p]][t] = Header(p, t)
      BY <2>2, <2>3, <2>4, <3>1, CounterSlots DEF Headed
    <3>3. \A q \in Pid \ {p} : /\ pc'[q] = pc[q] /\ todo'[q] = todo[q]
                               /\ mode'[q] = mode[q] /\ writer'[q] = writer[q]
      BY <1>0, <3>1 DEF TypeOK
    <3>4. \A j \in Ino : j[1] # p => file'[j] = file[j]
      BY <2>2, <2>3, <2>4
    <3> QED BY <2>2, <3>1, <3>2, <3>3, <3>4, HeadFrame
  <2> QED BY <2>5, <2>6
<1>8. ASSUME NEW p \in Pid, AddToShard(p) PROVE Headed'
  <2>1. /\ pc[p] = "record" /\ pc'[p] \in {"record", "idle"} /\ UNCHANGED <<mode, writer>>
        /\ \A q \in Pid \ {p} : pc'[q] = pc[q] /\ todo'[q] = todo[q]
    BY <1>0, <1>8 DEF AddToShard, TypeOK
  <2>2. writer[p] \in Ino /\ Complete(writer[p])
    BY <1>0, <2>1 DEF Control, Headed
  <2>3. \A i \in Ino : \A s \in {I_VERSION, I_PID} : file'[i][s] = file[i][s]
    BY <1>8, AddFile
  <2>4. Complete(writer[p])'
    BY <2>1, <2>2, <2>3 DEF Complete
  <2> QED BY <2>1, <2>3, <2>4, HeadFrame
<1>9. ASSUME NEW r \in Pid,
             \/ CheckVersion(r) \/ CheckOwner(r) \/ Unlink(r) \/ ReadSlot(r) \/ Return(r)
             \/ \E ok \in BOOLEAN : ReadDir(r, ok) \/ \E n \in Pid : Visit(r, n, ok)
      PROVE  Headed'
  <2>1. /\ file' = file /\ UNCHANGED <<mode, writer>>
        /\ pc[r] \notin {"header", "record"} /\ pc'[r] \notin {"header", "record"}
        /\ \A q \in Pid \ {r} : pc'[q] = pc[q] /\ todo'[q] = todo[q]
    <3>1. CASE CheckVersion(r) \/ CheckOwner(r) \/ Unlink(r)
      BY <1>0, <3>1 DEF CheckVersion, CheckOwner, Unlink, Move, TypeOK
    <3>2. CASE ReadSlot(r) \/ Return(r)
      BY <1>0, <3>2 DEF ReadSlot, Return, Returning, Move, TypeOK
    <3>3. CASE \E ok \in BOOLEAN : ReadDir(r, ok) \/ \E n \in Pid : Visit(r, n, ok)
      BY <1>0, <3>3 DEF ReadDir, Visit, Move, TypeOK
    <3> QED BY <1>9, <3>1, <3>2, <3>3
  <2>2. mode'[r] = "enabled" => Complete(writer[r])'
    BY <2>1 DEF Headed, Complete
  <2> QED BY <2>1, <2>2, HeadFrame
<1>10. CASE UNCHANGED vars
  BY <1>10 DEF vars, Headed, HeaderFirst, Complete
<1> QED
  BY <1>1, <1>2, <1>3, <1>4, <1>5, <1>6, <1>7, <1>8, <1>9, <1>10 DEF Next, Working

LEMMA InitHeaded == Init => IType /\ Headed
BY InitType, SlotType DEF IType, Init, Control, Headed, HeaderFirst, ZeroShard

LEMMA HeadedInvariant == Spec => [](IType /\ Headed)
<1>1. Init => IType /\ Headed
  BY InitHeaded
<1>2. IType /\ Headed /\ [Next]_vars => (IType /\ Headed)'
  BY NextType, NextControl, NextHeaded DEF IType
<1> QED BY <1>1, <1>2, PTL DEF Spec

(* No request is ever in a shard that has no header yet, or of which the    *)
(* owner died before it had: whatever dies, forks or takes over a pid.      *)
THEOREM HeadersFirst == Spec => []HeaderFirst
<1>1. IType /\ Headed => HeaderFirst
  BY DEF Headed
<1> QED BY <1>1, HeadedInvariant, PTL

(* The counters of a shard never fall, whatever re-opens it and in whatever *)
(* order the atomics take effect.                                           *)
THEOREM CountersNeverFall == Spec => CountersNeverReset
<1>1. IType /\ Headed /\ [Next]_vars =>
        [\A i \in Ino, s \in {I_TOTAL, I_ERRORS, I_SUM_US, I_MAX_US} :
           file'[i][s] >= file[i][s]]_vars
  BY FileStep, CounterSlots
<1> QED BY <1>1, HeadedInvariant, PTL DEF Spec, CountersNeverReset
=============================================================================
