------------------------------- MODULE Shards -------------------------------
(***************************************************************************)
(* Multi-worker aggregation of src/multiproc.rs.  Every worker process     *)
(* maps a shard file rpy-<pid>.shard and adds each request to it with      *)
(* relaxed atomics; any worker merges all the shards of the directory,     *)
(* and unlinks those whose owner it finds dead, without any lock shared    *)
(* by the processes.                                                       *)
(*                                                                         *)
(* One step is one access to shared memory or one system call.  Within a   *)
(* process calls do not overlap: the extension module never releases the   *)
(* GIL, so process and thread are the same here.                           *)
(***************************************************************************)
EXTENDS ShardLayout

CONSTANTS
  Pid,              (* Process ids the operating system hands out.          *)
  Calls,            (* The calls the host application makes in each worker. *)
  Env,              (* What the environment does on its own.                *)
  Ordered,          (* Do the atomics of one call take effect in program    *)
                    (* order (x86-64), or in any order (AArch64)?           *)
  MaxRecords,       (* Bound: record() calls in a behaviour.                *)
  MaxStarts,        (* Bound: processes started in a behaviour.             *)
  MaxGen            (* Bound: files created under one name.                 *)

Ops == {"record", "merged", "set_dir", "dir"}

ASSUME PidAssumption    == Pid \subseteq Nat \ {0} /\ IsFiniteSet(Pid)
ASSUME FlagAssumption ==
  /\ Calls \in [Pid -> SUBSET (Ops \cup {"unset_dir"})]
  /\ Env \subseteq {"crash", "open_error", "read_error", "reuse", "foreign", "fork"}
  /\ Ordered \in BOOLEAN
ASSUME BoundAssumption ==
  MaxRecords \in Nat /\ MaxStarts \in Nat /\ MaxGen \in Nat

-----------------------------------------------------------------------------
(* A file is identified by its name (the pid in it) and a generation; a     *)
(* worker may still map a file whose name is gone or belongs to a newer one.*)
Ino    == Pid \X (1 .. MaxGen)
NoFile == <<0, 0>>

EmptyView == [n \in Pid |-> EmptyReading]

-----------------------------------------------------------------------------
VARIABLES
  proc,     (* Process table: is the pid free, running, a zombie, foreign?  *)
  used,     (* Pids that have ever been given to a process.                 *)
  starts,   (* Number of processes started, and of record() calls made:     *)
  issued,   (* counters for the bounds only.                                *)
  mode,     (* STATE of each process: uninit, disabled or enabled.          *)
  writer,   (* The file each process maps for writing.                      *)
  pc,       (* Where each process is in its current call.                   *)
  call,     (* That call.                                                   *)
  todo,     (* Slots the current loop of the call has still to access.      *)
  scan,     (* Local state of merged().                                     *)
  dir,      (* The directory: generation linked under each name, 0 if none. *)
  gen,      (* Files created so far under each name.                        *)
  file,     (* Contents of every file.                                      *)
  begun,    (* History: record() calls begun, and returned, on each file.   *)
  done,
  own       (* History: requests recorded by the present process of a pid.  *)

os    == <<proc, used, starts, issued>>
disk  == <<dir, gen, file>>
state == <<mode, writer>>
ctl   == <<pc, call, todo>>
hist  == <<begun, done, own>>
vars  == <<os, disk, state, ctl, scan, hist>>

NoCall == [op |-> "none"]
NoScan == [left |-> {}, seen |-> {}, at |-> NoFile, view |-> EmptyView,
           floor |-> [i \in Ino |-> 0], base |-> [i \in Ino |-> 0]]

Call == [op : {"none", "merged", "set_dir", "dir"}] \cup [op : {"record"}, req : Requests]

Scan == [left : SUBSET Pid, seen : SUBSET Pid, at : Ino \cup {NoFile},
         view : [Pid -> [MergeSlots -> Nat]], floor : [Ino -> Nat], base : [Ino -> Nat]]

PC == {"idle", "open", "header", "record", "merged",
       "scan", "version", "owner", "unlink", "read"}

TypeOK ==
  /\ proc \in [Pid -> {"free", "running", "zombie", "foreign"}]
  /\ used \subseteq Pid
  /\ starts \in Nat
  /\ issued \in Nat
  /\ mode \in [Pid -> {"uninit", "disabled", "enabled"}]
  /\ writer \in [Pid -> Ino \cup {NoFile}]
  /\ pc \in [Pid -> PC]
  /\ call \in [Pid -> Call]
  /\ todo \in [Pid -> SUBSET Slot]
  /\ scan \in [Pid -> Scan]
  /\ dir \in [Pid -> 0 .. MaxGen]
  /\ gen \in [Pid -> 0 .. MaxGen]
  /\ file \in [Ino -> [Slot -> Nat]]
  /\ begun \in [Ino -> Nat]
  /\ done \in [Ino -> Nat]
  /\ own \in [Pid -> Nat]

Init ==
  /\ proc = [p \in Pid |-> "free"]
  /\ used = {}
  /\ starts = 0
  /\ issued = 0
  /\ mode = [p \in Pid |-> "uninit"]
  /\ writer = [p \in Pid |-> NoFile]
  /\ pc = [p \in Pid |-> "idle"]
  /\ call = [p \in Pid |-> NoCall]
  /\ todo = [p \in Pid |-> {}]
  /\ scan = [p \in Pid |-> NoScan]
  /\ dir = [p \in Pid |-> 0]
  /\ gen = [p \in Pid |-> 0]
  /\ file = [i \in Ino |-> ZeroShard]
  /\ begun = [i \in Ino |-> 0]
  /\ done = [i \in Ino |-> 0]
  /\ own = [p \in Pid |-> 0]

-----------------------------------------------------------------------------
(* Processes: the operating system and the process manager (gunicorn).      *)

(* What a process forgets when it goes, and a new one starts with.          *)
Forget(p) ==
  /\ mode' = [mode EXCEPT ![p] = "uninit"]
  /\ writer' = [writer EXCEPT ![p] = NoFile]
  /\ pc' = [pc EXCEPT ![p] = "idle"]
  /\ call' = [call EXCEPT ![p] = NoCall]
  /\ todo' = [todo EXCEPT ![p] = {}]
  /\ scan' = [scan EXCEPT ![p] = NoScan]
  /\ own' = [own EXCEPT ![p] = 0]

Spawn(p, kind) ==
  /\ proc[p] = "free"
  /\ "reuse" \in Env \/ p \notin used
  /\ starts < MaxStarts
  /\ proc' = [proc EXCEPT ![p] = kind]
  /\ used' = used \cup {p}
  /\ starts' = starts + 1

(* A worker starts: its STATE is Uninit.                                    *)
Start(p) == Spawn(p, "running") /\ UNCHANGED <<issued, disk, state, ctl, scan, hist>>

(* An unrelated program is given the pid.                                   *)
StartForeign(p) ==
  /\ "foreign" \in Env
  /\ Spawn(p, "foreign")
  /\ UNCHANGED <<issued, disk, state, ctl, scan, hist>>

(* A worker forks: the child inherits STATE, with a mapping of the parent's *)
(* shard if there is one.                                                   *)
Fork(q, p) ==
  /\ "fork" \in Env
  /\ proc[q] = "running" /\ pc[q] = "idle"
  /\ Spawn(p, "running")
  /\ mode' = [mode EXCEPT ![p] = mode[q]]
  /\ writer' = [writer EXCEPT ![p] = writer[q]]
  /\ UNCHANGED <<issued, disk, ctl, scan, hist>>

(* A worker exits or is killed, in the middle of a call or not: nothing     *)
(* removes its shard.  It stays in the process table until it is reaped.    *)
Crash(p) ==
  /\ "crash" \in Env
  /\ proc[p] = "running"
  /\ proc' = [proc EXCEPT ![p] = "zombie"]
  /\ Forget(p)
  /\ UNCHANGED <<used, starts, issued, disk, begun, done>>

(* A foreign program is gone as soon as it exits.                           *)
Reap(p) ==
  /\ proc[p] \in {"zombie", "foreign"}
  /\ proc' = [proc EXCEPT ![p] = "free"]
  /\ UNCHANGED <<used, starts, issued, disk, state, ctl, scan, hist>>

(* kill(pid, 0): pid 0 is the caller's own process group, a zombie and a    *)
(* foreign process answer.                                                  *)
pid_alive_NoEPERM(q) == q = 0
pid_alive_NotUnix(q) == TRUE
pid_alive(q) == q = 0 \/ proc[q] # "free"

-----------------------------------------------------------------------------
(* ensure_init(), open_writer() and set_dir().                              *)

(* Next slots of the loop over todo[p] to take effect.                      *)
Due(p) == {s \in todo[p] : Ordered => \A t \in todo[p] : s <= t}

(* The call proper goes on, STATE being Enabled with file i as writer; for  *)
(* set_dir() and dir() there is nothing more to do.                         *)
Proceed(p, c, i) ==
  /\ mode' = [mode EXCEPT ![p] = "enabled"]
  /\ writer' = [writer EXCEPT ![p] = i]
  /\ pc' = [pc EXCEPT ![p] = IF c.op \in {"record", "merged"} THEN c.op ELSE "idle"]
  /\ call' = [call EXCEPT ![p] = IF c.op \in {"record", "merged"} THEN c ELSE NoCall]
  /\ IF c.op = "record"
       THEN /\ todo' = [todo EXCEPT ![p] = RecordSlots(c.req)]
            /\ begun' = [begun EXCEPT ![i] = @ + 1]
            /\ own' = [own EXCEPT ![p] = @ + 1]
       ELSE /\ todo' = [todo EXCEPT ![p] = {}]
            /\ UNCHANGED <<begun, own>>
  /\ UNCHANGED done

(* A call of the API that finds STATE Uninit, or set_dir(Some), goes        *)
(* through open_writer() first; on a Disabled STATE the other calls do      *)
(* nothing to the shards.                                                   *)
Invoke(p, c) ==
  /\ proc[p] = "running" /\ pc[p] = "idle"
  /\ c.op \in Ops \cap Calls[p]
  /\ c.op = "record" => issued < MaxRecords
  /\ issued' = IF c.op = "record" THEN issued + 1 ELSE issued
  /\ IF c.op = "set_dir" \/ mode[p] = "uninit"
       THEN /\ pc' = [pc EXCEPT ![p] = "open"]
            /\ call' = [call EXCEPT ![p] = c]
            /\ UNCHANGED <<state, todo, hist>>
       ELSE mode[p] = "enabled" /\ Proceed(p, c, writer[p])
  /\ UNCHANGED <<proc, used, starts, disk, scan>>

(* set_dir(None).                                                           *)
Disable(p) ==
  /\ "unset_dir" \in Calls[p]
  /\ proc[p] = "running" /\ pc[p] = "idle"
  /\ mode' = [mode EXCEPT ![p] = "disabled"]
  /\ writer' = [writer EXCEPT ![p] = NoFile]
  /\ UNCHANGED <<os, disk, ctl, scan, hist>>

(* The name is built from std::process::id() at every call.                 *)
shard_name_Cached(p) == CHOOSE q \in Pid : \A other \in Pid : q <= other
shard_name(p) == p

(* A new file under a name; a generation is new only once, so it is zero.   *)
Create(n) ==
  /\ dir[n] = 0
  /\ gen[n] < MaxGen
  /\ dir' = [dir EXCEPT ![n] = gen[n] + 1]
  /\ gen' = [gen EXCEPT ![n] = @ + 1]

(* The shard cannot be set up, or RPY_MULTIPROC_DIR is not set: STATE is    *)
(* Disabled and the call does nothing more.  When it is set_len() or        *)
(* map_mut() that fails, a file may have been created.                      *)
Degrade(p) ==
  /\ "open_error" \in Env
  /\ pc[p] = "open"
  /\ UNCHANGED <<dir, gen>> \/ Create(shard_name(p))
  /\ mode' = [mode EXCEPT ![p] = "disabled"]
  /\ writer' = [writer EXCEPT ![p] = NoFile]
  /\ pc' = [pc EXCEPT ![p] = "idle"]
  /\ call' = [call EXCEPT ![p] = NoCall]
  /\ UNCHANGED <<os, file, todo, scan, hist>>

(* Does the mapped file already carry our format and pid?                   *)
Same_Never(p, i) == FALSE
Same_Exists(p, i) == dir[i[1]] = i[2]
Same(p, i) == file[i][I_VERSION] = FORMAT_VERSION /\ file[i][I_PID] = p

(* An existing file under our name is kept as it is when it is ours.  A new *)
(* file is zero-filled; until set_len() it is too short for merge_one(),    *)
(* which skips it just as it skips a zero version.  Zeroing is one step: a  *)
(* file that is not ours holds at most header slots.                        *)
Open(p) ==
  /\ pc[p] = "open"
  /\ LET n == shard_name(p)
         i == <<n, IF dir[n] = 0 THEN gen[n] + 1 ELSE dir[n]>>
     IN  /\ IF dir[n] = 0 THEN Create(n) ELSE UNCHANGED <<dir, gen>>
         /\ IF Same(p, i)
              THEN Proceed(p, call[p], i) /\ UNCHANGED file
              ELSE /\ file' = [file EXCEPT ![i] = ZeroShard]
                   /\ writer' = [writer EXCEPT ![p] = i]
                   /\ pc' = [pc EXCEPT ![p] = "header"]
                   /\ todo' = [todo EXCEPT ![p] = HeaderSlots]
                   /\ UNCHANGED <<mode, call, hist>>
  /\ UNCHANGED <<os, scan>>

StoreHeader(p) ==
  /\ pc[p] = "header"
  /\ \E s \in Due(p) :
       /\ file' = [file EXCEPT ![writer[p]][s] = Header(p, s)]
       /\ IF todo[p] = {s}
            THEN Proceed(p, call[p], writer[p])
            ELSE /\ todo' = [todo EXCEPT ![p] = @ \ {s}]
                 /\ UNCHANGED <<state, pc, call, hist>>
  /\ UNCHANGED <<os, dir, gen, scan>>

-----------------------------------------------------------------------------
(* record(): one atomic read-modify-write per step.                         *)

AddToShard(p) ==
  /\ pc[p] = "record"
  /\ \E s \in Due(p) :
       /\ file' = [file EXCEPT ![writer[p]][s] = Added(s, @, micros(call[p].req.ticks))]
       /\ todo' = [todo EXCEPT ![p] = @ \ {s}]
       /\ IF todo[p] = {s}
            THEN /\ pc' = [pc EXCEPT ![p] = "idle"]
                 /\ call' = [call EXCEPT ![p] = NoCall]
                 /\ done' = [done EXCEPT ![writer[p]] = @ + 1]
            ELSE UNCHANGED <<pc, call, done>>
  /\ UNCHANGED <<os, dir, gen, state, scan, begun, own>>

-----------------------------------------------------------------------------
(* merged() and merge_one().                                                *)

Move(r, to) == pc' = [pc EXCEPT ![r] = to]

(* read_dir(): names present now will be visited - or none at all, if the   *)
(* directory cannot be read.  floor and base are history variables: the     *)
(* requests whose record() had returned on each shard by then, and those    *)
(* visible in it.                                                           *)
ReadDir(r, readable) ==
  /\ pc[r] = "merged"
  /\ readable \/ "read_error" \in Env
  /\ Move(r, "scan")
  /\ scan' = [scan EXCEPT ![r] =
       [NoScan EXCEPT !.left  = IF readable THEN {n \in Pid : dir[n] # 0} ELSE {},
                      !.seen  = IF readable THEN {} ELSE Pid,
                      !.floor = done,
                      !.base  = [i \in Ino |-> file[i][I_TOTAL]]]]
  /\ UNCHANGED <<os, disk, state, call, todo, hist>>

(* The next entry; one created during the scan may or may not be returned.  *)
(* An entry that is gone, or cannot be opened and mapped, is skipped.       *)
Visit(r, n, readable) ==
  /\ pc[r] = "scan"
  /\ n \notin scan[r].seen
  /\ n \in scan[r].left \/ dir[n] # 0
  /\ IF readable THEN dir[n] # 0 ELSE dir[n] = 0 \/ "read_error" \in Env
  /\ scan' = [scan EXCEPT ![r].left = @ \ {n},
                          ![r].seen = @ \cup {n},
                          ![r].at   = IF readable THEN <<n, dir[n]>> ELSE NoFile]
  /\ Move(r, IF readable THEN "version" ELSE "scan")
  /\ UNCHANGED <<os, disk, state, call, todo, hist>>

CheckVersion(r) ==
  /\ pc[r] = "version"
  /\ Move(r, IF file[scan[r].at][I_VERSION] = FORMAT_VERSION THEN "owner" ELSE "scan")
  /\ UNCHANGED <<os, disk, state, call, todo, scan, hist>>

CheckOwner(r) ==
  /\ pc[r] = "owner"
  /\ IF pid_alive(file[scan[r].at][I_PID])
       THEN Move(r, "read") /\ todo' = [todo EXCEPT ![r] = MergeSlots]
       ELSE Move(r, "unlink") /\ UNCHANGED todo
  /\ UNCHANGED <<os, disk, state, call, scan, hist>>

(* remove_file() goes by name, whatever file has the name by now.           *)
Unlink(r) ==
  /\ pc[r] = "unlink"
  /\ dir' = [dir EXCEPT ![scan[r].at[1]] = 0]
  /\ Move(r, "scan")
  /\ UNCHANGED <<os, gen, file, state, call, todo, scan, hist>>

ReadSlot(r) ==
  /\ pc[r] = "read"
  /\ \E s \in Due(r) :
       /\ scan' = [scan EXCEPT ![r].view[scan[r].at[1]][s] = file[scan[r].at][s]]
       /\ todo' = [todo EXCEPT ![r] = @ \ {s}]
       /\ Move(r, IF todo[r] = {s} THEN "scan" ELSE "read")
  /\ UNCHANGED <<os, disk, state, call, hist>>

Returning(r) == pc[r] = "scan" /\ scan[r].left = {}

Return(r) ==
  /\ Returning(r)
  /\ Move(r, "idle")
  /\ call' = [call EXCEPT ![r] = NoCall]
  /\ scan' = [scan EXCEPT ![r] = NoScan]
  /\ UNCHANGED <<os, disk, state, todo, hist>>

-----------------------------------------------------------------------------
Working(p) ==
  \/ Open(p) \/ StoreHeader(p) \/ AddToShard(p)
  \/ CheckVersion(p) \/ CheckOwner(p) \/ Unlink(p) \/ ReadSlot(p) \/ Return(p)
  \/ \E readable \in BOOLEAN : ReadDir(p, readable) \/ \E n \in Pid : Visit(p, n, readable)

Next ==
  \E p \in Pid :
    \/ Start(p) \/ StartForeign(p) \/ Crash(p) \/ Reap(p)
    \/ \E q \in Pid : Fork(q, p)
    \/ \E c \in Call : Invoke(p, c)
    \/ Disable(p) \/ Degrade(p)
    \/ Working(p)

Spec == Init /\ [][Next]_vars

=============================================================================
