------------------------------ MODULE Snapshot ------------------------------
(***************************************************************************)
(* CPU usage and memory in src/snapshot.rs and the alerts on them in       *)
(* src/alerts.rs.  collect() reports the CPU time used since the previous  *)
(* collect(), whoever called that: snapshot(), metrics_text() and          *)
(* check_alerts() all move the one baseline of the process.  Both come     *)
(* from sysinfo's entry of the process, which a refresh that fails leaves  *)
(* as it was.                                                              *)
(*                                                                         *)
(* Time is counted in units of wall clock; in each of them every core may  *)
(* be busy for the process or not.  A usage is the pair of CPU and wall    *)
(* time its percentage is made of.  Memory is in bytes, by the name of the *)
(* metric it is watched as.                                                *)
(***************************************************************************)
EXTENDS Integers

CONSTANTS
  Cores,
  Memory,           (* What the process may occupy.                         *)
  MB,               (* Bytes in a megabyte.                                 *)
  Thresholds,       (* What check_alerts() is called with: a limit for some *)
                    (* of the metrics.                                      *)
  Env,              (* May the process fork, its refresh fail, or the clock *)
                    (* of the system be set before 1970?                    *)
  MaxTime           (* Bound: units of time in a behaviour.                 *)

MemoryMetrics == {"memory_rss_mb", "memory_virtual_mb"}
Metrics == MemoryMetrics \cup {"cpu_percent"}

ASSUME SnapshotAssumption ==
  /\ Cores \in Nat
  /\ Memory \subseteq [MemoryMetrics -> Nat]
  /\ MB \in Nat \ {0}
  /\ \A thresholds \in Thresholds :
       DOMAIN thresholds \subseteq Metrics /\ thresholds \in [DOMAIN thresholds -> Nat]
  /\ Env \subseteq {"fork", "refresh_error", "clock_error"}
  /\ MaxTime \in Nat

VARIABLES
  now,              (* The monotonic clock.                                 *)
  cpu,              (* CPU time the process has used.                       *)
  memory,           (* Memory it occupies.                                  *)
  known,            (* CPU time in sysinfo's entry of the process, if any,  *)
  seen,             (* and memory.                                          *)
  prev,             (* STATE.prev: the previous sample, if any.             *)
  last,             (* Outcome of the last call.                            *)
  busy,             (* History: cores busy in each unit of time since then. *)
  origin,           (* History: CPU time at the first sample this process   *)
  reported,         (* took, and reported since,                            *)
  gapless,          (* every sample taken over some time or after a fresh   *)
                    (* one?                                                 *)
  fresh,            (* History: was the entry up to date at that sample?    *)
  held              (* History: memory occupied since it last was.          *)

hist == <<busy, origin, reported, gapless, fresh, held>>
vars == <<now, cpu, memory, known, seen, prev, last, hist>>

None     == -1
NoSample == [cpu |-> -1, at |-> -1]
NoMemory == [metric \in MemoryMetrics |-> -1]
Sample   == [cpu : Nat, at : Nat]
Usage    == [cpu : Nat, wall : Nat]

Outcome ==
  [kind : {"none", "error", "bare page"}]
    \cup [kind : {"snapshot", "page"}, usage : Usage, memory : Memory]
    \cup [kind : {"alerts"}, usage : Usage, thresholds : Thresholds, fired : SUBSET Metrics]

SnapshotTypeOK ==
  /\ now \in 0 .. MaxTime
  /\ cpu \in Nat
  /\ memory \in Memory
  /\ known \in Nat \cup {None}
  /\ seen \in Memory \cup {NoMemory}
  /\ prev \in Sample \cup {NoSample}
  /\ last \in Outcome
  /\ busy \in SUBSET (0 .. Cores)
  /\ origin \in Nat \cup {None}
  /\ reported \in Nat
  /\ gapless \in BOOLEAN
  /\ fresh \in BOOLEAN
  /\ held \subseteq Memory

Init ==
  /\ now = 0
  /\ cpu = 0
  /\ memory \in Memory
  /\ known = None
  /\ seen = NoMemory
  /\ prev = NoSample
  /\ last = [kind |-> "none"]
  /\ busy = {}
  /\ origin = None
  /\ reported = 0
  /\ gapless = FALSE
  /\ fresh = FALSE
  /\ held = {memory}

(* The program runs.                                                        *)
Run(used, occupied) ==
  /\ now < MaxTime
  /\ now' = now + 1
  /\ cpu' = cpu + used
  /\ memory' = occupied
  /\ busy' = busy \cup {used}
  /\ held' = held \cup {occupied}
  /\ last' = [kind |-> "none"]
  /\ UNCHANGED <<known, seen, prev, origin, reported, gapless, fresh>>

(* The process forks and we follow the child: its CPU time starts again,    *)
(* and STATE, with the parent's sample, comes along.  sysinfo's entry is    *)
(* that of another pid.                                                     *)
Fork ==
  /\ "fork" \in Env
  /\ cpu' = 0
  /\ known' = None
  /\ seen' = NoMemory
  /\ last' = [kind |-> "none"]
  /\ origin' = None
  /\ reported' = 0
  /\ gapless' = FALSE
  /\ fresh' = FALSE
  /\ held' = {memory}
  /\ UNCHANGED <<now, memory, prev, busy>>

(* cpu_time_ms.saturating_sub(prev_cpu_ms) over the time since; 0 without a *)
(* baseline, and over no time at all.                                       *)
Used_Wrapping(read) == IF prev = NoSample THEN 0 ELSE read - prev.cpu
Used(read) == IF prev = NoSample \/ read < prev.cpu THEN 0 ELSE read - prev.cpu
Since      == IF prev = NoSample THEN 0 ELSE now - prev.at
usage(read) == [cpu |-> IF Since = 0 THEN 0 ELSE Used(read), wall |-> Since]

(* The sample the next call goes by.                                        *)
Baseline_Early(read) == [cpu |-> IF prev = NoSample THEN 0 ELSE prev.cpu, at |-> now]
Baseline(read) == [cpu |-> read, at |-> now]

(* collect(): a refresh that fails leaves the entry as it was, or missing;  *)
(* without one the call fails and the baseline stays.                       *)
collect(refreshed) ==
  /\ refreshed \/ "refresh_error" \in Env
  /\ known' = IF refreshed THEN cpu ELSE known
  /\ seen' = IF refreshed THEN memory ELSE seen
  /\ IF known' = None
       THEN UNCHANGED <<prev, hist>>
       ELSE /\ prev' = Baseline(known')
            /\ busy' = {}
            /\ origin' = IF origin = None THEN known' ELSE origin
            /\ reported' = IF origin = None THEN 0 ELSE reported + usage(known').cpu
            /\ gapless' = (origin = None \/ (gapless /\ (Since > 0 \/ fresh)))
            /\ fresh' = refreshed
            /\ held' = IF refreshed THEN {memory} ELSE held
  /\ UNCHANGED <<now, cpu, memory>>

(* Before all that, the call fails when the clock is before 1970: it is an  *)
(* error to the caller, and to render() a page without these metrics.       *)
clock_error ==
  /\ "clock_error" \in Env
  /\ last' \in [kind : {"error", "bare page"}]
  /\ UNCHANGED <<now, cpu, memory, known, seen, prev, hist>>

Return(outcome) == last' = IF known' = None THEN [kind |-> "error"] ELSE outcome

snapshot(refreshed) ==
  /\ collect(refreshed)
  /\ Return([kind |-> "snapshot", usage |-> usage(known'), memory |-> seen'])

(* The process metrics of a page, left out if there are none to be had.     *)
render(refreshed) ==
  /\ collect(refreshed)
  /\ last' = IF known' = None
               THEN [kind |-> "bare page"]
               ELSE [kind |-> "page", usage |-> usage(known'), memory |-> seen']

(* Strictly over the limit.                                                 *)
Exceeds_OrEqual(u, limit) == 100 * u.cpu >= limit * u.wall
Exceeds(u, limit) == 100 * u.cpu > limit * u.wall

(* The metrics that are over their limit, among those that have one.        *)
evaluate_WholeMB(u, occupied, thresholds) ==
  {metric \in DOMAIN thresholds :
     \/ metric = "cpu_percent" /\ Exceeds(u, thresholds[metric])
     \/ metric \in MemoryMetrics /\ occupied[metric] \div MB > thresholds[metric]}
evaluate(u, occupied, thresholds) ==
  {metric \in DOMAIN thresholds :
     \/ metric = "cpu_percent" /\ Exceeds(u, thresholds[metric])
     \/ metric \in MemoryMetrics /\ occupied[metric] > thresholds[metric] * MB}

check_alerts(refreshed, thresholds) ==
  /\ collect(refreshed)
  /\ Return([kind |-> "alerts", usage |-> usage(known'), thresholds |-> thresholds,
             fired |-> evaluate(usage(known'), seen', thresholds)])

Next ==
  \/ \E used \in 0 .. Cores, occupied \in Memory : Run(used, occupied)
  \/ Fork
  \/ clock_error
  \/ \E refreshed \in BOOLEAN :
       \/ snapshot(refreshed) \/ render(refreshed)
       \/ \E thresholds \in Thresholds : check_alerts(refreshed, thresholds)

Spec == Init /\ [][Next]_vars

-----------------------------------------------------------------------------
(* Whoever calls, and however calls fail, each call measures from where the *)
(* one before it ended: no CPU time is reported twice, and what is reported *)
(* adds up to the CPU time used.  Time is left out only when a call comes   *)
(* at the very instant of one that could not refresh the entry: it has all  *)
(* of that time to report over no time at all, reports 0.0 and moves on.    *)
NothingMissed ==
  origin # None =>
    /\ origin + reported <= prev.cpu
    /\ gapless => origin + reported = prev.cpu

(* A CPU alert fires only if the usage did exceed its limit at some time    *)
(* since the previous call, and does if it exceeded it all of that time -   *)
(* for a sample and a baseline that are the process's own and up to date.   *)
AlertsJustified ==
  [][last'.kind = "alerts" /\ origin # None /\ fresh /\ fresh'
     /\ "cpu_percent" \in DOMAIN last'.thresholds =>
       LET limit == last'.thresholds["cpu_percent"]
           fired == "cpu_percent" \in last'.fired
       IN  /\ fired => \E used \in busy : 100 * used > limit
           /\ busy # {} /\ (\A used \in busy : 100 * used > limit) => fired]_vars

(* A memory alert may go by an old entry, as collect() does not tell        *)
(* whether the refresh worked, but it is never out of thin air: it fires    *)
(* only if the process has exceeded the limit since the last refresh that   *)
(* did, and does if it never was within the limit in that time.  Right      *)
(* after a refresh that is the memory occupied now.                         *)
MemoryAlertsJustified ==
  [][last'.kind = "alerts" =>
       \A metric \in DOMAIN last'.thresholds \cap MemoryMetrics :
         LET over == {occupied \in held' : occupied[metric] > last'.thresholds[metric] * MB}
         IN  /\ metric \in last'.fired => over # {}
             /\ over = held' => metric \in last'.fired]_vars
=============================================================================
