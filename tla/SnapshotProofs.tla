--------------------------- MODULE SnapshotProofs ---------------------------
(***************************************************************************)
(* Proofs about Snapshot for any number of cores, any memory, any          *)
(* thresholds, and whatever forks and failures to refresh.                 *)
(***************************************************************************)
EXTENDS Snapshot, TLAPS

-----------------------------------------------------------------------------
(* How the baseline relates to the history since it was taken.  If it is    *)
(* this process's own and was up to date, the CPU time used since is        *)
(* bounded by what the idlest and the busiest unit of time allow.  The      *)
(* entry's memory is one that was occupied since its last refresh.          *)
Rate(t) ==
  /\ (\A used \in busy : 100 * used <= t) => 100 * (cpu - prev.cpu) <= t * (now - prev.at)
  /\ (\A used \in busy : 100 * used > t) =>
       100 * (cpu - prev.cpu) >= (t + 1) * (now - prev.at)

Baselined ==
  /\ prev # NoSample => prev.at <= now
  /\ known # None => known <= cpu /\ seen \in held
  /\ memory \in held
  /\ origin # None => /\ prev # NoSample /\ known # None
                      /\ prev.cpu <= known
                      /\ origin + reported <= prev.cpu
                      /\ gapless => origin + reported = prev.cpu
  /\ fresh => /\ origin # None
              /\ busy # {} => prev.at < now
              /\ \A t \in Nat : Rate(t)

SInv == SnapshotTypeOK /\ Baselined

LEMMA NoneType == None \notin Nat /\ NoSample \notin Sample
BY DEF None, NoSample, Sample

(* Reported usages are never negative.                                      *)
LEMMA UsageType ==
  ASSUME SInv, NEW read \in Nat
  PROVE  usage(read) \in Usage /\ Used(read) \in Nat
<1>1. CASE prev = NoSample
  BY <1>1 DEF usage, Usage, Used, Since
<1>2. CASE prev # NoSample
  <2>1. prev \in Sample /\ prev.at <= now /\ now \in Nat
    BY <1>2, SnapshotAssumption DEF SInv, Baselined, SnapshotTypeOK
  <2> QED BY <1>2, <2>1 DEF usage, Usage, Used, Since, Sample
<1> QED BY <1>1, <1>2

LEMMA RunStep ==
  ASSUME SInv, NEW used \in 0 .. Cores, NEW occupied \in Memory, Run(used, occupied)
  PROVE  SInv'
<1>1. SnapshotTypeOK'
  <2>1. last' \in Outcome
    BY DEF Run, Outcome
  <2> QED BY <2>1, SnapshotAssumption DEF Run, SInv, SnapshotTypeOK
<1>2. ASSUME fresh, NEW t \in Nat
      PROVE  Rate(t)'
  <2>1. /\ now \in Nat /\ cpu \in Nat /\ prev \in Sample /\ busy \subseteq Nat /\ used \in Nat
        /\ Rate(t)
    BY <1>2, SnapshotAssumption DEF SInv, SnapshotTypeOK, Baselined
  <2>2. prev.cpu \in Nat /\ prev.at \in Nat
    BY <2>1 DEF Sample
  <2>3. now' = now + 1 /\ cpu' = cpu + used /\ busy' = busy \cup {used} /\ prev' = prev
    BY DEF Run
  <2> DEFINE n == now - prev.at
             c == cpu - prev.cpu
  <2>4. n \in Int /\ c \in Int /\ now' - prev.at = n + 1 /\ cpu' - prev.cpu = c + used
    BY <2>1, <2>2, <2>3
  <2>5. ASSUME \A u \in busy' : 100 * u <= t
        PROVE  100 * (c + used) <= t * (n + 1)
    <3>1. 100 * c <= t * n /\ 100 * used <= t
      BY <2>1, <2>3, <2>5 DEF Rate
    <3> HIDE DEF n, c
    <3> QED BY <2>1, <2>4, <3>1
  <2>6. ASSUME \A u \in busy' : 100 * u > t
        PROVE  100 * (c + used) >= (t + 1) * (n + 1)
    <3>1. 100 * c >= (t + 1) * n /\ 100 * used >= t + 1
      BY <2>1, <2>3, <2>6 DEF Rate
    <3> HIDE DEF n, c
    <3> QED BY <2>1, <2>4, <3>1
  <2> QED BY <2>3, <2>4, <2>5, <2>6 DEF Rate
<1>3. Baselined'
  <2>1. /\ now' = now + 1 /\ now \in Nat /\ cpu' >= cpu /\ cpu' \in Nat /\ cpu \in Nat
        /\ UNCHANGED <<known, seen, prev, origin, reported, gapless, fresh>>
        /\ memory' = occupied /\ held' = held \cup {occupied}
    BY SnapshotAssumption DEF Run, SInv, SnapshotTypeOK
  <2>2. prev # NoSample => prev.at \in Nat
    BY DEF SInv, SnapshotTypeOK, Sample
  <2>3. known # None => known \in Nat
    BY DEF SInv, SnapshotTypeOK
  <2>4. prev' # NoSample => prev'.at < now'
    <3>1. prev # NoSample => prev.at <= now
      BY DEF SInv, Baselined
    <3> QED BY <2>1, <2>2, <3>1
  <2>5. memory' \in held' /\ (known' # None => known' <= cpu' /\ seen' \in held')
    <3>1. known # None => known <= cpu /\ seen \in held
      BY DEF SInv, Baselined
    <3> QED BY <2>1, <2>3, <3>1
  <2>6. prev' # NoSample => prev'.at <= now'
    BY <2>1, <2>2, <2>4
  <2>7. fresh' => /\ origin' # None
                  /\ busy' # {} => prev'.at < now'
                  /\ \A t \in Nat : Rate(t)'
    BY <1>2, <2>1, <2>4 DEF SInv, Baselined
  <2>8. origin' # None => /\ prev' # NoSample /\ known' # None
                          /\ prev'.cpu <= known'
                          /\ origin' + reported' <= prev'.cpu
                          /\ gapless' => origin' + reported' = prev'.cpu
    BY <2>1 DEF SInv, Baselined
  <2> QED BY <2>5, <2>6, <2>7, <2>8 DEF Baselined
<1> QED BY <1>1, <1>3 DEF SInv

LEMMA ForkStep ==
  ASSUME SInv, Fork
  PROVE  SInv'
BY NoneType DEF Fork, SInv, SnapshotTypeOK, Baselined, Outcome

(* What every caller of collect() does to the state.                        *)
LEMMA CollectStep ==
  ASSUME SInv, NEW refreshed \in BOOLEAN, collect(refreshed), last' \in Outcome
  PROVE  SInv'
<1>1. /\ known' \in Nat \cup {None} /\ (known' # None => known' <= cpu)
      /\ memory' = memory /\ memory \in Memory /\ memory \in held /\ held \subseteq Memory
      /\ seen' \in Memory \cup {NoMemory}
  BY DEF collect, SInv, SnapshotTypeOK, Baselined
<1>2. CASE known' = None
  <2>1. UNCHANGED <<now, cpu, prev, busy, origin, reported, gapless, fresh, held>>
    BY <1>2 DEF collect, hist
  <2>2. origin = None /\ ~fresh
    BY <1>2, NoneType DEF collect, SInv, SnapshotTypeOK, Baselined
  <2> QED BY <1>1, <1>2, <2>1, <2>2 DEF SInv, SnapshotTypeOK, Baselined
<1>3. CASE known' # None
  <2>1. /\ prev' = [cpu |-> known', at |-> now] /\ busy' = {}
        /\ origin' = IF origin = None THEN known' ELSE origin
        /\ reported' = IF origin = None THEN 0 ELSE reported + usage(known').cpu
        /\ gapless' = (origin = None \/ (gapless /\ (Since > 0 \/ fresh)))
        /\ fresh' = refreshed /\ now' = now /\ cpu' = cpu
        /\ known' = IF refreshed THEN cpu ELSE known
        /\ seen' = IF refreshed THEN memory ELSE seen
        /\ held' = IF refreshed THEN {memory} ELSE held
    BY <1>3 DEF collect, Baseline
  <2>2. known' \in Nat /\ now \in Nat /\ cpu \in Nat /\ now \in 0 .. MaxTime
    BY <1>1, <1>3, SnapshotAssumption DEF SInv, SnapshotTypeOK
  <2>3. usage(known').cpu \in Nat
    BY <2>2, UsageType DEF Usage
  <2>4. prev' \in Sample /\ prev' # NoSample /\ prev'.cpu = known' /\ prev'.at = now
    BY <2>1, <2>2, NoneType DEF Sample
  <2>5. origin' \in Nat /\ reported' \in Nat /\ origin' # None
    BY <2>1, <2>2, <2>3, NoneType DEF SInv, SnapshotTypeOK
  <2>6. SnapshotTypeOK'
    BY <1>1, <2>1, <2>2, <2>4, <2>5 DEF SInv, SnapshotTypeOK
  <2>7. origin' + reported' <= known' /\ (gapless' => origin' + reported' = known')
    <3>1. CASE origin = None
      BY <2>1, <2>2, <3>1
    <3>2. CASE origin # None
      <4>1. /\ prev # NoSample /\ prev.cpu <= known /\ prev.at <= now
            /\ origin + reported <= prev.cpu /\ (gapless => origin + reported = prev.cpu)
            /\ known <= cpu /\ known # None
        BY <3>2 DEF SInv, Baselined
      <4>2. /\ prev.cpu \in Nat /\ prev.at \in Nat /\ known \in Nat
            /\ origin \in Nat /\ reported \in Nat
        BY <3>2, <4>1 DEF SInv, SnapshotTypeOK, Sample
      <4>3. Used(known') = known' - prev.cpu /\ Since = now - prev.at
        BY <2>1, <2>2, <4>1, <4>2 DEF Used, Since
      <4>4. /\ reported' = reported + usage(known').cpu
            /\ gapless' = (gapless /\ (Since > 0 \/ fresh))
        BY <2>1, <3>2
      <4>5. usage(known').cpu = IF Since = 0 THEN 0 ELSE Used(known')
        BY DEF usage
      <4>6. Since \in Int /\ gapless \in BOOLEAN /\ fresh \in BOOLEAN /\ now >= prev.at
        BY <2>2, <4>1, <4>2, <4>3 DEF SInv, SnapshotTypeOK
      <4>7. CASE Since > 0
        <5>1. reported' = reported + (known' - prev.cpu) /\ (gapless' => gapless)
          <6>1. usage(known').cpu = known' - prev.cpu
            BY <4>3, <4>7, <4>5, <4>6
          <6> QED BY <4>4, <6>1
        <5> QED BY <2>1, <2>2, <3>2, <4>1, <4>2, <5>1
      <4>8. CASE ~(Since > 0)
        <5>1. Since = 0 /\ reported' = reported /\ (gapless' => gapless /\ fresh)
          <6>1. Since = 0
            BY <2>2, <4>2, <4>3, <4>8, <4>6
          <6>2. usage(known').cpu = 0
            BY <4>5, <6>1
          <6>3. reported' = reported
            BY <4>2, <4>4, <6>2
          <6>4. gapless' => gapless /\ fresh
            BY <4>8, <4>4, Zenon
          <6> QED BY <6>1, <6>3, <6>4
        <5>2. known' >= prev.cpu
          BY <2>1, <2>2, <4>1, <4>2
        <5>3. ASSUME fresh PROVE known' = prev.cpu
          <6>1. busy = {} /\ Rate(0)
            BY <2>2, <4>1, <4>2, <4>3, <5>1, <5>3 DEF SInv, Baselined
          <6>2. 100 * (cpu - prev.cpu) <= 0 * (now - prev.at)
            BY <6>1 DEF Rate
          <6>3. cpu <= prev.cpu
            BY <2>2, <4>2, <6>2
          <6> QED BY <2>1, <2>2, <4>1, <4>2, <6>3
        <5> QED BY <2>1, <2>2, <3>2, <4>1, <4>2, <5>1, <5>2, <5>3
      <4> QED BY <4>7, <4>8
    <3> QED BY <3>1, <3>2
  <2>8. ASSUME NEW t \in Nat, fresh' PROVE Rate(t)'
    <3>1. cpu' - prev'.cpu = 0 /\ now' - prev'.at = 0
      BY <2>1, <2>2, <2>4, <2>8
    <3> QED BY <3>1 DEF Rate
  <2>9. memory' \in held' /\ seen' \in held'
    BY <1>1, <1>3, <2>1 DEF SInv, Baselined
  <2> QED BY <1>1, <1>3, <2>1, <2>2, <2>4, <2>5, <2>6, <2>7, <2>8, <2>9 DEF SInv, Baselined
<1> QED BY <1>2, <1>3

LEMMA OutcomeType ==
  ASSUME SInv, NEW refreshed \in BOOLEAN, collect(refreshed)
  PROVE  /\ Return([kind |-> "snapshot", usage |-> usage(known'), memory |-> seen'])
              => last' \in Outcome
         /\ render(refreshed) => last' \in Outcome
         /\ \A thresholds \in Thresholds :
              Return([kind |-> "alerts", usage |-> usage(known'), thresholds |-> thresholds,
                      fired |-> evaluate(usage(known'), seen', thresholds)]) => last' \in Outcome
<1>1. known' # None => usage(known') \in Usage /\ seen' \in Memory
  <2>1. known' # None => known' \in Nat
    BY DEF collect, SInv, SnapshotTypeOK
  <2>2. known' # None => seen' \in Memory
    BY DEF collect, SInv, SnapshotTypeOK, Baselined
  <2> QED BY <2>1, <2>2, UsageType
<1>2. \A u, occupied : \A thresholds \in Thresholds :
        evaluate(u, occupied, thresholds) \subseteq Metrics
  BY SnapshotAssumption DEF evaluate
<1>3. [kind |-> "error"] \in Outcome
  BY DEF Outcome
<1>4. known' # None =>
        \A kind \in {"snapshot", "page"} :
          [kind |-> kind, usage |-> usage(known'), memory |-> seen'] \in Outcome
  BY <1>1 DEF Outcome
<1>5. ASSUME NEW thresholds \in Thresholds, known' # None
      PROVE  [kind |-> "alerts", usage |-> usage(known'), thresholds |-> thresholds,
              fired |-> evaluate(usage(known'), seen', thresholds)] \in Outcome
  BY <1>1, <1>2, <1>5 DEF Outcome
<1>6. [kind |-> "bare page"] \in Outcome
  BY DEF Outcome
<1>7. render(refreshed) => last' \in Outcome
  BY <1>4, <1>6 DEF render
<1> QED BY <1>3, <1>4, <1>5, <1>7 DEF Return

LEMMA InvariantStep == SInv /\ [Next]_vars => SInv'
<1> SUFFICES ASSUME SInv, [Next]_vars PROVE SInv'
  OBVIOUS
<1>1. ASSUME NEW used \in 0 .. Cores, NEW occupied \in Memory, Run(used, occupied)
      PROVE  SInv'
  BY <1>1, RunStep
<1>2. CASE Fork
  BY <1>2, ForkStep
<1>3. ASSUME NEW refreshed \in BOOLEAN, snapshot(refreshed) PROVE SInv'
  BY <1>3, CollectStep, OutcomeType DEF snapshot
<1>4. ASSUME NEW refreshed \in BOOLEAN, NEW thresholds \in Thresholds,
             check_alerts(refreshed, thresholds)
      PROVE  SInv'
  BY <1>4, CollectStep, OutcomeType DEF check_alerts
<1>5. ASSUME NEW refreshed \in BOOLEAN, render(refreshed) PROVE SInv'
  BY <1>5, CollectStep, OutcomeType DEF render
<1>6. CASE clock_error
  <2>1. last' \in Outcome /\ UNCHANGED <<now, cpu, memory, known, seen, prev, hist>>
    BY <1>6 DEF clock_error, Outcome
  <2>2. SnapshotTypeOK'
    BY <2>1 DEF hist, SInv, SnapshotTypeOK
  <2>3. Baselined'
    BY <2>1 DEF hist, SInv, Baselined, Rate
  <2> QED BY <2>2, <2>3 DEF SInv
<1>7. CASE UNCHANGED vars
  <2>1. SnapshotTypeOK'
    BY <1>7 DEF vars, hist, SInv, SnapshotTypeOK
  <2>2. Baselined'
    BY <1>7 DEF vars, hist, SInv, Baselined, Rate
  <2> QED BY <2>1, <2>2 DEF SInv
<1> QED BY <1>1, <1>2, <1>3, <1>4, <1>5, <1>6, <1>7 DEF Next

LEMMA Invariance == Spec => []SInv
<1>1. Init => SInv
  <2> SUFFICES ASSUME Init PROVE SInv
    OBVIOUS
  <2>1. last \in Outcome
    BY DEF Init, Outcome
  <2>2. now = 0 /\ cpu = 0 /\ reported = 0 /\ fresh \in BOOLEAN /\ gapless \in BOOLEAN
    BY DEF Init
  <2>3. /\ known \in Nat \cup {None} /\ origin \in Nat \cup {None}
        /\ prev \in Sample \cup {NoSample} /\ busy \in SUBSET (0 .. Cores)
        /\ memory \in Memory /\ seen \in Memory \cup {NoMemory} /\ held \subseteq Memory
    BY DEF Init
  <2>4. SnapshotTypeOK
    BY <2>1, <2>2, <2>3, SnapshotAssumption DEF SnapshotTypeOK
  <2>5. Baselined
    BY DEF Init, Baselined
  <2> QED BY <2>4, <2>5 DEF SInv
<1> QED BY <1>1, InvariantStep, PTL DEF Spec

(* No call ever reports a negative usage or leaves a sample that is none,   *)
(* not even the first one of a forked child.                                *)
THEOREM SnapshotTypeCorrect == Spec => []SnapshotTypeOK
<1>1. SInv => SnapshotTypeOK
  BY DEF SInv
<1> QED BY <1>1, Invariance, PTL

(* The usages reported add up: each call starts where the last one ended.   *)
(* CPU time is never reported twice, and left out only at the instant of a  *)
(* call that went by an entry it could not refresh.                         *)
THEOREM NothingIsMissed == Spec => []NothingMissed
<1>1. SInv => NothingMissed
  BY DEF SInv, Baselined, NothingMissed
<1> QED BY <1>1, Invariance, PTL

(* A CPU alert is neither false nor withheld, whoever took the baseline.    *)
THEOREM AlertsAreJustified == Spec => AlertsJustified
<1> DEFINE limit == last'.thresholds["cpu_percent"]
           fired == "cpu_percent" \in last'.fired
           Justified ==
             last'.kind = "alerts" /\ origin # None /\ fresh /\ fresh'
             /\ "cpu_percent" \in DOMAIN last'.thresholds =>
               /\ fired => \E used \in busy : 100 * used > limit
               /\ busy # {} /\ (\A used \in busy : 100 * used > limit) => fired
<1>1. ASSUME SInv, [Next]_vars
      PROVE  [Justified]_vars
  <2>1. ASSUME NEW refreshed \in BOOLEAN, NEW thresholds \in Thresholds,
               check_alerts(refreshed, thresholds), fresh, fresh', last'.kind = "alerts",
               "cpu_percent" \in DOMAIN last'.thresholds
        PROVE  /\ fired => \E used \in busy : 100 * used > limit
               /\ busy # {} /\ (\A used \in busy : 100 * used > limit) => fired
    <3> DEFINE t == thresholds["cpu_percent"]
    <3>1. /\ known' # None /\ last'.thresholds = thresholds
          /\ last'.fired = evaluate(usage(known'), seen', thresholds)
      BY <2>1 DEF check_alerts, Return
    <3>2. refreshed /\ known' = cpu
      BY <2>1, <3>1 DEF check_alerts, collect
    <3>3. /\ prev \in Sample /\ prev # NoSample /\ cpu \in Nat /\ now \in Nat /\ t \in Nat
          /\ busy \subseteq Nat
      <4>1. t \in Nat
        BY <2>1, <3>1, SnapshotAssumption
      <4> QED BY <1>1, <2>1, <4>1, SnapshotAssumption DEF SInv, SnapshotTypeOK, Baselined
    <3>4. prev.cpu \in Nat /\ prev.at \in Nat /\ prev.cpu <= cpu /\ prev.at <= now
      BY <1>1, <2>1, <3>3 DEF Sample, SInv, SnapshotTypeOK, Baselined
    <3>5. usage(known') = [cpu |-> IF now - prev.at = 0 THEN 0 ELSE cpu - prev.cpu,
                           wall |-> now - prev.at]
      BY <3>2, <3>3, <3>4 DEF usage, Used, Since
    <3>6. fired <=> now - prev.at > 0 /\ 100 * (cpu - prev.cpu) > t * (now - prev.at)
      <4>1. Exceeds(usage(known'), t)
              <=> now - prev.at > 0 /\ 100 * (cpu - prev.cpu) > t * (now - prev.at)
        <5>1. CASE now - prev.at = 0
          BY <3>3, <3>5, <5>1 DEF Exceeds
        <5>2. CASE now - prev.at > 0
          BY <3>3, <3>4, <3>5, <5>2 DEF Exceeds
        <5> QED BY <3>3, <3>4, <5>1, <5>2
      <4>2. fired <=> Exceeds(usage(known'), t)
        <5>1. "cpu_percent" \notin MemoryMetrics /\ "cpu_percent" \in DOMAIN thresholds
          BY <2>1, <3>1 DEF MemoryMetrics
        <5> QED BY <3>1, <5>1, Zenon DEF evaluate
      <4> HIDE DEF t, fired
      <4> QED BY ONLY <4>1, <4>2, Zenon
    <3>7. Rate(t) /\ (busy # {} => prev.at < now)
      BY <1>1, <2>1, <3>3 DEF SInv, Baselined
    <3> HIDE DEF t, fired
    <3>8. ASSUME fired PROVE \E used \in busy : 100 * used > t
      <4>1. ~(100 * (cpu - prev.cpu) <= t * (now - prev.at))
        BY <3>3, <3>4, <3>6, <3>8
      <4> QED BY <3>3, <3>7, <4>1 DEF Rate
    <3>9. ASSUME busy # {}, \A used \in busy : 100 * used > t PROVE fired
      <4> DEFINE n == now - prev.at
                 c == cpu - prev.cpu
      <4>1. n \in Nat /\ n > 0 /\ c \in Nat /\ 100 * c >= (t + 1) * n
        BY <3>3, <3>4, <3>7, <3>9 DEF Rate
      <4>2. 100 * c > t * n
        <5> HIDE DEF n, c
        <5> QED BY <3>3, <4>1
      <4> QED BY <3>6, <4>1, <4>2
    <3>10. limit = t
      BY <3>1 DEF t
    <3> QED BY <3>8, <3>9, <3>10
  <2>2. ASSUME NEW used \in 0 .. Cores, NEW occupied \in Memory, Run(used, occupied)
        PROVE  last'.kind # "alerts"
    BY <2>2 DEF Run
  <2>3. CASE Fork
    BY <2>3 DEF Fork
  <2>4. ASSUME NEW refreshed \in BOOLEAN, snapshot(refreshed) PROVE last'.kind # "alerts"
    BY <2>4 DEF snapshot, Return
  <2>5. ASSUME NEW refreshed \in BOOLEAN, render(refreshed) PROVE last'.kind # "alerts"
    BY <2>5 DEF render
  <2>6. CASE clock_error
    BY <2>6 DEF clock_error
  <2> QED BY <1>1, <2>1, <2>2, <2>3, <2>4, <2>5, <2>6 DEF Next
<1> QED BY <1>1, Invariance, PTL DEF Spec, AlertsJustified

(* A memory alert goes by memory the process did occupy since the last      *)
(* refresh that worked, and by nothing else.                                *)
THEOREM MemoryAlertsAreJustified == Spec => MemoryAlertsJustified
<1> DEFINE over(metric) ==
             {occupied \in held' : occupied[metric] > last'.thresholds[metric] * MB}
           Justified ==
             last'.kind = "alerts" =>
               \A metric \in DOMAIN last'.thresholds \cap MemoryMetrics :
                 /\ metric \in last'.fired => over(metric) # {}
                 /\ over(metric) = held' => metric \in last'.fired
<1>1. ASSUME SInv, [Next]_vars
      PROVE  [Justified]_vars
  <2>1. ASSUME NEW refreshed \in BOOLEAN, NEW thresholds \in Thresholds,
               check_alerts(refreshed, thresholds), last'.kind = "alerts"
        PROVE  Justified
    <3>1. /\ known' # None /\ last'.thresholds = thresholds
          /\ last'.fired = evaluate(usage(known'), seen', thresholds)
      BY <2>1 DEF check_alerts, Return
    <3>2. seen' \in held'
      BY <1>1, <2>1, <3>1 DEF check_alerts, collect, SInv, Baselined
    <3>3. ASSUME NEW metric \in DOMAIN thresholds \cap MemoryMetrics
          PROVE  metric \in last'.fired <=> seen'[metric] > thresholds[metric] * MB
      <4>1. metric # "cpu_percent"
        BY <3>3 DEF MemoryMetrics
      <4> QED BY <3>1, <3>3, <4>1, Zenon DEF evaluate
    <3> QED BY <3>1, <3>2, <3>3
  <2>2. ASSUME NEW used \in 0 .. Cores, NEW occupied \in Memory, Run(used, occupied)
        PROVE  last'.kind # "alerts"
    BY <2>2 DEF Run
  <2>3. CASE Fork
    BY <2>3 DEF Fork
  <2>4. ASSUME NEW refreshed \in BOOLEAN, snapshot(refreshed) PROVE last'.kind # "alerts"
    BY <2>4 DEF snapshot, Return
  <2>5. ASSUME NEW refreshed \in BOOLEAN, render(refreshed) PROVE last'.kind # "alerts"
    BY <2>5 DEF render
  <2>6. CASE clock_error
    BY <2>6 DEF clock_error
  <2> QED BY <1>1, <2>1, <2>2, <2>3, <2>4, <2>5, <2>6 DEF Next
<1> QED BY <1>1, Invariance, PTL DEF Spec, MemoryAlertsJustified
=============================================================================
