------------------------------ MODULE Monitor ------------------------------
(***************************************************************************)
(* The whole monitor as the application and Prometheus see it: requests    *)
(* that pass through the middleware of a worker (Middleware), what the     *)
(* bindings of src/lib.rs record of them and report (Aggregator), and the  *)
(* page src/prometheus.rs renders when GET /metrics, itself such a         *)
(* request, reaches a worker.                                              *)
(*                                                                         *)
(* A worker is a process.  One that replaces another is a worker that has  *)
(* done nothing yet, and has a pid no other worker had; what becomes of    *)
(* shards when workers do share one is the subject of Shards.              *)
(***************************************************************************)
EXTENDS Integers, Sequences, FiniteSets

CONSTANTS
  Worker,
  Request,
  Apps,             (* The ways the middleware is run.                      *)
  Requests,         (* What may be recorded of a request: [status, ticks].  *)
  BUCKET_BOUNDS, MIN_EMPTY,
  MAX_REQUESTS      (* Capacity of each worker's store.                     *)

(* A status code has three digits.                                          *)
ASSUME MonitorAssumption ==
  /\ IsFiniteSet(Request) /\ IsFiniteSet(Worker)
  /\ Requests \subseteq [status : 100 .. 999, ticks : Int]
  /\ {200, 500} \subseteq {req.status : req \in Requests}

VARIABLES
  app, phase, at, outcome, recorded,      (* Of Middleware.                 *)
  store, enabled, shard, counted, issued, (* Of Aggregator.                 *)
  proc,             (* Is each worker running; if not, is its pid taken, by *)
                    (* what is left of it before it is reaped or by another *)
                    (* program, or free?                                    *)
  dir,              (* The workers whose shard is in the directory.         *)
  page,             (* The last page scraped, which worker rendered it, and *)
                    (* whether from the shards.                             *)
  touched,          (* History: since a page of a store, was a store        *)
                    (* cleared or the mode switched,                        *)
  freed,            (* and since one of the shards, which workers' pids     *)
                    (* have become free?                                    *)
  served,           (* History: requests each worker was done with since it *)
                    (* started or was cleared,                              *)
  shared            (* and those it was while it had multiproc mode on.     *)

http  == <<app, phase, at, outcome, recorded>>
stats == <<store, enabled, shard, counted, issued>>
os    == <<proc, dir>>
hist  == <<touched, freed, served, shared>>
vars  == <<http, stats, os, page, hist>>

Status == {req.status : req \in Requests}

HTTP  == INSTANCE Middleware
Stats == INSTANCE Aggregator WITH MaxRecords <- Cardinality(Request)

(* kill(pid, 0) succeeds as long as anything holds the pid.                 *)
pid_alive_Running(w) == proc[w] = "running"
pid_alive(w) == proc[w] # "free"

(* The shards a merge adds up; it unlinks the others in the directory.      *)
Merging == {w \in dir : pid_alive(w)}

Merge == INSTANCE Aggregator WITH
           MaxRecords <- Cardinality(Request),
           shard <- [w \in Worker |-> IF w \in Merging THEN shard[w] ELSE Stats!EmptyReading]

(* Those of the module instantiated.                                        *)
ASSUME LayoutAssumption ==
  /\ BUCKET_BOUNDS \in Seq(Nat)
  /\ \A i, j \in DOMAIN BUCKET_BOUNDS : i < j => BUCKET_BOUNDS[i] < BUCKET_BOUNDS[j]
  /\ MIN_EMPTY \in Nat /\ MAX_REQUESTS \in Nat \ {0}
  /\ \A req \in Requests : Stats!micros(req.ticks) <= MIN_EMPTY

NoPage == [by |-> "nobody", shared |-> FALSE]

Init ==
  /\ HTTP!Init
  /\ Stats!Init
  /\ proc = [w \in Worker |-> "running"]
  /\ dir = {}
  /\ page = NoPage
  /\ touched = FALSE /\ freed = {}
  /\ served = [w \in Worker |-> <<>>]
  /\ shared = [w \in Worker |-> {}]

-----------------------------------------------------------------------------
(* Requests pass through the middleware.                                    *)

begin(r) ==
  /\ proc[at[r]] = "running"
  /\ HTTP!begin(r)
  /\ UNCHANGED <<stats, os, page, hist>>

handle(r, o) == HTTP!handle(r, o) /\ UNCHANGED <<stats, os, page, hist>>

(* The middleware's finally block calls record_request().                   *)
record_request(r, req) ==
  /\ HTTP!finish(r)
  /\ req.status = HTTP!status_code(outcome[r])
  /\ Stats!record(at[r], req)
  /\ served' = [served EXCEPT ![at[r]] = Append(@, r)]
  /\ shared' = [shared EXCEPT ![at[r]] = IF enabled[at[r]] THEN @ \cup {r} ELSE @]
  /\ UNCHANGED <<os, page, touched, freed>>

(* What a worker reports, and the requests it lists.                        *)
compute(w) == Merge!compute(w)
get_requests(w) == store[w]

(* The HTTP families of the page.  Those of the process, left out if        *)
(* collect() fails, are the subject of Snapshot.                            *)
render(agg) ==
  [rpy_requests_total     |-> agg.total,
   rpy_errors_total       |-> agg.errors,
   rpy_error_rate_percent |-> <<100 * agg.error_rate[1], agg.error_rate[2]>>,
   rpy_latency_ms         |-> <<agg.avg, agg.min, agg.max, agg.p50, agg.p95, agg.p99>>]

(* In multiproc mode either merges the shards.                              *)
merge(w) == dir' = IF enabled[w] THEN Merging ELSE dir

(* The application answers GET /metrics with metrics_text().                *)
metrics_text(r) ==
  /\ HTTP!handle(r, HTTP!Answered(200))
  /\ page' = [by |-> at[r], shared |-> enabled[at[r]], text |-> render(compute(at[r]))]
  /\ merge(at[r])
  /\ touched' = FALSE /\ freed' = {}
  /\ UNCHANGED <<stats, proc, served, shared>>

-----------------------------------------------------------------------------
(* What else the application of a running worker does.                      *)

aggregate(w) ==
  /\ proc[w] = "running"
  /\ merge(w)
  /\ UNCHANGED <<http, stats, proc, page, hist>>

clear_requests(w) ==
  /\ proc[w] = "running"
  /\ Stats!clear(w)
  /\ served' = [served EXCEPT ![w] = <<>>]
  /\ touched' = (page # NoPage /\ ~page.shared)
  /\ UNCHANGED <<http, os, page, freed, shared>>

(* The shard is created if there is none yet.                               *)
set_multiproc_dir(w, on) ==
  /\ proc[w] = "running"
  /\ Stats!set_dir(w, on)
  /\ dir' = IF on THEN dir \cup {w} ELSE dir
  /\ touched' = (page # NoPage /\ ~page.shared)
  /\ UNCHANGED <<http, proc, page, freed, served, shared>>

-----------------------------------------------------------------------------
(* A worker dies with its store, whatever it is doing; its shard stays.     *)
(* Its pid is taken until it is reaped, and is taken again whenever another *)
(* program is given it.                                                     *)

kill(w) ==
  /\ proc[w] = "running"
  /\ HTTP!kill(w)
  /\ proc' = [proc EXCEPT ![w] = "taken"]
  /\ store' = [store EXCEPT ![w] = <<>>]
  /\ enabled' = [enabled EXCEPT ![w] = FALSE]
  /\ served' = [served EXCEPT ![w] = <<>>]
  /\ UNCHANGED <<shard, counted, issued, dir, page, touched, freed, shared>>

leave(w) ==
  /\ proc[w] = "taken"
  /\ proc' = [proc EXCEPT ![w] = "free"]
  /\ freed' = IF page.shared THEN freed \cup {w} ELSE freed
  /\ UNCHANGED <<http, stats, dir, page, touched, served, shared>>

take(w) ==
  /\ proc[w] = "free"
  /\ proc' = [proc EXCEPT ![w] = "taken"]
  /\ UNCHANGED <<http, stats, dir, page, hist>>

Next ==
  \/ \E r \in Request :
       \/ begin(r)
       \/ \E status \in Status : handle(r, HTTP!Answered(status))
       \/ handle(r, HTTP!Raised) \/ handle(r, HTTP!Cancelled)
       \/ \E req \in Requests : record_request(r, req)
       \/ metrics_text(r)
  \/ \E w \in Worker :
       \/ aggregate(w) \/ clear_requests(w)
       \/ kill(w) \/ leave(w) \/ take(w)
       \/ \E on \in BOOLEAN : set_multiproc_dir(w, on)

Spec == Init /\ [][Next]_vars

-----------------------------------------------------------------------------
MonitorTypeOK ==
  /\ HTTP!MiddlewareTypeOK /\ Stats!AggregatorTypeOK
  /\ proc \in [Worker -> {"running", "taken", "free"}]
  /\ dir \subseteq Worker /\ touched \in BOOLEAN /\ freed \subseteq Worker
  /\ served \in [Worker -> Seq(Request)] /\ shared \in [Worker -> SUBSET Request]

(* Of the middleware in its place.                                          *)
RecordedAsAnswered == HTTP!RecordedAsAnswered
HandlerServes      == HTTP!HandlerServes

(* Was the client told of an error, or nothing at all?                      *)
Erred(r) == HTTP!Reply(outcome[r]) \notin 1 .. 399

Newest(reqs) ==
  SubSeq(reqs, IF Len(reqs) > MAX_REQUESTS THEN Len(reqs) - MAX_REQUESTS + 1 ELSE 1, Len(reqs))

(* The requests these workers shared.                                       *)
SharedBy(workers) == UNION {shared[w] : w \in workers}

(* What a running worker reports is what clients have been answered: of its *)
(* own newest requests, in their order, or in multiproc mode of all         *)
(* requests shared by the workers that run, and by those dead ones whose    *)
(* pid is taken and whose shard no merge has found without an owner before. *)
(* A request under way, such as the scrape that asks, is not among them.    *)
ReportsWhatWasServed ==
  \A w \in Worker : proc[w] = "running" =>
    LET agg    == compute(w)
        mine   == Newest(served[w])
        ours   == SharedBy({v \in Worker : proc[v] = "running"}
                             \cup {v \in dir : proc[v] = "taken"})
    IN  IF enabled[w]
          THEN /\ agg.total = Cardinality(ours)
               /\ agg.errors = Cardinality({r \in ours : Erred(r)})
          ELSE /\ agg.total = Len(mine)
               /\ agg.errors = Cardinality({k \in DOMAIN mine : Erred(mine[k])})
               /\ \A k \in DOMAIN mine : Erred(mine[k]) <=> get_requests(w)[k].status >= 400

(* How much the counters of a page fall short of those of the page before.  *)
Missing       == page.text.rpy_requests_total - page'.text.rpy_requests_total
MissingErrors == page.text.rpy_errors_total - page'.text.rpy_errors_total

(* With multiproc mode on it does not matter which worker a scrape reaches, *)
(* nor whether a worker has died, cleared its store or switched the mode in *)
(* between: the counters fall from one scrape to the next only when the pid *)
(* of a dead worker has become free, and by no more than it had shared.     *)
SharedCountersRise ==
  [][page' # page /\ page.shared /\ page'.shared
       => LET gone == SharedBy(freed)
          IN  /\ Missing <= Cardinality(gone)
              /\ MissingErrors <= Cardinality({r \in gone : Erred(r)})]_vars

(* Without it, scrapes that all reach the same worker do not see them fall  *)
(* either, as long as the application does nothing but serve requests.      *)
OneWorkerCountersRise ==
  [][page # NoPage /\ page' # page /\ page.by = page'.by /\ ~page.shared
       => (Missing <= 0 /\ MissingErrors <= 0) \/ touched]_vars
=============================================================================
