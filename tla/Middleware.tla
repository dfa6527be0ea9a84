----------------------------- MODULE Middleware -----------------------------
(***************************************************************************)
(* The middlewares of python/rust_py_monitor: how a request passes through *)
(* __call__() and __acall__() of django.py and dispatch() of fastapi.py,   *)
(* and what is recorded of it.                                             *)
(*                                                                         *)
(* A request is cut in two where the middleware waits for the application. *)
(* In between any number of other requests, of the same worker too, pass.  *)
(* The finally block awaits nothing, so it is one step.                    *)
(***************************************************************************)
EXTENDS Integers, Sequences

CONSTANTS
  Request,
  Worker,
  Status,           (* Status codes the application answers with.           *)
  Apps              (* The ways the middleware is run: Django under WSGI or *)
                    (* ASGI, __acall__() itself, FastAPI.                   *)

VARIABLES
  app,              (* Which of them.                                       *)
  phase,            (* How far each request is: new, handling (in the       *)
                    (* application), handled, recorded, lost.               *)
  at,               (* The worker it is at.                                 *)
  outcome,          (* What became of it in the application.                *)
  recorded          (* History: status codes recorded for it.               *)

vars == <<app, phase, at, outcome, recorded>>

None      == [how |-> "none"]
Raised    == [how |-> "raised"]
Cancelled == [how |-> "cancelled"]
Unawaited == [how |-> "unawaited"]
Answered(status) == [how |-> "answered", status |-> status]

MiddlewareTypeOK ==
  /\ app \in Apps
  /\ phase \in [Request -> {"new", "handling", "handled", "recorded", "lost"}]
  /\ at \in [Request -> Worker]
  /\ outcome \in [Request -> {None, Raised, Cancelled, Unawaited}
                                \cup {Answered(status) : status \in Status}]
  /\ recorded \in [Request -> Seq(Nat)]

Init ==
  /\ app \in Apps
  /\ phase = [r \in Request |-> "new"]
  /\ at \in [Request -> Worker]
  /\ outcome = [r \in Request |-> None]
  /\ recorded = [r \in Request |-> <<>>]

-----------------------------------------------------------------------------
(* Django turns an exception of a view into a response before any           *)
(* middleware sees it; Starlette does so outside of the user's middlewares. *)
Seen(o) ==
  IF o = Raised /\ app \in {"wsgi", "acall"} THEN Answered(500) ELSE o

(* What the client is answered, 0 if nothing: an exception that leaves the  *)
(* middlewares is a server error, a cancelled request has no client left.   *)
Reply(o) ==
  CASE o = Cancelled       -> 0
    [] o.how = "answered"  -> o.status
    [] OTHER               -> 500

(* status_code at the finally block: 500 unless a response was seen.        *)
status_code_Optimistic(o) == IF Seen(o).how = "answered" THEN Seen(o).status ELSE 200
status_code(o) == IF Seen(o).how = "answered" THEN Seen(o).status ELSE 500

-----------------------------------------------------------------------------
(* The middleware calls the application.  Under ASGI Django calls           *)
(* __call__() as well and awaits what it returns: get_response() returns a  *)
(* coroutine, which has no status_code, and is dropped without being run.   *)
begin(r) ==
  /\ phase[r] = "new"
  /\ IF app = "asgi"
       THEN /\ phase' = [phase EXCEPT ![r] = "handled"]
            /\ outcome' = [outcome EXCEPT ![r] = Unawaited]
       ELSE /\ phase' = [phase EXCEPT ![r] = "handling"]
            /\ UNCHANGED outcome
  /\ UNCHANGED <<app, at, recorded>>

(* The application answers, raises, or is cancelled while awaited.          *)
handle(r, o) ==
  /\ phase[r] = "handling"
  /\ o \in {Answered(status) : status \in Status} \cup {Raised, Cancelled}
  /\ o = Cancelled => app # "wsgi"
  /\ phase' = [phase EXCEPT ![r] = "handled"]
  /\ outcome' = [outcome EXCEPT ![r] = o]
  /\ UNCHANGED <<app, at, recorded>>

(* The finally block.                                                       *)
finish(r) ==
  /\ phase[r] = "handled"
  /\ phase' = [phase EXCEPT ![r] = "recorded"]
  /\ recorded' = [recorded EXCEPT ![r] = Append(@, status_code(outcome[r]))]
  /\ UNCHANGED <<app, at, outcome>>

(* A worker is killed, and what it was doing for requests is lost.          *)
kill(w) ==
  LET doing == {r \in Request : at[r] = w /\ phase[r] \in {"handling", "handled"}}
  IN  /\ phase' = [r \in Request |-> IF r \in doing THEN "lost" ELSE phase[r]]
      /\ outcome' = [r \in Request |-> IF r \in doing THEN None ELSE outcome[r]]
      /\ UNCHANGED <<app, at, recorded>>

Next ==
  \/ \E r \in Request :
       \/ begin(r) \/ finish(r)
       \/ \E status \in Status : handle(r, Answered(status))
       \/ handle(r, Raised) \/ handle(r, Cancelled)
  \/ \E w \in Worker : kill(w)

Spec == Init /\ [][Next]_vars

-----------------------------------------------------------------------------
(* Whatever the application does - answer, raise, be cancelled - a request  *)
(* is recorded once when the middleware is done with it and never before,   *)
(* with the status its client is told, and as a server error if the client  *)
(* is told nothing.                                                         *)
RecordedAsAnswered ==
  \A r \in Request :
    recorded[r] =
      IF phase[r] # "recorded" THEN <<>>
      ELSE <<IF outcome[r] = Cancelled THEN 500 ELSE Reply(outcome[r])>>

(* An answer comes from the application: no request is answered for it      *)
(* without its handler having run.                                          *)
HandlerServes ==
  \A r \in Request : phase[r] = "recorded" => outcome[r] # Unawaited
=============================================================================
