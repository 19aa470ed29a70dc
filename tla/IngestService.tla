--------------------------- MODULE IngestService ---------------------------
(***************************************************************************)
(* The ingestion endpoints of profiler_service/api.py: POST /v1/runs,      *)
(* /v1/runs/{id}/complete and the three data endpoints.                    *)
(*                                                                         *)
(* Each request is served by a thread of its own with its own database     *)
(* session.  A handler first reads the run's row, then inserts and commits;*)
(* between the two, other handlers may commit.  One commit is atomic, and  *)
(* the unique constraints of the database decide at that moment.           *)
(***************************************************************************)
EXTENDS Telemetry

CONSTANTS Handlers,   \* request threads
          MaxRows     \* bound: rows of data ever stored

VARIABLES
  runRow,    \* the row of each run
  rows,      \* rows of spans, samples and op_stats, in the order of commits
  request,   \* per handler: the body it serves, a group of items
  step,      \* per handler: where it is
  answer     \* per handler: what it answers

dbVars      == <<runRow, rows>>
handlerVars == <<request, step, answer>>
serviceVars == <<runRow, rows, request, step, answer>>

(* Every item of one request has this kind and run. *)
KindOf(h) == request[h][1].kind
RunOf(h)  == request[h][1].run

Stored(i) == \E n \in 1..Len(rows) : rows[n].id = i

ServiceInit ==
  /\ runRow = [r \in Runs |-> "absent"]
  /\ rows = <<>>
  /\ request = [h \in Handlers |-> <<>>]
  /\ step = [h \in Handlers |-> "free"]
  /\ answer = [h \in Handlers |-> "none"]

-----------------------------------------------------------------------------

Receive(h, group) ==
  /\ step[h] = "free"
  /\ request' = [request EXCEPT ![h] = group]
  /\ step' = [step EXCEPT ![h] = "look"]
  /\ UNCHANGED <<dbVars, answer>>

Reply(h, result) ==
  /\ answer' = [answer EXCEPT ![h] = result]
  /\ step' = [step EXCEPT ![h] = "done"]
  /\ UNCHANGED request

(* What the first look at the run's row makes of the request: "go on", or   *)
(* 404 (refused), 409 (conflict).                                           *)
WrongFirstLook(kind, row) ==
  CASE kind = "run" /\ row = "absent" -> "go on"
    [] kind # "run" /\ row = "absent" -> "refused"
    [] kind # "run" /\ row # "absent" -> "go on"
    [] OTHER -> "conflict"
FirstLook(kind, row) ==
  CASE kind = "run" /\ row = "absent" -> "go on"
    [] kind # "run" /\ row = "absent" -> "refused"
    [] kind # "run" /\ row = "open" -> "go on"
    [] OTHER -> "conflict"

Look(h) ==
  LET result == FirstLook(KindOf(h), runRow[RunOf(h)]) IN
  /\ step[h] = "look"
  /\ IF result = "go on"
     THEN step' = [step EXCEPT ![h] = "write"] /\ UNCHANGED <<request, answer>>
     ELSE Reply(h, result)
  /\ UNCHANGED dbVars

(* create_run: the primary key refuses a second row; nothing catches that.  *)
WriteRun(h) ==
  /\ step[h] = "write" /\ KindOf(h) = "run"
  /\ IF runRow[RunOf(h)] = "absent"
     THEN runRow' = [runRow EXCEPT ![RunOf(h)] = "open"] /\ Reply(h, "ok")
     ELSE Reply(h, "unavailable") /\ UNCHANGED runRow
  /\ UNCHANGED rows

(* complete_run: the last of two that race wins, and both are answered 200. *)
WriteComplete(h) ==
  /\ step[h] = "write" /\ KindOf(h) = "complete"
  /\ runRow' = [runRow EXCEPT ![RunOf(h)] = "complete"]
  /\ Reply(h, "ok")
  /\ UNCHANGED rows

(* The batch violates uq_span_per_run: nothing of it is stored.             *)
WrongDuplicate(h) == FALSE
Duplicate(h) ==
  KindOf(h) = "span" /\ \E n \in 1..Len(request[h]) : Stored(request[h][n].id)

(* Data: the whole batch or nothing.  completed_at is not looked at again.  *)
WriteData(h) ==
  /\ step[h] = "write" /\ KindOf(h) \in DataKinds
  /\ Len(rows) + Len(request[h]) <= MaxRows
  /\ IF Duplicate(h)
     THEN Reply(h, "conflict") /\ UNCHANGED rows
     ELSE rows' = rows \o request[h] /\ Reply(h, "ok")
  /\ UNCHANGED runRow

(* 5xx: the handler fails, before the commit or after it (run_out reads     *)
(* again), or something between it and the client does.                     *)
Fail(h) ==
  /\ step[h] # "free"
  /\ Reply(h, "unavailable")
  /\ UNCHANGED dbVars

(* The response went out, to somebody or to nobody.                         *)
Forget(h) ==
  /\ step[h] = "done"
  /\ step' = [step EXCEPT ![h] = "free"]
  /\ request' = [request EXCEPT ![h] = <<>>]
  /\ answer' = [answer EXCEPT ![h] = "none"]
  /\ UNCHANGED dbVars

Serve(h) == Look(h) \/ WriteRun(h) \/ WriteComplete(h) \/ WriteData(h)
=============================================================================
