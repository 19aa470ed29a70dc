----------------------------- MODULE Telemetry -----------------------------
(***************************************************************************)
(* The vocabulary shared by the client-side modules: what travels from the *)
(* SDK to the profiler service, and what may travel in one request.        *)
(***************************************************************************)
EXTENDS Integers, Sequences

CONSTANTS Runs,       \* identifiers of profiling runs
          BatchSize   \* most data items one request may carry

ASSUME BatchAssumption == BatchSize \in Nat \ {0}

(* The keys of DATA_PATHS, and the two kinds that are sent one at a time. *)
DataKinds    == {"span", "sample", "op_stats"}
ControlKinds == {"run", "complete"}
Kinds        == DataKinds \cup ControlKinds

(* A queue entry (kind, run_id, payload); id stands for the payload. *)
Items == [kind : Kinds, run : Runs, id : Nat]

(* Two entries may share a request: same kind, same run, and not control.  *)
Batchable(a, b) == a.kind = b.kind /\ a.run = b.run /\ a.kind \in DataKinds

(* The first n entries of q fit in one request. *)
OneRequest(q, n) ==
  /\ n \in 1..Len(q)
  /\ n <= BatchSize
  /\ \A i \in 2..n : Batchable(q[1], q[i])

(* WrongXxx definitions are seeded faults: each stands for a plausible bug  *)
(* in the definition that follows it, and no specification uses them.       *)

(* group = the first n entries: one control entry, or the longest run of    *)
(* same-kind, same-run data entries that a batch may hold.                  *)
WrongIsGroup(q, n) ==
  /\ n \in 1..Len(q) /\ n <= BatchSize
  /\ n < BatchSize => n = Len(q)
IsGroup(q, n) ==
  /\ OneRequest(q, n)
  /\ n < BatchSize /\ n < Len(q) => ~Batchable(q[1], q[n + 1])

(* The answers of transport.post, and the outcome _send makes of them.      *)
Answers == {"ok", "conflict", "refused", "unavailable", "exception"}
WrongVerdict(kind, answer) ==
  IF answer = "ok" \/ (answer = "conflict" /\ kind \in ControlKinds) THEN "ok" ELSE "retry"
LaxVerdict(kind, answer) ==
  CASE answer \in {"ok", "conflict"} -> "ok"
    [] answer = "unavailable" -> "retry"
    [] OTHER -> "dropped"
Verdict(kind, answer) ==
  CASE answer = "ok" -> "ok"
    [] answer = "unavailable" -> "retry"       \* >= 500, 408, 429, no connection
    [] answer = "conflict" /\ kind \in ControlKinds -> "ok"
    [] OTHER -> "dropped"
=============================================================================
