---------------------------- MODULE DeliveryLog ----------------------------
(***************************************************************************)
(* What the SDK's background sender promises, without threads or network.  *)
(* Items are accepted into a log; every accepted item gets exactly one     *)
(* fate; fates are handed out in the order of acceptance, a batch at a     *)
(* time, and a batch never mixes two kinds or two runs.  Closing the log   *)
(* abandons what has no fate yet and refuses everything later.             *)
(***************************************************************************)
EXTENDS Telemetry

CONSTANT MaxItems    \* bound: items ever accepted

VARIABLES log,   \* every item ever accepted, in order of acceptance
          fate,  \* fate[i] is what became of log[i]
          open   \* FALSE once the sender was shut down

logVars == <<log, fate, open>>

Fates == {"sent", "rejected", "abandoned"}

(* n copies of verdict v. *)
Fill(n, v) == [i \in 1..n |-> v]

(* The accepted items that have no fate yet. *)
Undecided == SubSeq(log, Len(fate) + 1, Len(log))

-----------------------------------------------------------------------------

LogInit == log = <<>> /\ fate = <<>> /\ open = TRUE

AcceptItem(kind, run) ==
  /\ open
  /\ Len(log) < MaxItems
  /\ log' = Append(log, [kind |-> kind, run |-> run, id |-> Len(log) + 1])
  /\ UNCHANGED <<fate, open>>

Decide(n, verdict) ==
  /\ open
  /\ OneRequest(Undecided, n)
  /\ fate' = fate \o Fill(n, verdict)
  /\ UNCHANGED <<log, open>>

Close ==
  /\ open' = FALSE
  /\ fate' = fate \o Fill(Len(log) - Len(fate), "abandoned")
  /\ UNCHANGED log

LogNext ==
  \/ \E kind \in Kinds, run \in Runs : AcceptItem(kind, run)
  \/ \E n \in 1..(Len(log) - Len(fate)), v \in {"sent", "rejected"} : Decide(n, v)
  \/ Close

LogSpec == LogInit /\ [][LogNext]_logVars
=============================================================================
