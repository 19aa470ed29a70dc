------------------------------ MODULE MCClient ------------------------------
(***************************************************************************)
(* ProfilerClient for TLC.  The initial state chooses what a behaviour is  *)
(* about, so that each interplay is explored to its end.                   *)
(***************************************************************************)
EXTENDS ProfilerClient

CONSTANTS r1, r2

VARIABLE scene   \* what the behaviour is about

(* calls:   one run, spans and operations against on_tick and the exit.     *)
(* sampler: one run, its sampler started, stopped and left behind.          *)
(* runs:    two runs, entered and left by their owners.                     *)
Within ==
  CASE scene = "calls"   -> stage[r2] = "new" /\ sampler = NoRun
    [] scene = "sampler" -> stage[r2] = "new" /\ spans = 0 /\ \A o \in Ops : made[o] <= 1
    [] scene = "runs"    -> /\ \A t \in Workers : doing[t] = "idle"
                            /\ \A r \in Runs : samples[r] = 0
                            /\ spans = 0 /\ \A o \in Ops : made[o] <= 1

ClientInit == Init /\ scene \in {"calls", "sampler", "runs"}
ClientNext == Next /\ UNCHANGED scene /\ Within'
ClientSpec == ClientInit /\ [][ClientNext]_<<vars, scene>> /\ Fairness
=============================================================================
