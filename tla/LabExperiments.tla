--------------------------- MODULE LabExperiments ---------------------------
(***************************************************************************)
(* Lab experiments: profiler_service/lab_jobs.py and lab_store.py, the     *)
(* cancel endpoint of api_v2.py, the runner of vayunx_lab/runner.py and    *)
(* the command line of vayunx_lab/__main__.py.                             *)
(*                                                                         *)
(* An experiment is a row of the database that several processes write:    *)
(* the runner (a thread of the service, or a process of its own when it    *)
(* was started from the command line), the handler of a cancel request,    *)
(* and recover() of a service that starts.  One action is one database     *)
(* transaction, one critical section of LabJobs._lock, or one trial.       *)
(***************************************************************************)
EXTENDS Integers, FiniteSets

CONSTANTS Exps,        \* experiments
          NoExp,       \* None
          Handlers,    \* request threads that serve cancel requests
          Total,       \* len(plan): trials of an experiment
          MaxStops     \* bound: times the service goes down

ASSUME LabAssumption ==
  /\ NoExp \notin Exps
  /\ Total \in Nat \ {0}
  /\ MaxStops \in Nat

VARIABLES
  status,        \* Experiment.status
  done,          \* Experiment.progress_done
  saved,         \* number of TrialResult rows
  home,          \* where the runner lives
  pc,            \* where the runner is in ExperimentRunner.run
  event,         \* runner.cancel_event
  atCancel,      \* history: saved when cancel_event was set
  current,       \* LabJobs._current[0]
  starting,      \* who holds LabJobs._lock inside start()
  service,       \* the service process
  stale,         \* recover()'s list, while it goes through it
  request,       \* per handler: the experiment to cancel
  phase,         \* per handler: where it is in cancel_experiment
  stops          \* times the service went down

rowVars     == <<status, done, saved>>
runnerVars  == <<home, pc, event, atCancel>>
jobVars     == <<current, starting>>
serviceVars == <<service, stale, stops>>
requestVars == <<request, phase>>
vars == <<rowVars, runnerVars, jobVars, serviceVars, requestVars>>

Active   == {"queued", "running"}
Terminal == {"complete", "cancelled", "failed"}

Alive(e) == pc[e] \notin {"none", "ended", "killed"}

Init ==
  /\ status = [e \in Exps |-> "absent"]
  /\ done = [e \in Exps |-> 0]
  /\ saved = [e \in Exps |-> 0]
  /\ home = [e \in Exps |-> "none"]
  /\ pc = [e \in Exps |-> "none"]
  /\ event = [e \in Exps |-> FALSE]
  /\ atCancel = [e \in Exps |-> 0]
  /\ current = NoExp /\ starting = NoExp
  /\ service = "up" /\ stale = {} /\ stops = 0
  /\ request = [h \in Handlers |-> NoExp]
  /\ phase = [h \in Handlers |-> "idle"]

-----------------------------------------------------------------------------
(* LabJobs.start, holding the lock: refuse while a runner thread is alive,  *)
(* insert the row, then start the thread.                                   *)

WrongBusy == current # NoExp /\ status[current] = "running"
Busy == current # NoExp /\ Alive(current)

StartCreate(e) ==
  /\ service = "up" /\ starting = NoExp
  /\ ~Busy
  /\ status[e] = "absent"
  /\ status' = [status EXCEPT ![e] = "queued"]
  /\ home' = [home EXCEPT ![e] = "service"]
  /\ starting' = e
  /\ UNCHANGED <<done, saved, pc, event, atCancel, current, serviceVars, requestVars>>

StartLaunch ==
  /\ starting # NoExp
  /\ current' = starting
  /\ pc' = [pc EXCEPT ![starting] = "start"]
  /\ starting' = NoExp
  /\ UNCHANGED <<rowVars, home, event, atCancel, serviceVars, requestVars>>

(* python -m vayunx_lab run: create and run in a process of its own.        *)
CliStart(e) ==
  /\ status[e] = "absent"
  /\ status' = [status EXCEPT ![e] = "queued"]
  /\ home' = [home EXCEPT ![e] = "cli"]
  /\ pc' = [pc EXCEPT ![e] = "start"]
  /\ UNCHANGED <<done, saved, event, atCancel, jobVars, serviceVars, requestVars>>

-----------------------------------------------------------------------------
(* ExperimentRunner.run                                                     *)

Goto(e, label) == pc' = [pc EXCEPT ![e] = label]

(* set_status(exp_id, "running"): whatever the row says by now.             *)
RunStart(e) ==
  /\ pc[e] = "start"
  /\ status' = [status EXCEPT ![e] = "running"]
  /\ Goto(e, "check")
  /\ UNCHANGED <<done, saved, home, event, atCancel, jobVars, serviceVars, requestVars>>

(* Before a trial: a cancel request in this process, or through the row.    *)
Check(e) ==
  /\ pc[e] = "check"
  /\ Goto(e, IF event[e] \/ status[e] = "cancelling" THEN "cancelled" ELSE "trial")
  /\ UNCHANGED <<rowVars, home, event, atCancel, jobVars, serviceVars, requestVars>>

(* An exception inside the try block: a TrialError, or an unexpected one of *)
(* the database or of parsing what a terminated worker printed; also of the *)
(* write of "complete", which is in the try block.                          *)
WrongHandled == "killed"
Handled == "failed"

Raise(e) ==
  /\ pc[e] \in {"check", "trial", "save", "progress", "complete"}
  /\ Goto(e, Handled)
  /\ UNCHANGED <<rowVars, home, event, atCancel, jobVars, serviceVars, requestVars>>

(* _run_trial: the watcher terminates the worker of a cancelled run, and the*)
(* event is looked at again when the worker is gone.                        *)
Trial(e) ==
  /\ pc[e] = "trial"
  /\ Goto(e, IF event[e] THEN "cancelled" ELSE "save")
  /\ UNCHANGED <<rowVars, home, event, atCancel, jobVars, serviceVars, requestVars>>

SaveTrial(e) ==
  /\ pc[e] = "save"
  /\ saved' = [saved EXCEPT ![e] = @ + 1]
  /\ Goto(e, "progress")
  /\ UNCHANGED <<status, done, home, event, atCancel, jobVars, serviceVars, requestVars>>

WrongLast(e) == saved[e] >= Total - 1    \* one trial too few, one too many
LateLast(e)  == saved[e] > Total
Last(e) == saved[e] = Total

Progress(e) ==
  /\ pc[e] = "progress"
  /\ done' = [done EXCEPT ![e] = saved[e]]
  /\ Goto(e, IF Last(e) THEN "last" ELSE "check")
  /\ UNCHANGED <<status, saved, home, event, atCancel, jobVars, serviceVars, requestVars>>

(* After the loop only cancel_event is looked at, not the row.              *)
WrongVerdict(e) == "complete"
Verdict(e) == IF event[e] THEN "cancelled" ELSE "complete"

Decide(e) ==
  /\ pc[e] = "last"
  /\ Goto(e, Verdict(e))
  /\ UNCHANGED <<rowVars, home, event, atCancel, jobVars, serviceVars, requestVars>>

(* The last set_status: the runner's label is the status it writes.         *)
Finish(e) ==
  /\ pc[e] \in Terminal
  /\ status' = [status EXCEPT ![e] = pc[e]]
  /\ Goto(e, "ended")
  /\ UNCHANGED <<done, saved, home, event, atCancel, jobVars, serviceVars, requestVars>>

Runner(e) == \/ RunStart(e) \/ Check(e) \/ Trial(e) \/ SaveTrial(e) \/ Progress(e)
             \/ Raise(e) \/ Decide(e) \/ Finish(e)

-----------------------------------------------------------------------------
(* POST /v2/experiments/{id}/cancel                                         *)

SetEvent(e) ==
  /\ event' = [event EXCEPT ![e] = TRUE]
  /\ atCancel' = [atCancel EXCEPT ![e] = IF event[e] THEN @ ELSE saved[e]]

(* load_experiment and the look at its status.                              *)
CancelLook(h, e) ==
  /\ service = "up" /\ phase[h] = "idle"
  /\ status[e] \in Active
  /\ request' = [request EXCEPT ![h] = e]
  /\ phase' = [phase EXCEPT ![h] = "seen"]
  /\ UNCHANGED <<rowVars, runnerVars, jobVars, serviceVars>>

(* lab_jobs.cancel, which takes the lock.                                   *)
CancelCall(h) ==
  LET e == request[h] IN
  /\ phase[h] = "seen" /\ starting = NoExp
  /\ IF current = e /\ Alive(e)
     THEN /\ SetEvent(e)
          /\ phase' = [phase EXCEPT ![h] = "idle"]
          /\ request' = [request EXCEPT ![h] = NoExp]
     ELSE /\ phase' = [phase EXCEPT ![h] = "write"]
          /\ UNCHANGED <<event, atCancel, request>>
  /\ UNCHANGED <<rowVars, home, pc, jobVars, serviceVars>>

(* Not ours: leave a note in the row, over whatever it says by now.         *)
CancelWrite(h) ==
  /\ phase[h] = "write"
  /\ status' = [status EXCEPT ![request[h]] = "cancelling"]
  /\ phase' = [phase EXCEPT ![h] = "idle"]
  /\ request' = [request EXCEPT ![h] = NoExp]
  /\ UNCHANGED <<done, saved, runnerVars, jobVars, serviceVars>>

-----------------------------------------------------------------------------
(* Processes come and go.                                                   *)

(* Lifespan exit: cancel_current(), and some time later the process ends.   *)
Close ==
  /\ service = "up" /\ starting = NoExp
  /\ stops < MaxStops
  /\ service' = "closing"
  /\ IF Busy THEN SetEvent(current) ELSE UNCHANGED <<event, atCancel>>
  /\ UNCHANGED <<rowVars, home, pc, jobVars, stale, stops, requestVars>>

(* The process ends, also by a crash: its threads are gone.                 *)
Die ==
  /\ service # "down"
  /\ stops < MaxStops
  /\ stops' = stops + 1
  /\ service' = "down" /\ stale' = {}
  /\ pc' = [e \in Exps |-> IF home[e] = "service" /\ Alive(e) THEN "killed" ELSE pc[e]]
  /\ current' = NoExp /\ starting' = NoExp
  /\ request' = [h \in Handlers |-> NoExp]
  /\ phase' = [h \in Handlers |-> "idle"]
  /\ UNCHANGED <<rowVars, home, event, atCancel>>

CliDies(e) ==
  /\ home[e] = "cli" /\ Alive(e)
  /\ Goto(e, "killed")
  /\ UNCHANGED <<rowVars, home, event, atCancel, jobVars, serviceVars, requestVars>>

(* recover(): select the rows, then write them one at a time.               *)
WrongStaleRow(e) == status[e] = "running"
StaleRow(e) == status[e] \in Active \cup {"cancelling"}

Boot ==
  /\ service = "down"
  /\ service' = "recovering"
  /\ stale' = {e \in Exps : StaleRow(e)}
  /\ UNCHANGED <<rowVars, runnerVars, jobVars, stops, requestVars>>

Recover(e) ==
  /\ service = "recovering" /\ e \in stale
  /\ status' = [status EXCEPT ![e] = "failed"]
  /\ stale' = stale \ {e}
  /\ UNCHANGED <<done, saved, runnerVars, jobVars, service, stops, requestVars>>

Serve ==
  /\ service = "recovering" /\ stale = {}
  /\ service' = "up"
  /\ UNCHANGED <<rowVars, runnerVars, jobVars, stale, stops, requestVars>>

-----------------------------------------------------------------------------

Next ==
  \/ \E e \in Exps : StartCreate(e) \/ CliStart(e) \/ Runner(e) \/ CliDies(e) \/ Recover(e)
  \/ StartLaunch
  \/ \E h \in Handlers : (\E e \in Exps : CancelLook(h, e)) \/ CancelCall(h) \/ CancelWrite(h)
  \/ Close \/ Die \/ Boot \/ Serve

Spec == Init /\ [][Next]_vars

(* Trials are bounded in time, threads keep running, and a service that went*)
(* down is started again.                                                   *)
Fairness ==
  /\ \A e \in Exps : WF_vars(Runner(e)) /\ WF_vars(Recover(e))
  /\ WF_vars(StartLaunch) /\ WF_vars(Boot) /\ WF_vars(Serve)
  /\ WF_vars(service = "closing" /\ Die)
FairSpec == Spec /\ Fairness

-----------------------------------------------------------------------------
(* Properties *)

(* Every variable keeps its type. *)
TypeOK ==
  /\ status \in [Exps -> Active \cup Terminal \cup {"absent", "cancelling"}]
  /\ done \in [Exps -> 0..Total]
  /\ saved \in [Exps -> 0..Total]
  /\ home \in [Exps -> {"none", "service", "cli"}]
  /\ pc \in [Exps -> {"none", "start", "check", "trial", "save", "progress", "last",
                      "ended", "killed"} \cup Terminal]
  /\ event \in [Exps -> BOOLEAN]
  /\ atCancel \in [Exps -> 0..Total]
  /\ current \in Exps \cup {NoExp} /\ starting \in Exps \cup {NoExp}
  /\ service \in {"up", "closing", "down", "recovering"}
  /\ stale \subseteq Exps
  /\ request \in [Handlers -> Exps \cup {NoExp}]
  /\ phase \in [Handlers -> {"idle", "seen", "write"}]
  /\ stops \in 0..MaxStops

(* "One experiment at a time": the service never has two live runners.      *)
OneAtATime ==
  \A e, f \in Exps :
    home[e] = "service" /\ home[f] = "service" /\ Alive(e) /\ Alive(f) => e = f

(* A complete experiment has every trial, whatever cancel requests, crashes *)
(* and recoveries came in between.                                          *)
CompleteHasAllTrials ==
  \A e \in Exps : status[e] = "complete" => saved[e] = Total /\ done[e] = Total

(* A cancel request that reached the runner lets at most the trial under way*)
(* be stored, and the run completes only if every trial was in by then.     *)
CancelStops ==
  \A e \in Exps : event[e] =>
    /\ saved[e] <= atCancel[e] + 1
    /\ status[e] = "complete" => atCancel[e] = Total

(* While the service serves requests, an experiment of its own shown as     *)
(* queued or running is really being run: none is left over from a crash.   *)
ActiveIsRun ==
  service = "up" =>
    \A e \in Exps : home[e] = "service" /\ status[e] \in Active =>
      Alive(e) \/ starting = e

(* The service's experiments do not stay queued or running for ever: not    *)
(* after a failing trial, not after a crash.                                *)
EventuallySettled ==
  \A e \in Exps : home[e] = "service" /\ status[e] \in Active ~> status[e] \notin Active

(* "Only queued or running experiments can be cancelled."                   *)
OnlyActiveCancelled ==
  [][\A e \in Exps : status[e] \in Terminal => status'[e] # "cancelling"]_vars
=============================================================================
