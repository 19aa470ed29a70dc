------------------------------ MODULE LabProofs ------------------------------
(***************************************************************************)
(* Proofs about the Lab: LabExperiments, for any set of experiments and of *)
(* cancel requests, any number of trials, and any number of times the      *)
(* service goes down (the five invariants of the run `lab`); TrialWorker,  *)
(* for any threads and any limits.                                         *)
(***************************************************************************)
EXTENDS LabExperiments, TrialWorker, FiniteSetTheorems, TLAPS

\* One experiment: its row against its runner.
ExpOK(e) ==
  /\ status[e] = "absent" => home[e] = "none"
  /\ home[e] = "none" => status[e] = "absent" /\ pc[e] = "none"
  /\ pc[e] = "none" => saved[e] = 0 /\ ~event[e]
  /\ pc[e] = "start" => saved[e] = 0
  /\ pc[e] \in {"check", "trial", "save"} => saved[e] < Total
  /\ pc[e] \in {"last", "complete"} \/ status[e] = "complete" => saved[e] = Total /\ done[e] = Total
  /\ status[e] = "complete" => pc[e] = "ended"
  /\ event[e] => /\ saved[e] <= atCancel[e] + 1
                 /\ pc[e] = "save" => saved[e] = atCancel[e]
                 /\ pc[e] = "complete" \/ status[e] = "complete" => atCancel[e] = Total

\* What start() knows while it holds the lock.
StartOK ==
  /\ starting # NoExp => /\ service = "up" /\ ~Busy
                         /\ pc[starting] = "none" /\ home[starting] = "service"
  /\ current # NoExp => home[current] = "service"

\* The service's live runner is the current one; an active row that nobody runs
\* is one that the next start-up still has to look at.
ServiceOK(e) ==
  home[e] = "service" =>
    /\ Alive(e) => e = current /\ service \in {"up", "closing"}
    /\ status[e] \in Active => \/ Alive(e) \/ starting = e \/ service = "down"
                               \/ service = "recovering" /\ e \in stale

\* Requests and recover() look only at rows that are there.
RowsSeen ==
  /\ \A h \in Handlers : phase[h] # "idle" => request[h] \in Exps /\ status[request[h]] # "absent"
  /\ \A e \in stale : status[e] # "absent"

IInv == /\ TypeOK /\ StartOK /\ RowsSeen
        /\ \A e \in Exps : ExpOK(e) /\ ServiceOK(e)

-----------------------------------------------------------------------------
(* One step keeps the invariant *)

\* A step of the runner of e: it writes the fields of e alone, and e was alive
\* before; the service and its requests stand still.
RunnerWrites(e) ==
  /\ UNCHANGED <<home, event, atCancel, jobVars, serviceVars, requestVars>>
  /\ \A f \in Exps \ {e} : status'[f] = status[f] /\ done'[f] = done[f] /\ saved'[f] = saved[f] /\ pc'[f] = pc[f]
  /\ Alive(e)

LEMMA RunnerStep ==
  ASSUME IInv, NEW e \in Exps, RunnerWrites(e), TypeOK', ExpOK(e)',
         status[e] # "absent" => status'[e] # "absent",
         status'[e] \in Active => Alive(e)'
  PROVE  IInv'
<1> USE DEF IInv, RunnerWrites, jobVars, serviceVars, requestVars
<1>1. ASSUME NEW f \in Exps PROVE ExpOK(f)'
  BY <1>1 DEF ExpOK
<1>2. ASSUME NEW f \in Exps PROVE ServiceOK(f)'
  BY <1>2 DEF ServiceOK, Alive
<1>3. StartOK'
  BY DEF StartOK, ServiceOK, Busy, Alive, TypeOK
<1>4. RowsSeen'
  BY DEF RowsSeen, TypeOK
<1> QED BY <1>1, <1>2, <1>3, <1>4

\* ExperimentRunner.run, step by step.
LEMMA RunnerKeeps ==
  ASSUME IInv, NEW e \in Exps, Runner(e) PROVE IInv'
<1> USE LabAssumption
<1>1. TypeOK /\ ExpOK(e)
  BY DEF IInv
<1>2. CASE RunStart(e)
  <2>1. RunnerWrites(e) /\ TypeOK'
    <3>1. RunnerWrites(e)
      BY <1>1, <1>2 DEF RunStart, Goto, RunnerWrites, TypeOK, Alive, Terminal, rowVars
    <3>2. TypeOK'
      BY <1>1, <1>2 DEF RunStart, Goto, Handled, Verdict, Last, TypeOK, Active, Terminal, rowVars, jobVars, serviceVars, requestVars
    <3> QED BY <3>1, <3>2
  <2>2. ExpOK(e)' /\ Alive(e)' /\ status'[e] # "absent"
    BY <1>1, <1>2 DEF RunStart, Goto, ExpOK, TypeOK, Alive
  <2> QED BY <2>1, <2>2, RunnerStep
<1>3. CASE Check(e)
  <2>1. RunnerWrites(e) /\ TypeOK'
    <3>1. RunnerWrites(e)
      BY <1>1, <1>3 DEF Check, Goto, RunnerWrites, TypeOK, Alive, Terminal, rowVars
    <3>2. TypeOK'
      BY <1>1, <1>3 DEF Check, Goto, Handled, Verdict, Last, TypeOK, Active, Terminal, rowVars, jobVars, serviceVars, requestVars
    <3> QED BY <3>1, <3>2
  <2>2. ExpOK(e)' /\ Alive(e)' /\ status'[e] = status[e]
    BY <1>1, <1>3 DEF Check, Goto, ExpOK, TypeOK, Alive, rowVars
  <2> QED BY <2>1, <2>2, RunnerStep
<1>4. CASE Trial(e)
  <2>1. RunnerWrites(e) /\ TypeOK'
    <3>1. RunnerWrites(e)
      BY <1>1, <1>4 DEF Trial, Goto, RunnerWrites, TypeOK, Alive, Terminal, rowVars
    <3>2. TypeOK'
      BY <1>1, <1>4 DEF Trial, Goto, Handled, Verdict, Last, TypeOK, Active, Terminal, rowVars, jobVars, serviceVars, requestVars
    <3> QED BY <3>1, <3>2
  <2>2. ExpOK(e)' /\ Alive(e)' /\ status'[e] = status[e]
    BY <1>1, <1>4 DEF Trial, Goto, ExpOK, TypeOK, Alive, rowVars
  <2> QED BY <2>1, <2>2, RunnerStep
<1>5. CASE SaveTrial(e)
  <2>1. saved[e] < Total /\ saved[e] + 1 \in 0..Total
    BY <1>1, <1>5 DEF SaveTrial, ExpOK, TypeOK
  <2>2. RunnerWrites(e) /\ TypeOK'
    <3>1. RunnerWrites(e)
      BY <1>1, <1>5 DEF SaveTrial, Goto, RunnerWrites, TypeOK, Alive, Terminal, rowVars
    <3>2. TypeOK'
      BY <1>1, <1>5, <2>1 DEF SaveTrial, Goto, Handled, Verdict, Last, TypeOK, Active, Terminal, rowVars, jobVars, serviceVars, requestVars
    <3> QED BY <3>1, <3>2
  <2>3. ExpOK(e)' /\ Alive(e)' /\ status'[e] = status[e]
    BY <1>1, <1>5 DEF SaveTrial, Goto, ExpOK, TypeOK, Alive
  <2> QED BY <2>2, <2>3, RunnerStep
<1>6. CASE Progress(e)
  <2>1. RunnerWrites(e) /\ TypeOK'
    <3>1. RunnerWrites(e)
      BY <1>1, <1>6 DEF Progress, Goto, RunnerWrites, TypeOK, Alive, Terminal, rowVars
    <3>2. TypeOK'
      BY <1>1, <1>6 DEF Progress, Goto, Handled, Verdict, Last, TypeOK, Active, Terminal, rowVars, jobVars, serviceVars, requestVars
    <3> QED BY <3>1, <3>2
  <2>2. ExpOK(e)' /\ Alive(e)' /\ status'[e] = status[e]
    BY <1>1, <1>6 DEF Progress, Last, Goto, ExpOK, TypeOK, Alive
  <2> QED BY <2>1, <2>2, RunnerStep
<1>7. CASE Raise(e)
  <2>1. RunnerWrites(e) /\ TypeOK'
    <3>1. RunnerWrites(e)
      BY <1>1, <1>7 DEF Raise, Goto, RunnerWrites, TypeOK, Alive, Terminal, rowVars
    <3>2. TypeOK'
      BY <1>1, <1>7 DEF Raise, Goto, Handled, Verdict, Last, TypeOK, Active, Terminal, rowVars, jobVars, serviceVars, requestVars
    <3> QED BY <3>1, <3>2
  <2>2. ExpOK(e)' /\ Alive(e)' /\ status'[e] = status[e]
    BY <1>1, <1>7 DEF Raise, Handled, Goto, ExpOK, TypeOK, Alive, rowVars
  <2> QED BY <2>1, <2>2, RunnerStep
<1>8. CASE Decide(e)
  <2>1. RunnerWrites(e) /\ TypeOK'
    <3>1. RunnerWrites(e)
      BY <1>1, <1>8 DEF Decide, Goto, RunnerWrites, TypeOK, Alive, Terminal, rowVars
    <3>2. TypeOK'
      BY <1>1, <1>8 DEF Decide, Goto, Handled, Verdict, Last, TypeOK, Active, Terminal, rowVars, jobVars, serviceVars, requestVars
    <3> QED BY <3>1, <3>2
  <2>2. ExpOK(e)' /\ Alive(e)' /\ status'[e] = status[e]
    BY <1>1, <1>8 DEF Decide, Verdict, Goto, ExpOK, TypeOK, Alive, rowVars
  <2> QED BY <2>1, <2>2, RunnerStep
<1>9. CASE Finish(e)
  <2>1. RunnerWrites(e) /\ TypeOK'
    <3>1. RunnerWrites(e)
      BY <1>1, <1>9 DEF Finish, Goto, RunnerWrites, TypeOK, Alive, Terminal, rowVars
    <3>2. TypeOK'
      BY <1>1, <1>9 DEF Finish, Goto, Handled, Verdict, Last, TypeOK, Active, Terminal, rowVars, jobVars, serviceVars, requestVars
    <3> QED BY <3>1, <3>2
  <2>2. ExpOK(e)' /\ status'[e] # "absent" /\ status'[e] \notin Active
    BY <1>1, <1>9 DEF Finish, Goto, ExpOK, TypeOK, Terminal, Active
  <2> QED BY <2>1, <2>2, RunnerStep
<1> QED BY <1>2, <1>3, <1>4, <1>5, <1>6, <1>7, <1>8, <1>9 DEF Runner

\* start(), by the service and from the command line.
LEMMA StartKeeps ==
  ASSUME IInv, NEW e \in Exps, StartCreate(e) \/ StartLaunch \/ CliStart(e) PROVE IInv'
<1> USE DEF IInv, rowVars, serviceVars, requestVars, jobVars
<1>1. CASE StartCreate(e)
  <2>1. home[e] = "none" /\ pc[e] = "none" /\ ~event[e]
    BY <1>1 DEF StartCreate, ExpOK
  <2>2. TypeOK'
    BY <1>1 DEF StartCreate, TypeOK, Active
  <2>3. ASSUME NEW f \in Exps PROVE ExpOK(f)' /\ ServiceOK(f)'
    BY <1>1, <2>1, <2>3, LabAssumption DEF StartCreate, ExpOK, ServiceOK, Alive, TypeOK, Active
  <2>4. StartOK' /\ RowsSeen'
    BY <1>1, <2>1 DEF StartCreate, StartOK, RowsSeen, Busy, Alive, TypeOK
  <2> QED BY <2>2, <2>3, <2>4
<1>2. CASE StartLaunch
  <2> DEFINE s == starting
  <2>1. /\ s \in Exps /\ service = "up" /\ pc[s] = "none" /\ home[s] = "service"
        /\ \A f \in Exps : home[f] = "service" => ~Alive(f)
    BY <1>2, LabAssumption DEF StartLaunch, StartOK, TypeOK, ServiceOK, Busy
  <2>2. TypeOK'
    BY <1>2, <2>1 DEF StartLaunch, TypeOK
  <2>3. ASSUME NEW f \in Exps PROVE ExpOK(f)' /\ ServiceOK(f)'
    BY <1>2, <2>1, <2>3 DEF StartLaunch, ExpOK, ServiceOK, Alive, TypeOK
  <2>4. StartOK' /\ RowsSeen'
    BY <1>2, <2>1, LabAssumption DEF StartLaunch, StartOK, RowsSeen
  <2> QED BY <2>2, <2>3, <2>4
<1>3. CASE CliStart(e)
  <2>1. home[e] = "none" /\ pc[e] = "none" /\ saved[e] = 0 /\ ~event[e] /\ e # starting
    BY <1>3, LabAssumption DEF CliStart, ExpOK, StartOK
  <2>2. TypeOK'
    BY <1>3 DEF CliStart, TypeOK, Active
  <2>3. ASSUME NEW f \in Exps PROVE ExpOK(f)' /\ ServiceOK(f)'
    BY <1>3, <2>1, <2>3 DEF CliStart, ExpOK, ServiceOK, Alive, TypeOK
  <2>4. StartOK' /\ RowsSeen'
    <3>1. current # e
      BY <2>1, LabAssumption DEF StartOK
    <3>2. Busy' = Busy
      BY <1>3, <3>1 DEF CliStart, Busy, Alive, TypeOK
    <3>3. StartOK'
      BY <1>3, <2>1, <3>1, <3>2, LabAssumption DEF CliStart, StartOK, TypeOK
    <3>4. RowsSeen'
      BY <1>3 DEF CliStart, RowsSeen, TypeOK
    <3> QED BY <3>3, <3>4
  <2> QED BY <2>2, <2>3, <2>4
<1> QED BY <1>1, <1>2, <1>3

\* A cancel request and its three steps.
LEMMA CancelKeeps ==
  ASSUME IInv, NEW h \in Handlers,
         (\E e \in Exps : CancelLook(h, e)) \/ CancelCall(h) \/ CancelWrite(h)
  PROVE  IInv'
<1> USE DEF IInv, rowVars, runnerVars, serviceVars, jobVars
<1>1. ASSUME NEW e \in Exps, CancelLook(h, e) PROVE IInv'
  <2>1. TypeOK' /\ RowsSeen'
    BY <1>1 DEF CancelLook, TypeOK, RowsSeen, Active
  <2>2. StartOK' /\ \A f \in Exps : ExpOK(f)' /\ ServiceOK(f)'
    BY <1>1 DEF CancelLook, StartOK, Busy, Alive, ExpOK, ServiceOK
  <2> QED BY <2>1, <2>2
<1>2. CASE CancelCall(h)
  <2> DEFINE e == request[h]
  <2>1. e \in Exps
    BY <1>2 DEF CancelCall, RowsSeen
  <2>2. CASE current = e /\ Alive(e)
    <3>1. /\ SetEvent(e) /\ UNCHANGED <<status, done, saved, home, pc, jobVars, serviceVars>>
          /\ phase' = [phase EXCEPT ![h] = "idle"] /\ request' = [request EXCEPT ![h] = NoExp]
      BY <1>2, <2>2 DEF CancelCall
    <3>2. TypeOK' /\ RowsSeen'
      BY <2>1, <3>1 DEF SetEvent, TypeOK, RowsSeen
    <3>3. ASSUME NEW f \in Exps PROVE ExpOK(f)'
      BY <2>1, <2>2, <3>1, <3>3, LabAssumption DEF SetEvent, ExpOK, TypeOK, Alive
    <3>4. StartOK' /\ \A f \in Exps : ServiceOK(f)'
      BY <3>1 DEF StartOK, Busy, Alive, ServiceOK
    <3> QED BY <3>2, <3>3, <3>4
  <2>3. CASE ~(current = e /\ Alive(e))
    <3>1. /\ UNCHANGED <<status, done, saved, home, pc, event, atCancel, jobVars, serviceVars, request>>
          /\ phase' = [phase EXCEPT ![h] = "write"] /\ phase[h] = "seen"
      BY <1>2, <2>3 DEF CancelCall
    <3>2. TypeOK' /\ RowsSeen'
      BY <2>1, <3>1 DEF TypeOK, RowsSeen
    <3>3. StartOK' /\ \A f \in Exps : ExpOK(f)' /\ ServiceOK(f)'
      BY <3>1 DEF StartOK, Busy, Alive, ExpOK, ServiceOK
    <3> QED BY <3>2, <3>3
  <2> QED BY <2>2, <2>3
<1>3. CASE CancelWrite(h)
  <2> DEFINE e == request[h]
  <2>1. e \in Exps /\ status[e] # "absent"
    BY <1>3 DEF CancelWrite, RowsSeen
  <2>2. TypeOK' /\ RowsSeen'
    BY <1>3, <2>1 DEF CancelWrite, TypeOK, RowsSeen
  <2>3. ASSUME NEW f \in Exps PROVE ExpOK(f)' /\ ServiceOK(f)'
    BY <1>3, <2>1, <2>3 DEF CancelWrite, ExpOK, ServiceOK, Alive, TypeOK, Active
  <2>4. StartOK'
    BY <1>3 DEF CancelWrite, StartOK, Busy, Alive
  <2> QED BY <2>2, <2>3, <2>4
<1> QED BY <1>1, <1>2, <1>3

\* Processes end, and the service starts again.
LEMMA ProcessesKeep ==
  ASSUME IInv, Close \/ Die \/ (\E e \in Exps : CliDies(e) \/ Recover(e)) \/ Boot \/ Serve
  PROVE  IInv'
<1> USE LabAssumption DEF IInv, rowVars, runnerVars, jobVars, requestVars
<1>1. CASE Close
  <2>1. CASE Busy
    <3>1. /\ SetEvent(current) /\ service' = "closing" /\ starting = NoExp
          /\ UNCHANGED <<status, done, saved, home, pc, current, starting, stale, stops, request, phase>>
      BY <1>1, <2>1 DEF Close
    <3>2. current \in Exps /\ Alive(current)
      BY <2>1 DEF Busy, TypeOK
    <3>3. TypeOK' /\ RowsSeen'
      BY <3>1, <3>2 DEF SetEvent, TypeOK, RowsSeen
    <3>4. ASSUME NEW f \in Exps PROVE ExpOK(f)'
      BY <3>1, <3>2, <3>4 DEF SetEvent, ExpOK, TypeOK, Alive
    <3>5. StartOK' /\ \A f \in Exps : ServiceOK(f)'
      BY <1>1, <3>1 DEF Close, StartOK, Busy, Alive, ServiceOK
    <3> QED BY <3>3, <3>4, <3>5
  <2>2. CASE ~Busy
    <3>1. TypeOK' /\ RowsSeen' /\ StartOK'
      BY <1>1, <2>2 DEF Close, TypeOK, RowsSeen, StartOK
    <3>2. ASSUME NEW f \in Exps PROVE ExpOK(f)' /\ ServiceOK(f)'
      BY <1>1, <2>2, <3>2 DEF Close, Alive, ExpOK, ServiceOK
    <3> QED BY <3>1, <3>2
  <2> QED BY <2>1, <2>2
<1>2. CASE Die
  <2>1. TypeOK'
    BY <1>2 DEF Die, TypeOK
  <2>2. RowsSeen' /\ StartOK'
    BY <1>2 DEF Die, RowsSeen, StartOK
  <2>3. ASSUME NEW f \in Exps PROVE ExpOK(f)' /\ ServiceOK(f)'
    BY <1>2, <2>3 DEF Die, ExpOK, ServiceOK, Alive, TypeOK
  <2> QED BY <2>1, <2>2, <2>3
<1>3. ASSUME NEW e \in Exps, CliDies(e) PROVE IInv'
  <2>1. TypeOK' /\ RowsSeen'
    BY <1>3 DEF CliDies, Goto, TypeOK, RowsSeen, serviceVars
  <2>2. ASSUME NEW f \in Exps PROVE ExpOK(f)' /\ ServiceOK(f)'
    BY <1>3, <2>2 DEF CliDies, Goto, ExpOK, ServiceOK, Alive, TypeOK, serviceVars
  <2>3. StartOK'
    BY <1>3 DEF CliDies, Goto, StartOK, Busy, Alive, TypeOK, serviceVars
  <2> QED BY <2>1, <2>2, <2>3
<1>4. ASSUME NEW e \in Exps, Recover(e) PROVE IInv'
  <2>1. TypeOK' /\ RowsSeen'
    BY <1>4 DEF Recover, TypeOK, RowsSeen, Terminal
  <2>2. ASSUME NEW f \in Exps PROVE ExpOK(f)' /\ ServiceOK(f)'
    BY <1>4, <2>2 DEF Recover, RowsSeen, ExpOK, ServiceOK, Alive, TypeOK, Active
  <2>3. StartOK'
    BY <1>4 DEF Recover, StartOK, Busy, Alive
  <2> QED BY <2>1, <2>2, <2>3
<1>5. CASE Boot
  <2>1. TypeOK' /\ RowsSeen' /\ StartOK'
    BY <1>5 DEF Boot, TypeOK, RowsSeen, StartOK, StaleRow, Busy, Active, Alive
  <2>2. ASSUME NEW f \in Exps PROVE ExpOK(f)' /\ ServiceOK(f)'
    BY <1>5, <2>2 DEF Boot, StaleRow, ExpOK, ServiceOK, Alive
  <2> QED BY <2>1, <2>2
<1>6. CASE Serve
  <2>1. TypeOK' /\ RowsSeen' /\ StartOK'
    BY <1>6 DEF Serve, TypeOK, RowsSeen, StartOK, Busy, Alive
  <2>2. ASSUME NEW f \in Exps PROVE ExpOK(f)' /\ ServiceOK(f)'
    BY <1>6, <2>2 DEF Serve, ExpOK, ServiceOK, Alive
  <2> QED BY <2>1, <2>2
<1> QED BY <1>1, <1>2, <1>3, <1>4, <1>5, <1>6

-----------------------------------------------------------------------------
(* Theorems *)

\* The strengthening holds in the beginning and is kept by every step.
THEOREM Invariance == Spec => []IInv
<1>1. Init => IInv
  BY LabAssumption DEF Init, IInv, TypeOK, StartOK, RowsSeen, ExpOK, ServiceOK, Busy, Alive, Active
<1>2. IInv /\ [Next]_vars => IInv'
  <2> SUFFICES ASSUME IInv, [Next]_vars PROVE IInv'
    OBVIOUS
  <2>1. CASE UNCHANGED vars
    <3> USE DEF vars, rowVars, runnerVars, jobVars, serviceVars, requestVars
    <3>1. TypeOK' /\ StartOK' /\ RowsSeen'
      BY <2>1 DEF IInv, TypeOK, StartOK, RowsSeen, Busy, Alive
    <3>2. \A e \in Exps : ExpOK(e)' /\ ServiceOK(e)'
      BY <2>1 DEF IInv, ExpOK, ServiceOK, Alive
    <3> QED BY <3>1, <3>2 DEF IInv
  <2>2. CASE StartLaunch
    <3>1. starting \in Exps
      BY <2>2 DEF StartLaunch, IInv, TypeOK
    <3> QED BY <2>2, <3>1, StartKeeps
  <2>3. CASE Close \/ Die \/ Boot \/ Serve
    BY <2>3, ProcessesKeep
  <2> QED BY <2>1, <2>2, <2>3, StartKeeps, RunnerKeeps, CancelKeeps, ProcessesKeep DEF Next
<1> QED BY <1>1, <1>2, PTL DEF Spec

\* Types, with progress and the stored trials never beyond the plan.
THEOREM TypeCorrect == Spec => []TypeOK
<1>1. IInv => TypeOK
  BY DEF IInv
<1> QED BY <1>1, Invariance, PTL

\* LabJobs never has two live runners, whatever crashes and requests come.
THEOREM OneRunner == Spec => []OneAtATime
<1>1. IInv => OneAtATime
  BY DEF IInv, OneAtATime, ServiceOK
<1> QED BY <1>1, Invariance, PTL

\* "complete" in the row means that every planned trial is stored and counted.
THEOREM CompleteIsComplete == Spec => []CompleteHasAllTrials
<1>1. IInv => CompleteHasAllTrials
  BY DEF IInv, CompleteHasAllTrials, ExpOK
<1> QED BY <1>1, Invariance, PTL

\* After a cancel request reached the runner at most one more trial is stored.
THEOREM CancelTakesEffect == Spec => []CancelStops
<1>1. IInv => CancelStops
  BY DEF IInv, CancelStops, ExpOK
<1> QED BY <1>1, Invariance, PTL

\* A service that serves requests runs what its rows show as active.
THEOREM NoOrphans == Spec => []ActiveIsRun
<1>1. IInv => ActiveIsRun
  BY DEF IInv, ActiveIsRun, ServiceOK
<1> QED BY <1>1, Invariance, PTL

-----------------------------------------------------------------------------
(* The measurement of a trial *)

\* What a thread is at, and what those that are not of the crew never do.
CrewOK ==
  /\ \A m \in Measurers : /\ doing[m] = "look" => hand[m] = 0
                          /\ doing[m] = "op" => hand[m] # 0
  /\ \A m \in Measurers \ crew : doing[m] = "ended" /\ hand[m] = 0 /\ timed[m] = {}

\* A thread of the crew that ended and did not raise has seen enough.
EndedOK == \A m \in crew : doing[m] = "ended" /\ hand[m] = 0 => Enough

\* In the loop of one thread the durations are kept until they are too many;
\* and an operation that raises there leaves no result.
AloneOK ==
  Alone => \A m \in crew :
             /\ Cardinality(timed[m]) <= ExactLimit => raw = timed[m]
             /\ doing[m] = "ended" /\ hand[m] # 0 => outcome = "failed"

\* A result is of threads that have all ended.
OutcomeOK ==
  HasResult =>
    /\ \A m \in Measurers : doing[m] = "ended"
    /\ outcome = "exact" =>
         Alone /\ \A m \in crew : Cardinality(timed[m]) <= ExactLimit

\* Where an operation is, in words that a step changes one by one.
InPlace(o) ==
  \E m \in Measurers :
    /\ (o \in timed[m]) # (o = hand[m])
    /\ \A n \in Measurers \ {m} : o \notin timed[n] /\ o # hand[n]

Placed == \A o \in Claims : InPlace(o)

TrialInv == TrialTypeOK /\ Placed /\ CrewOK /\ EndedOK /\ AloneOK /\ OutcomeOK

LEMMA PlacesAreOne == Placed => OpsConserved
<1> SUFFICES ASSUME NEW o \in Claims, InPlace(o)
             PROVE  LET timers == {m \in Measurers : o \in timed[m]}
                        holders == {m \in Measurers : o = hand[m]}
                    IN /\ timers \cap holders = {}
                       /\ \E m \in Measurers : timers \cup holders = {m}
  BY DEF OpsConserved, Placed
<1>1. PICK m \in Measurers : /\ (o \in timed[m]) # (o = hand[m])
                             /\ \A n \in Measurers \ {m} : o \notin timed[n] /\ o # hand[n]
  BY DEF InPlace
<1> QED BY <1>1

LEMMA TrialBegins == TrialInit => TrialInv
<1> SUFFICES ASSUME TrialInit PROVE TrialInv
  OBVIOUS
<1>1. PICK m \in Measurers : crew = {m} \/ crew = Measurers
  BY TrialAssumption DEF TrialInit
<1>2. Claims = {}
  BY DEF TrialInit, Claims
<1>5. TrialTypeOK
  BY <1>1, <1>2 DEF TrialInit, TrialTypeOK
<1>6. Placed
  BY <1>2 DEF Placed
<1>4. CrewOK /\ EndedOK /\ OutcomeOK
  BY <1>1 DEF TrialInit, CrewOK, EndedOK, OutcomeOK, HasResult
<1>3. AloneOK
  BY <1>1 DEF TrialInit, AloneOK
<1> QED BY <1>3, <1>4, <1>5, <1>6 DEF TrialInv

LEMMA ClaimKeeps ==
  ASSUME TrialInv, NEW m \in Measurers, Claim(m)
  PROVE  TrialInv'
<1> USE DEF Claim
<1>0. m \in crew /\ hand[m] = 0 /\ hand'[m] = claimed + 1 /\ doing'[m] = "op"
      /\ claimed \in Nat /\ claimed' = claimed + 1 /\ outcome' = outcome /\ crew' = crew /\ late' = late
  BY DEF TrialInv, CrewOK, TrialTypeOK
<1>1. \A n \in Measurers \ {m} : hand'[n] = hand[n] /\ doing'[n] = doing[n]
  BY DEF TrialInv, TrialTypeOK
<1>2. TrialTypeOK'
  <2>1. Claims \subseteq Claims' /\ claimed + 1 \in Claims'
    BY <1>0 DEF Claims
  <2>2. hand' \in [Measurers -> {0} \cup Claims'] /\ doing' \in [Measurers -> {"look", "op", "ended"}]
    BY <2>1, <1>0 DEF TrialInv, TrialTypeOK
  <2>3. timed' \in [Measurers -> SUBSET Claims'] /\ raw' \in SUBSET Claims'
    BY <2>1 DEF TrialInv, TrialTypeOK
  <2> QED BY <2>2, <2>3, <1>0 DEF TrialInv, TrialTypeOK
<1>3. Placed'
  <2> SUFFICES ASSUME NEW o \in Claims' PROVE InPlace(o)'
    BY DEF Placed
  <2>1. CASE o = claimed + 1
    <3>1. \A n \in Measurers : o \notin timed'[n] /\ (n # m => o # hand'[n])
      <4>1. o \notin Claims /\ o # 0
        BY <2>1, <1>0 DEF Claims
      <4> QED BY <4>1, <1>0, <1>1 DEF TrialInv, TrialTypeOK
    <3> QED BY <3>1, <2>1, <1>0 DEF InPlace
  <2>2. CASE o # claimed + 1
    <3>1. InPlace(o) /\ o # 0
      BY <2>2, <1>0 DEF Placed, TrialInv, Claims
    <3>2. \A n \in Measurers : (o = hand'[n]) = (o = hand[n])
      BY <2>2, <3>1, <1>0, <1>1
    <3> QED BY <3>1, <3>2 DEF InPlace
  <2> QED BY <2>1, <2>2
<1>4. CrewOK'
  BY <1>0, <1>1 DEF TrialInv, CrewOK
<1>7. EndedOK'
  <2> SUFFICES ASSUME NEW n \in crew, n # m, doing[n] = "ended", hand[n] = 0 PROVE Enough'
    BY <1>0, <1>1 DEF EndedOK, TrialInv, TrialTypeOK
  <2>1. Enough
    BY DEF TrialInv, EndedOK
  <2> QED BY <2>1, <1>0, TrialAssumption DEF Enough
<1>5. AloneOK'
  BY <1>0, <1>1 DEF TrialInv, AloneOK, Alone, TrialTypeOK
<1>6. OutcomeOK'
  BY <1>0 DEF TrialInv, OutcomeOK, HasResult, Alone
<1> QED BY <1>2, <1>3, <1>4, <1>5, <1>6, <1>7 DEF TrialInv

\* What is timed, or kept, is a finite set of operations.
LEMMA TimedIsFinite ==
  ASSUME TrialTypeOK, NEW S \in SUBSET Claims
  PROVE  IsFiniteSet(S) /\ Cardinality(S) \in Nat
<1>1. IsFiniteSet(Claims)
  <2>1. claimed \in Int
    BY DEF TrialTypeOK
  <2> QED BY <2>1, FS_Interval DEF Claims
<1> QED BY <1>1, FS_Subset, FS_CardinalityType

LEMMA TimeOpKeeps ==
  ASSUME TrialInv, NEW m \in Measurers, TimeOp(m)
  PROVE  TrialInv'
<1> USE DEF TimeOp
<1>0. m \in crew /\ hand[m] # 0 /\ hand'[m] = 0 /\ doing'[m] = "look"
      /\ timed'[m] = timed[m] \cup {hand[m]} /\ hand[m] \in Claims
      /\ claimed' = claimed /\ outcome' = outcome /\ crew' = crew /\ late' = late
  BY DEF TrialInv, CrewOK, TrialTypeOK
<1>1. \A n \in Measurers \ {m} : hand'[n] = hand[n] /\ doing'[n] = doing[n] /\ timed'[n] = timed[n]
  BY DEF TrialInv, TrialTypeOK
<1>2. TrialTypeOK'
  <2>1. timed' \in [Measurers -> SUBSET Claims] /\ hand' \in [Measurers -> {0} \cup Claims]
        /\ doing' \in [Measurers -> {"look", "op", "ended"}]
    BY <1>0 DEF TrialInv, TrialTypeOK
  <2>2. raw' \in SUBSET Claims
    BY <1>0 DEF TrialInv, TrialTypeOK
  <2> QED BY <1>0, <2>1, <2>2 DEF TrialInv, TrialTypeOK, Claims
<1>3. Placed'
  <2> SUFFICES ASSUME NEW o \in Claims' PROVE InPlace(o)'
    BY DEF Placed
  <2>1. o \in Claims /\ InPlace(o) /\ o # 0
    BY <1>0 DEF Placed, TrialInv, Claims
  <2>2. CASE o = hand[m]
    <3>1. o \notin timed[m] /\ \A n \in Measurers \ {m} : o \notin timed[n] /\ o # hand[n]
      BY <2>1, <2>2 DEF InPlace
    <3> QED BY <3>1, <2>1, <2>2, <1>0, <1>1 DEF InPlace
  <2>3. CASE o # hand[m]
    <3>1. \A n \in Measurers : ((o = hand'[n]) <=> (o = hand[n])) /\ ((o \in timed'[n]) <=> (o \in timed[n]))
      BY <2>1, <2>3, <1>0, <1>1
    <3> QED BY <3>1, <2>1 DEF InPlace
  <2> QED BY <2>2, <2>3
<1>4. CrewOK'
  BY <1>0, <1>1 DEF TrialInv, CrewOK
<1>7. EndedOK'
  <2> SUFFICES ASSUME NEW n \in crew, n # m, doing[n] = "ended", hand[n] = 0 PROVE Enough'
    BY <1>0, <1>1 DEF EndedOK, TrialInv, TrialTypeOK
  <2> QED BY <1>0 DEF TrialInv, EndedOK, Enough
<1>5. AloneOK'
  <2> SUFFICES ASSUME Alone PROVE AloneOK'
    BY <1>0 DEF AloneOK, Alone
  <2>1. crew = {m}
    <3>1. PICK x : crew = {x}
      <4>1. IsFiniteSet(crew)
        BY TrialAssumption, FS_Subset DEF TrialInv, TrialTypeOK
      <4> QED BY <4>1, FS_Singleton DEF Alone
    <3> QED BY <3>1, <1>0
  <2>2. Cardinality(timed'[m]) <= ExactLimit => raw' = timed'[m]
    <3> SUFFICES ASSUME Cardinality(timed'[m]) <= ExactLimit PROVE raw' = timed'[m]
      OBVIOUS
    <3>1. timed'[m] \in SUBSET Claims /\ timed[m] \in SUBSET timed'[m]
      BY <1>0 DEF TrialInv, TrialTypeOK
    <3>2. Cardinality(timed[m]) <= ExactLimit
      <4>1. Cardinality(timed[m]) <= Cardinality(timed'[m]) /\ Cardinality(timed'[m]) \in Nat
            /\ Cardinality(timed[m]) \in Nat
        BY <3>1, TimedIsFinite, FS_Subset DEF TrialInv
      <4> QED BY <4>1, TrialAssumption
    <3>3. raw = timed[m]
      BY <3>2, <1>0 DEF TrialInv, AloneOK
    <3> QED BY <3>3, <1>0
  <2> QED BY <2>1, <2>2, <1>0 DEF AloneOK
<1>6. OutcomeOK'
  BY <1>0 DEF TrialInv, OutcomeOK, HasResult, Alone
<1> QED BY <1>2, <1>3, <1>4, <1>5, <1>6, <1>7 DEF TrialInv

LEMMA OpRaisesKeeps ==
  ASSUME TrialInv, NEW m \in Measurers, OpRaises(m)
  PROVE  TrialInv'
<1> USE DEF OpRaises
<1>0. m \in crew /\ hand[m] # 0 /\ doing'[m] = "ended" /\ claimed' = claimed /\ late' = late
      /\ crew' = crew /\ hand' = hand /\ timed' = timed /\ raw' = raw
      /\ \A n \in Measurers \ {m} : doing'[n] = doing[n]
  BY DEF TrialInv, CrewOK, TrialTypeOK
<1>1. TrialTypeOK' /\ Placed'
  BY <1>0 DEF TrialInv, TrialTypeOK, Claims, Placed, InPlace
<1>2. CrewOK' /\ EndedOK'
  BY <1>0 DEF TrialInv, TrialTypeOK, CrewOK, EndedOK, Enough
<1>3. AloneOK'
  BY <1>0 DEF TrialInv, TrialTypeOK, AloneOK, Alone
<1>4. OutcomeOK'
  BY <1>0 DEF TrialInv, OutcomeOK, HasResult
<1> QED BY <1>1, <1>2, <1>3, <1>4 DEF TrialInv

LEMMA SeesEnoughKeeps ==
  ASSUME TrialInv, NEW m \in Measurers, SeesEnough(m)
  PROVE  TrialInv'
<1> USE DEF SeesEnough
<1>0. m \in crew /\ hand[m] = 0 /\ doing'[m] = "ended" /\ claimed' = claimed /\ late' = late
      /\ crew' = crew /\ hand' = hand /\ timed' = timed /\ raw' = raw /\ outcome' = outcome
      /\ \A n \in Measurers \ {m} : doing'[n] = doing[n]
  BY DEF TrialInv, CrewOK, TrialTypeOK
<1>1. TrialTypeOK' /\ Placed'
  BY <1>0 DEF TrialInv, TrialTypeOK, Claims, Placed, InPlace
<1>2. CrewOK' /\ EndedOK'
  BY <1>0 DEF TrialInv, TrialTypeOK, CrewOK, EndedOK, Enough
<1>3. AloneOK'
  BY <1>0 DEF TrialInv, TrialTypeOK, AloneOK, Alone
<1>4. OutcomeOK'
  BY <1>0 DEF TrialInv, OutcomeOK, HasResult
<1> QED BY <1>1, <1>2, <1>3, <1>4 DEF TrialInv

LEMMA MeasuredKeeps ==
  ASSUME TrialInv, Measured
  PROVE  TrialInv'
<1> USE DEF Measured
<1>1. TrialTypeOK' /\ Placed' /\ CrewOK' /\ EndedOK'
  BY DEF TrialInv, TrialTypeOK, Claims, Placed, InPlace, CrewOK, EndedOK, Enough
<1>2. AloneOK'
  BY DEF TrialInv, TrialTypeOK, AloneOK, Alone
<1>3. OutcomeOK'
  BY DEF OutcomeOK, HasResult, Alone
<1> QED BY <1>1, <1>2, <1>3 DEF TrialInv

LEMMA OtherTrialStepsKeep ==
  ASSUME TrialInv, DeadlinePasses \/ UNCHANGED trialVars
  PROVE  TrialInv'
<1> USE DEF DeadlinePasses, trialVars
<1>0. /\ crew' = crew /\ claimed' = claimed /\ doing' = doing /\ hand' = hand
      /\ timed' = timed /\ raw' = raw /\ outcome' = outcome
      /\ late' \in BOOLEAN /\ (late => late')
  BY DEF TrialInv, TrialTypeOK
<1>1. TrialTypeOK' /\ Placed' /\ CrewOK'
  BY <1>0 DEF TrialInv, TrialTypeOK, Claims, Placed, InPlace, CrewOK
<1>2. EndedOK'
  BY <1>0 DEF TrialInv, EndedOK, Enough
<1>3. AloneOK' /\ OutcomeOK'
  BY <1>0 DEF TrialInv, AloneOK, Alone, OutcomeOK, HasResult
<1> QED BY <1>1, <1>2, <1>3 DEF TrialInv

\* What was claimed was timed or raised, so that the two make up the claims.
LEMMA ResultAddsUp ==
  ASSUME TrialInv, HasResult
  PROVE  claimed <= Cardinality(OpsTimed) + Cardinality(Raised)
<1> DEFINE held == {hand[m] : m \in Raised}
<1>0. TrialTypeOK /\ claimed \in Nat
  BY DEF TrialInv, TrialTypeOK
<1>1. OpsTimed \in SUBSET Claims /\ held \in SUBSET Claims
  BY <1>0 DEF TrialTypeOK, OpsTimed, Raised
<1>2. Claims \subseteq OpsTimed \cup held
  <2> SUFFICES ASSUME NEW o \in Claims, o \notin OpsTimed PROVE o \in held
    OBVIOUS
  <2>1. PICK m \in Measurers : o \in timed[m] \/ o = hand[m]
    BY DEF TrialInv, Placed, InPlace
  <2>2. o = hand[m] /\ doing[m] = "ended" /\ o # 0
    BY <2>1 DEF TrialInv, OutcomeOK, OpsTimed, Claims
  <2> QED BY <2>2 DEF Raised
<1>3. IsFiniteSet(Raised)
  BY TrialAssumption, FS_Subset DEF Raised
<1>4. Cardinality(held) <= Cardinality(Raised)
  <2> DEFINE f == [m \in Raised |-> hand[m]]
  <2>1. f \in Surjection(Raised, held)
    BY DEF Surjection
  <2> QED BY <2>1, <1>3, FS_Surjection
<1>5. Cardinality(OpsTimed) \in Nat /\ Cardinality(held) \in Nat /\ Cardinality(Raised) \in Nat
      /\ IsFiniteSet(OpsTimed) /\ IsFiniteSet(held)
  BY <1>0, <1>1, <1>3, TimedIsFinite, FS_CardinalityType
<1>6. Cardinality(OpsTimed \cup held) <= Cardinality(OpsTimed) + Cardinality(held)
  <2>1. IsFiniteSet(OpsTimed \cap held)
    BY <1>5, FS_Subset
  <2>2. Cardinality(OpsTimed \cap held) \in Nat
    BY <2>1, FS_CardinalityType
  <2>3. Cardinality(OpsTimed \cup held) =
          Cardinality(OpsTimed) + Cardinality(held) - Cardinality(OpsTimed \cap held)
    BY <1>5, FS_Union
  <2> QED BY <2>2, <2>3, <1>5
<1>7. Cardinality(OpsTimed \cup held) = claimed
  <2>1. OpsTimed \cup held = Claims
    BY <1>1, <1>2
  <2>2. Cardinality(1..claimed) = claimed
    BY <1>0, FS_Interval
  <2> QED BY <2>1, <2>2 DEF Claims
<1> QED BY <1>0, <1>4, <1>5, <1>6, <1>7

LEMMA ResultsAreHonest == TrialInv => ResultIsHonest
<1> SUFFICES ASSUME TrialInv, HasResult
             PROVE  /\ Raised # crew => late /\ Cardinality(OpsTimed) + Cardinality(Raised) >= MinOps
                    /\ outcome = "exact" => raw = OpsTimed /\ Raised = {}
  BY DEF ResultIsHonest
<1>0. Raised \subseteq crew /\ crew \subseteq Measurers
  BY DEF TrialInv, TrialTypeOK, CrewOK, Raised
<1>1. ASSUME Raised # crew
      PROVE  late /\ Cardinality(OpsTimed) + Cardinality(Raised) >= MinOps
  <2>1. PICK m \in crew : m \notin Raised
    BY <1>0, <1>1
  <2>2. doing[m] = "ended" /\ hand[m] = 0
    BY <1>0, <2>1 DEF TrialInv, OutcomeOK, Raised
  <2>3. late /\ claimed >= MinOps
    BY <2>2 DEF TrialInv, EndedOK, Enough
  <2>4. Cardinality(OpsTimed) \in Nat /\ Cardinality(Raised) \in Nat /\ claimed \in Nat
    <3>1. OpsTimed \in SUBSET Claims /\ TrialTypeOK
      BY DEF TrialInv, TrialTypeOK, OpsTimed
    <3>2. IsFiniteSet(Raised)
      BY TrialAssumption, FS_Subset DEF Raised
    <3> QED BY <3>1, <3>2, TimedIsFinite, FS_CardinalityType DEF TrialTypeOK
  <2> QED BY <2>3, <2>4, ResultAddsUp, TrialAssumption
<1>2. ASSUME outcome = "exact"
      PROVE  raw = OpsTimed /\ Raised = {}
  <2>1. Alone /\ \A m \in crew : Cardinality(timed[m]) <= ExactLimit
    BY <1>2 DEF TrialInv, OutcomeOK
  <2>2. PICK m \in Measurers : crew = {m}
    <3>1. IsFiniteSet(crew)
      BY <1>0, TrialAssumption, FS_Subset
    <3> QED BY <2>1, <3>1, <1>0, FS_Singleton DEF Alone
  <2>3. \A n \in Measurers \ {m} : timed[n] = {}
    BY <2>2 DEF TrialInv, CrewOK
  <2>4. OpsTimed = timed[m]
    BY <2>3 DEF OpsTimed
  <2>5. raw = timed[m] /\ m \notin Raised
    BY <1>2, <2>1, <2>2 DEF TrialInv, AloneOK, Raised
  <2> QED BY <1>0, <2>2, <2>4, <2>5
<1> QED BY <1>1, <1>2

\* For any crew, any limits and any operations: an operation of a trial is
\* timed by exactly one thread unless it raises, and a result has the
\* operations it was to have, its exact percentiles all of them.
THEOREM TrialsAreHonest == TrialSpec => []TrialHonest
<1>1. TrialInv /\ [TrialNext]_trialVars => TrialInv'
  BY ClaimKeeps, TimeOpKeeps, OpRaisesKeeps, SeesEnoughKeeps, MeasuredKeeps, OtherTrialStepsKeep
  DEF TrialNext
<1>2. TrialInv => TrialHonest
  BY PlacesAreOne, ResultsAreHonest DEF TrialInv, TrialHonest
<1> QED BY TrialBegins, <1>1, <1>2, PTL DEF TrialSpec
=============================================================================
