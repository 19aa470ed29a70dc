--------------------------- MODULE ProfilerClient ---------------------------
(***************************************************************************)
(* vayunx_profiler_sdk/client.py and ops.py: runs, spans, operation timers *)
(* and the sampler's lifecycle, on the threads of the profiled program.    *)
(*                                                                         *)
(* A run is entered and left by its owner thread.  Other threads (Workers) *)
(* reach it through client.active_run: they hold spans and operations of   *)
(* it, start and stop its sampler, or shut the client down.  The sender    *)
(* thread runs on_tick, which drains the operation histograms of the       *)
(* active run, as the owner does on exit.                                  *)
(* Everything recorded goes through enqueue of BackgroundSender, which     *)
(* delivers in the order of log; here a data item may find the queue full  *)
(* at any time.  Timeouts may pass at any time.                            *)
(***************************************************************************)
EXTENDS Telemetry, FiniteSets

CONSTANTS Workers,     \* threads other than the owners of runs
          Closers,     \* threads whose program calls client.shutdown()
          Ops,         \* Op objects
          NoRun,       \* None
          Ticker,      \* the sender thread, as a drainer of histograms
          MaxSpans,    \* bound: spans recorded in a behaviour
          MaxCalls,    \* bound: calls of one Op
          MaxSamples   \* bound: periodic samples of one sampler

ASSUME ClientAssumption ==
  /\ NoRun \notin Runs /\ Ticker \notin Runs
  /\ Workers \cap Runs = {}
  /\ MaxSpans \in Nat /\ MaxCalls \in Nat /\ MaxSamples \in Nat

VARIABLES
  active,         \* client._active_run
  stage,          \* where the owner of each run is in __enter__ / __exit__
  closed,         \* run._closed
  failedExit,     \* runs whose __exit__ ended in _internal_error("run-exit")
  sampler,        \* client._sampler, by the run it is tagged with
  samplerThread,  \* the sampler's thread, per run
  stopFlag,       \* sampler._stop, per run
  samples,        \* periodic samples taken, per run
  doing,          \* what each thread is in the middle of
  target,         \* the run that concerns
  spans,          \* number of spans recorded or being recorded
  openSpans,      \* run._open_spans
  owner,          \* the run whose _ops holds an Op
  hist,           \* op._hist.count
  todo,           \* per drainer: the rest of its copy of run._ops
  held,           \* per drainer: calls swapped out, not yet enqueued
  tick,           \* where the sender thread is in on_tick
  tickRun,        \* its local "run"
  log,            \* what enqueue accepted
  stopped,        \* sender._stopped
  made, shipped, lost,  \* history, per Op: calls timed, enqueued, refused
  atExit          \* history, per Op: calls timed when __exit__ began

runVars     == <<active, stage, closed, failedExit>>
samplerVars == <<sampler, samplerThread, stopFlag, samples>>
threadVars  == <<doing, target, spans, openSpans>>
opVars      == <<owner, hist, made, atExit>>
drainVars   == <<todo, held, shipped, lost>>
tickVars    == <<tick, tickRun>>
vars == <<runVars, samplerVars, threadVars, opVars, drainVars, tickVars, log, stopped>>

Threads  == Workers \cup Runs      \* a run stands for its owner, too
Drainers == Runs \cup {Ticker}
NoCalls  == [o \in Ops |-> 0]

-----------------------------------------------------------------------------
(* sender.enqueue, as its callers see it: control is refused only by a      *)
(* stopped sender, data also by a full queue.                               *)

Accepts(kind, run) ==
  /\ ~stopped
  /\ log' = Append(log, [kind |-> kind, run |-> run, id |-> Len(log) + 1])

Refuses(kind) ==
  /\ stopped \/ kind \in DataKinds
  /\ UNCHANGED log

Record(kind, run) == Accepts(kind, run) \/ Refuses(kind)

Init ==
  /\ active = NoRun
  /\ stage = [r \in Runs |-> "new"]
  /\ closed = [r \in Runs |-> FALSE]
  /\ failedExit = {}
  /\ sampler = NoRun
  /\ samplerThread = [r \in Runs |-> "none"]
  /\ stopFlag = [r \in Runs |-> FALSE]
  /\ samples = [r \in Runs |-> 0]
  /\ doing = [t \in Threads |-> "idle"]
  /\ target = [t \in Threads |-> NoRun]
  /\ spans = 0
  /\ openSpans = [r \in Runs |-> 0]
  /\ owner = [o \in Ops |-> NoRun]
  /\ hist = NoCalls /\ made = NoCalls /\ atExit = NoCalls
  /\ todo = [d \in Drainers |-> {}]
  /\ held = [d \in Drainers |-> NoCalls]
  /\ shipped = NoCalls /\ lost = NoCalls
  /\ tick = "idle" /\ tickRun = NoRun
  /\ log = <<>>
  /\ stopped = FALSE

-----------------------------------------------------------------------------
(* ProfilerRun.__enter__; a second run on the client raises.                *)

WrongFree == TRUE
Free == active = NoRun

(* _active_run and run_id are set; in between span() and op() still raise.  *)
Claim(r) ==
  /\ stage[r] = "new"
  /\ Free
  /\ active' = r
  /\ stage' = [stage EXCEPT ![r] = "claimed"]
  /\ UNCHANGED <<closed, failedExit, samplerVars, threadVars, opVars, drainVars,
                 tickVars, log, stopped>>

Enter(r) ==
  /\ stage[r] = "claimed"
  /\ Record("run", r)
  /\ stage' = [stage EXCEPT ![r] = "entered"]
  /\ UNCHANGED <<active, closed, failedExit, samplerVars, threadVars, opVars,
                 drainVars, tickVars, stopped>>

(* The checks of span() and op(): the run has an id and is not closed.  Its *)
(* creation may not be enqueued yet.                                        *)
Usable(r) == stage[r] # "new" /\ ~closed[r]

(* An owner acts inside its with block, any other thread at any time.       *)
MayAct(t) == doing[t] = "idle" /\ (t \in Runs => stage[t] = "entered")

-----------------------------------------------------------------------------
(* Spans and operations.  Only span() and op() look at _closed; the span is *)
(* entered, the operation added, later.                                     *)

Use(t, r) ==
  /\ MayAct(t) /\ Usable(r)
  /\ doing' = [doing EXCEPT ![t] = "using"]
  /\ target' = [target EXCEPT ![t] = r]
  /\ UNCHANGED <<spans, openSpans, runVars, samplerVars, opVars, drainVars, tickVars,
                 log, stopped>>

SpanEnter(t) ==
  /\ doing[t] = "using"
  /\ spans < MaxSpans
  /\ spans' = spans + 1
  /\ openSpans' = [openSpans EXCEPT ![target[t]] = @ + 1]
  /\ doing' = [doing EXCEPT ![t] = "span"]
  /\ UNCHANGED <<target, runVars, samplerVars, opVars, drainVars, tickVars, log, stopped>>

(* The end of a span, and the span record of an Op, which was never open.   *)
WrongOpen(t) == 1
Open(t) == IF doing[t] = "span" THEN 1 ELSE 0

SpanExit(t) ==
  /\ doing[t] \in {"span", "slow"}
  /\ openSpans' = [openSpans EXCEPT ![target[t]] = @ - Open(t)]
  /\ Record("span", target[t])
  /\ doing' = [doing EXCEPT ![t] = "idle"]
  /\ target' = [target EXCEPT ![t] = NoRun]
  /\ UNCHANGED <<spans, runVars, samplerVars, opVars, drainVars, tickVars, stopped>>

CreateOp(t, o) ==
  /\ doing[t] = "using"
  /\ owner[o] = NoRun
  /\ owner' = [owner EXCEPT ![o] = target[t]]
  /\ doing' = [doing EXCEPT ![t] = "idle"]
  /\ target' = [target EXCEPT ![t] = NoRun]
  /\ UNCHANGED <<hist, made, atExit, spans, openSpans, runVars, samplerVars, drainVars,
                 tickVars, log, stopped>>

(* Op.__exit__: count the call; a slow or sampled one also records a span.  *)
OpCall(t, o) ==
  /\ MayAct(t)
  /\ owner[o] # NoRun
  /\ made[o] < MaxCalls
  /\ hist' = [hist EXCEPT ![o] = @ + 1]
  /\ made' = [made EXCEPT ![o] = @ + 1]
  /\ \/ UNCHANGED threadVars
     \/ /\ spans < MaxSpans
        /\ spans' = spans + 1
        /\ doing' = [doing EXCEPT ![t] = "slow"]
        /\ target' = [target EXCEPT ![t] = owner[o]]
        /\ UNCHANGED openSpans
  /\ UNCHANGED <<owner, atExit, runVars, samplerVars, drainVars, tickVars, log, stopped>>

-----------------------------------------------------------------------------
(* The sampler's lifecycle.                                                 *)

(* Any thread may start the sampler of the active run.                      *)
StartSampling(t) ==
  /\ MayAct(t) /\ active # NoRun
  /\ sampler = NoRun
  /\ samplerThread[active] = "none" /\ ~stopFlag[active]   \* bound: one sampler per run
  /\ sampler' = active
  /\ doing' = [doing EXCEPT ![t] = "starting"]
  /\ UNCHANGED <<samplerThread, stopFlag, samples, target, spans, openSpans, runVars, opVars,
                 drainVars, tickVars, log, stopped>>

(* It starts what _sampler holds by then; nothing, if it was stopped first. *)
InitialSample(t) ==
  /\ doing[t] = "starting"
  /\ doing' = [doing EXCEPT ![t] = "idle"]
  /\ \/ sampler = NoRun /\ UNCHANGED <<samplerThread, log>>
     \/ /\ sampler # NoRun
        /\ Record("sample", sampler)
        /\ samplerThread' =
             [samplerThread EXCEPT ![sampler] = IF @ = "none" THEN "waiting" ELSE @]
  /\ UNCHANGED <<sampler, stopFlag, samples, target, spans, openSpans, runVars, opVars,
                 drainVars, tickVars, stopped>>

SamplerWake(r) ==
  /\ samplerThread[r] = "waiting"
  /\ stopFlag[r] \/ samples[r] < MaxSamples
  /\ IF stopFlag[r]
     THEN samplerThread' = [samplerThread EXCEPT ![r] = "ended"] /\ UNCHANGED samples
     ELSE /\ samplerThread' = [samplerThread EXCEPT ![r] = "taking"]
          /\ samples' = [samples EXCEPT ![r] = @ + 1]
  /\ UNCHANGED <<sampler, stopFlag, runVars, threadVars, opVars, drainVars,
                 tickVars, log, stopped>>

SamplerEmit(r) ==
  /\ samplerThread[r] = "taking"
  /\ Record("sample", r)
  /\ samplerThread' = [samplerThread EXCEPT ![r] = "waiting"]
  /\ UNCHANGED <<sampler, stopFlag, samples, runVars, threadVars, opVars,
                 drainVars, tickVars, stopped>>

(* stop_sampling() up to Sampler.stop()'s join: the first caller takes      *)
(* _sampler, the next one raises.                                           *)
TakeSampler ==
  /\ sampler # NoRun
  /\ sampler' = NoRun
  /\ stopFlag' = [stopFlag EXCEPT ![sampler] = TRUE]
  /\ UNCHANGED <<samplerThread, samples>>

(* Joining a thread that was not started yet raises.                        *)
Joinable == samplerThread[sampler] # "none"

StopSampling(t) ==
  /\ MayAct(t)
  /\ TakeSampler
  /\ doing' = [doing EXCEPT ![t] = IF Joinable THEN "joining" ELSE "idle"]
  /\ target' = [target EXCEPT ![t] = IF Joinable THEN sampler ELSE NoRun]
  /\ UNCHANGED <<spans, openSpans, runVars, opVars, drainVars, tickVars, log, stopped>>

(* The join is over: the thread ended, or the timeout did.                  *)
WrongJoined(r) == samplerThread[r] = "ended"
Joined(r) == stopFlag[r]

(* The final sample.                                                        *)
JoinOver(t) ==
  /\ doing[t] \in {"joining", "joinShutdown"}
  /\ Joined(target[t])
  /\ Record("sample", target[t])
  /\ doing' = [doing EXCEPT ![t] = IF @ = "joining" THEN "idle" ELSE "closing"]
  /\ target' = [target EXCEPT ![t] = NoRun]
  /\ UNCHANGED <<spans, openSpans, runVars, samplerVars, opVars, drainVars, tickVars, stopped>>

(* client.shutdown(): stop the sampler if there is one, then the sender.    *)
Shutdown(t) ==
  /\ MayAct(t) /\ t \in Closers
  /\ ~stopped                      \* bound: a second shutdown is not modelled
  /\ \/ /\ TakeSampler
        /\ doing' = [doing EXCEPT ![t] = IF Joinable THEN "joinShutdown" ELSE "closing"]
        /\ target' = [target EXCEPT ![t] = IF Joinable THEN sampler ELSE NoRun]
     \/ /\ sampler = NoRun
        /\ doing' = [doing EXCEPT ![t] = "closing"]
        /\ UNCHANGED <<target, samplerVars>>
  /\ UNCHANGED <<spans, openSpans, runVars, opVars, drainVars, tickVars, log, stopped>>

CloseSender(t) ==
  /\ doing[t] = "closing"
  /\ stopped' = TRUE
  /\ doing' = [doing EXCEPT ![t] = "idle"]
  /\ UNCHANGED <<target, spans, openSpans, runVars, samplerVars, opVars, drainVars, tickVars, log>>

-----------------------------------------------------------------------------
(* Draining histograms: copy run._ops, then for each Op swap its histogram  *)
(* under its lock and enqueue the summary without it.                       *)

OpsOf(r) == {o \in Ops : owner[o] = r}

Draining(d) == IF d = Ticker THEN tick = "draining" ELSE stage[d] = "draining"

WrongSwapped(o) == hist[o]
Swapped(o) == 0

Swap(d, o) ==
  /\ Draining(d) /\ o \in todo[d] /\ held[d] = NoCalls
  /\ todo' = [todo EXCEPT ![d] = @ \ {o}]
  /\ held' = [held EXCEPT ![d][o] = hist[o]]
  /\ hist' = [hist EXCEPT ![o] = Swapped(o)]
  /\ UNCHANGED <<shipped, lost, owner, made, atExit, runVars, samplerVars,
                 threadVars, tickVars, log, stopped>>

EmitStats(d, o) ==
  /\ Draining(d) /\ held[d][o] > 0
  /\ held' = [held EXCEPT ![d][o] = 0]
  /\ \/ /\ Accepts("op_stats", owner[o])
        /\ shipped' = [shipped EXCEPT ![o] = @ + held[d][o]]
        /\ UNCHANGED lost
     \/ /\ Refuses("op_stats")
        /\ lost' = [lost EXCEPT ![o] = @ + held[d][o]]
        /\ UNCHANGED shipped
  /\ UNCHANGED <<todo, runVars, samplerVars, threadVars, opVars, tickVars, stopped>>

Drained(d) == Draining(d) /\ todo[d] = {} /\ held[d] = NoCalls

(* The sender thread, which the first enqueue started, decides on a tick.   *)
TickBegin ==
  /\ tick = "idle"
  /\ log # <<>> /\ ~stopped
  /\ tick' = "begun"
  /\ UNCHANGED <<tickRun, runVars, samplerVars, threadVars, opVars, drainVars, log, stopped>>

(* client._drain_ops: without the lock.                                     *)
TickLook ==
  /\ tick = "begun"
  /\ tickRun' = active
  /\ tick' = IF active = NoRun THEN "idle" ELSE "looked"
  /\ UNCHANGED <<runVars, samplerVars, threadVars, opVars, drainVars, log, stopped>>

TickCopy ==
  /\ tick = "looked"
  /\ todo' = [todo EXCEPT ![Ticker] = OpsOf(tickRun)]
  /\ tick' = "draining"
  /\ UNCHANGED <<tickRun, held, shipped, lost, runVars, samplerVars, threadVars,
                 opVars, log, stopped>>

TickOver ==
  /\ Drained(Ticker)
  /\ tick' = "idle" /\ tickRun' = NoRun
  /\ UNCHANGED <<runVars, samplerVars, threadVars, opVars, drainVars, log, stopped>>

-----------------------------------------------------------------------------
(* ProfilerRun.__exit__, on the owner thread.                               *)

ExitLook(r) ==
  /\ MayAct(r) /\ stage[r] = "entered"
  /\ stage' = [stage EXCEPT ![r] = IF sampler = r THEN "stop" ELSE "drain"]
  /\ atExit' = [o \in Ops |-> IF owner[o] = r THEN made[o] ELSE atExit[o]]
  /\ UNCHANGED <<active, closed, failedExit, owner, hist, made, samplerVars,
                 threadVars, drainVars, tickVars, log, stopped>>

ExitStop(r) ==
  /\ stage[r] = "stop"
  /\ TakeSampler /\ Joinable
  /\ stage' = [stage EXCEPT ![r] = "join"]
  /\ UNCHANGED <<active, closed, failedExit, threadVars, opVars, drainVars,
                 tickVars, log, stopped>>

(* Another thread stopped the sampler first, or has not started it yet:     *)
(* stop_sampling() raises, and the handler skips the rest of the try block. *)
ExitFails(r) ==
  /\ stage[r] = "stop"
  /\ \/ sampler = NoRun /\ UNCHANGED samplerVars
     \/ TakeSampler /\ ~Joinable
  /\ failedExit' = failedExit \cup {r}
  /\ stage' = [stage EXCEPT ![r] = "close"]
  /\ UNCHANGED <<active, closed, threadVars, opVars, drainVars,
                 tickVars, log, stopped>>

ExitJoin(r) ==
  /\ stage[r] = "join"
  /\ Joined(r)
  /\ Record("sample", r)
  /\ stage' = [stage EXCEPT ![r] = "drain"]
  /\ UNCHANGED <<active, closed, failedExit, samplerVars, threadVars, opVars,
                 drainVars, tickVars, stopped>>

ExitCopy(r) ==
  /\ stage[r] = "drain"
  /\ todo' = [todo EXCEPT ![r] = OpsOf(r)]
  /\ stage' = [stage EXCEPT ![r] = "draining"]
  /\ UNCHANGED <<held, shipped, lost, active, closed, failedExit, samplerVars,
                 threadVars, opVars, tickVars, log, stopped>>

WrongReady(r) == stage[r] \in {"drain", "draining"} /\ held[r] = NoCalls
Ready(r) == Drained(r)

Complete(r) ==
  /\ Ready(r)
  /\ Record("complete", r)
  /\ stage' = [stage EXCEPT ![r] = "flush"]
  /\ UNCHANGED <<active, closed, failedExit, samplerVars, threadVars, opVars,
                 drainVars, tickVars, stopped>>

(* flush() returned: drained, or flush_timeout_s is over.                   *)
ExitFlush(r) ==
  /\ stage[r] = "flush"
  /\ stage' = [stage EXCEPT ![r] = "close"]
  /\ UNCHANGED <<active, closed, failedExit, samplerVars, threadVars, opVars,
                 drainVars, tickVars, log, stopped>>

CloseRun(r) ==
  /\ stage[r] = "close"
  /\ closed' = [closed EXCEPT ![r] = TRUE]
  /\ stage' = [stage EXCEPT ![r] = "clear"]
  /\ UNCHANGED <<active, failedExit, samplerVars, threadVars, opVars, drainVars,
                 tickVars, log, stopped>>

Clear(r) ==
  /\ stage[r] = "clear"
  /\ active' = NoRun
  /\ stage' = [stage EXCEPT ![r] = "left"]
  /\ UNCHANGED <<closed, failedExit, samplerVars, threadVars, opVars, drainVars,
                 tickVars, log, stopped>>

-----------------------------------------------------------------------------

Thread(t) ==
  \/ \E r \in Runs : Use(t, r)
  \/ \E o \in Ops : CreateOp(t, o) \/ OpCall(t, o)
  \/ SpanEnter(t) \/ SpanExit(t)
  \/ StartSampling(t) \/ InitialSample(t)
  \/ StopSampling(t) \/ JoinOver(t) \/ Shutdown(t) \/ CloseSender(t)

Sampling(r) == SamplerWake(r) \/ SamplerEmit(r)

Drain(d) == \E o \in Ops : Swap(d, o) \/ EmitStats(d, o)

Tick == TickBegin \/ TickLook \/ TickCopy \/ Drain(Ticker) \/ TickOver

Exit(r) ==
  \/ ExitStop(r) \/ ExitFails(r) \/ ExitJoin(r) \/ ExitCopy(r) \/ Drain(r)
  \/ Complete(r) \/ ExitFlush(r) \/ CloseRun(r) \/ Clear(r)

Next ==
  \/ \E r \in Runs : Claim(r) \/ Enter(r) \/ Sampling(r) \/ ExitLook(r) \/ Exit(r)
  \/ \E t \in Threads : Thread(t)
  \/ Tick

Spec == Init /\ [][Next]_vars

(* An owner inside __exit__ keeps running: every wait there has a timeout.  *)
(* Nothing is said of on_tick, which a busy queue keeps from coming again   *)
(* (module Summaries).                                                      *)
Fairness == \A r \in Runs : WF_vars(Exit(r))
FairSpec == Spec /\ Fairness

-----------------------------------------------------------------------------
(* Properties *)

Stages == {"new", "claimed", "entered", "stop", "join", "drain", "draining",
           "flush", "close", "clear", "left"}

Doings == {"idle", "using", "span", "slow", "starting", "joining", "joinShutdown", "closing"}

(* Every variable keeps its type. *)
TypeOK ==
  /\ active \in Runs \cup {NoRun}
  /\ stage \in [Runs -> Stages]
  /\ closed \in [Runs -> BOOLEAN]
  /\ failedExit \subseteq Runs
  /\ sampler \in Runs \cup {NoRun}
  /\ samplerThread \in [Runs -> {"none", "waiting", "taking", "ended"}]
  /\ stopFlag \in [Runs -> BOOLEAN]
  /\ samples \in [Runs -> Nat]
  /\ doing \in [Threads -> Doings]
  /\ target \in [Threads -> Runs \cup {NoRun}]
  /\ spans \in Nat
  /\ openSpans \in [Runs -> Nat]
  /\ owner \in [Ops -> Runs \cup {NoRun}]
  /\ todo \in [Drainers -> SUBSET Ops]
  /\ held \in [Drainers -> [Ops -> Nat]]
  /\ {hist, made, atExit, shipped, lost} \subseteq [Ops -> Nat]
  /\ tick \in {"idle", "begun", "looked", "draining"}
  /\ tickRun \in Runs \cup {NoRun}
  /\ log \in Seq(Items)
  /\ stopped \in BOOLEAN

(* One run at a time: the run between __enter__ and the end of __exit__ is  *)
(* the active run, so __exit__ clears its own run and on_tick drains it.    *)
OneActiveRun ==
  \A r \in Runs : stage[r] \notin {"new", "left"} <=> active = r

(* sender.py promises that a run's creation is sent before its data.        *)
CreationFirst ==
  \A i \in 1..Len(log) : \E j \in 1..i :
    log[j].run = log[i].run /\ log[j].kind = "run"

(* What a drainer has swapped out of the histogram of o and not enqueued.   *)
HeldOf(o) == held[Ticker][o] + IF owner[o] \in Runs THEN held[owner[o]][o] ELSE 0

(* Each timed call is in the histogram, in a drainer's hands, enqueued or   *)
(* refused, and counted once, although two threads drain one Op.            *)
CallsConserved ==
  \A o \in Ops : made[o] = hist[o] + HeldOf(o) + shipped[o] + lost[o]

(* The final drain is complete: once "complete" is enqueued, each call timed*)
(* before __exit__ began was handed to enqueue or is in on_tick's hands.    *)
FinalDrain ==
  \A o \in Ops : \A i \in 1..Len(log) :
    log[i].kind = "complete" /\ log[i].run = owner[o] =>
      atExit[o] <= shipped[o] + lost[o] + held[Ticker][o]

(* sender.py promises that a run's completion is sent after its data.       *)
CompletionLast ==
  \A i, j \in 1..Len(log) :
    i < j /\ log[i].kind = "complete" => log[j].run # log[i].run

(* README: on exit the run queues /complete, even if the block raised.      *)
LeftRunIsCompleted ==
  \A r \in Runs : stage[r] = "left" /\ ~stopped =>
    \E i \in 1..Len(log) : log[i].kind = "complete" /\ log[i].run = r

(* Leaving a run always comes to an end, whatever the sampler, the sender   *)
(* and the other threads do.                                                *)
ExitReturns == \A r \in Runs : stage[r] = "stop" \/ stage[r] = "drain" ~> stage[r] = "left"
=============================================================================
