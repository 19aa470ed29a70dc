---------------------------- MODULE ClientProofs ----------------------------
(***************************************************************************)
(* Proofs about ProfilerClient, for any runs, threads, operations and      *)
(* bounds: types, one run at a time, no completion before the creation,    *)
(* every call counted once, and a complete final drain; and about          *)
(* Activity, the signal that wakes the client's sampler, for any threads.  *)
(***************************************************************************)
EXTENDS ProfilerClient, Activity, FiniteSetTheorems, TLAPS

\* The creation of r is in the log.
Created(r) == \E j \in 1..Len(log) : log[j].run = r /\ log[j].kind = "run"

\* __enter__ of r is over.
Entered(r) == stage[r] \notin {"new", "claimed"}

\* sender.py sends what is enqueued in that order: a run's completion is never
\* enqueued before its creation.
CreationBeforeCompletion ==
  \A i \in 1..Len(log) : log[i].kind = "complete" =>
    \E j \in 1..i : log[j].run = log[i].run /\ log[j].kind = "run"

\* A run that was entered was created, if the sender was not stopped.
LogOK ==
  /\ CreationBeforeCompletion
  /\ \A r \in Runs : Entered(r) => stopped \/ Created(r)

\* A thread that is in the middle of something is so for a run.
HandsOK ==
  \A t \in Threads :
    doing[t] \in {"using", "span", "slow", "joining", "joinShutdown"} => target[t] \in Runs

\* The spans that are open, by the threads inside them.
Inside(r) == {t \in Threads : doing[t] = "span" /\ target[t] = r}
SpansOK == \A r \in Runs : IsFiniteSet(Inside(r)) /\ openSpans[r] = Cardinality(Inside(r))

\* A run's owner drains the operations of that run alone.
OwnOps ==
  \A o \in Ops :
    /\ owner[o] = NoRun => made[o] = 0 /\ atExit[o] = 0
    /\ \A r \in Runs : held[r][o] # 0 \/ o \in todo[r] => owner[o] = r

\* The calls of o that left the histogram for good, or that the ticker holds.
Out(o) == shipped[o] + lost[o] + held[Ticker][o]

\* What the exit has drained so far.
DrainOK ==
  /\ \A o \in Ops : atExit[o] <= made[o]
  /\ \A r \in Runs, o \in Ops :
       owner[o] = r /\ stage[r] = "draining" /\ o \notin todo[r] => atExit[o] <= Out(o) + held[r][o]
  /\ \A i \in 1..Len(log) :
       log[i].kind = "complete" => stage[log[i].run] \in {"flush", "close", "clear", "left"}
  /\ FinalDrain

IInv == TypeOK /\ OneActiveRun /\ LogOK /\ HandsOK /\ SpansOK /\ OwnOps /\ CallsConserved /\ DrainOK

-----------------------------------------------------------------------------
(* Recording *)

\* enqueue leaves a log of items, and only adds to its end.
LEMMA RecordAppends ==
  ASSUME NEW r, NEW kind, Record(kind, r)
  PROVE  \/ UNCHANGED log
         \/ ~stopped /\ log' = Append(log, [kind |-> kind, run |-> r, id |-> Len(log) + 1])
  BY DEF Record, Accepts, Refuses

\* What an append leaves and adds.
LEMMA Appended ==
  ASSUME log \in Seq(Items), NEW x \in Items, log' = Append(log, x)
  PROVE  /\ Len(log') = Len(log) + 1 /\ log'[Len(log) + 1] = x
         /\ \A i \in 1..Len(log) : log'[i] = log[i]
  OBVIOUS

\* A step adds at most one item; the exit alone completes.
LogStep ==
  \/ UNCHANGED log
  \/ /\ ~stopped
     /\ \E r \in Runs, kind \in Kinds :
          /\ log' = Append(log, [kind |-> kind, run |-> r, id |-> Len(log) + 1])
          /\ kind = "complete" => Complete(r)

\* Every step of the client is one of these.
LEMMA LogSteps ==
  ASSUME IInv, Next PROVE LogStep
<1> USE ClientAssumption DEF Threads, Drainers
<1>1. TypeOK /\ HandsOK /\ OwnOps /\ CallsConserved
  BY DEF IInv
<1>2. ASSUME NEW r \in Runs, NEW kind \in Kinds \ {"complete"}, Record(kind, r)
      PROVE  LogStep
  <2>1. kind # "complete" /\ kind \in Kinds
    OBVIOUS
  <2> QED BY <1>2, <2>1, RecordAppends DEF LogStep
<1>3. {"run", "sample", "span", "op_stats"} \subseteq Kinds \ {"complete"} /\ "complete" \in Kinds
  BY DEF Kinds, DataKinds, ControlKinds
<1>4. ASSUME NEW r \in Runs, Enter(r) PROVE LogStep
  BY <1>2, <1>3, <1>4 DEF Enter
<1>5. ASSUME NEW t \in Threads, InitialSample(t) PROVE LogStep
  <2>1. CASE UNCHANGED log
    BY <2>1 DEF LogStep
  <2>2. CASE ~UNCHANGED log
    <3>1. sampler \in Runs /\ Record("sample", sampler)
      BY <1>1, <1>5, <2>2 DEF InitialSample, TypeOK
    <3> QED BY <1>2, <1>3, <3>1
  <2> QED BY <2>1, <2>2
<1>6. ASSUME NEW r \in Runs, ExitJoin(r) \/ SamplerEmit(r) PROVE LogStep
  <2>1. Record("sample", r)
    BY <1>6 DEF ExitJoin, SamplerEmit
  <2> QED BY <1>2, <1>3, <2>1
<1>7. ASSUME NEW t \in Threads, SpanExit(t) \/ JoinOver(t) PROVE LogStep
  <2>1. target[t] \in Runs /\ \E kind \in {"span", "sample"} : Record(kind, target[t])
    BY <1>1, <1>7 DEF SpanExit, JoinOver, HandsOK
  <2> QED BY <1>2, <1>3, <2>1
<1>8. ASSUME NEW d \in Drainers, NEW o \in Ops, EmitStats(d, o) PROVE LogStep
  <2>1. Record("op_stats", owner[o])
    BY <1>8 DEF EmitStats, Record
  <2>2. owner[o] \in Runs
    <3>1. held[d][o] # 0
      BY <1>1, <1>8 DEF EmitStats, TypeOK
    <3>2. owner[o] # NoRun
      <4>1. CASE d \in Runs
        BY <1>1, <3>1, <4>1 DEF OwnOps, TypeOK
      <4>2. CASE d = Ticker
        <5>1. /\ made[o] \in Nat /\ hist[o] \in Nat /\ shipped[o] \in Nat /\ lost[o] \in Nat
              /\ held[Ticker][o] \in Nat /\ made[o] = hist[o] + HeldOf(o) + shipped[o] + lost[o]
          BY <1>1 DEF TypeOK, CallsConserved
        <5>2. ASSUME owner[o] = NoRun PROVE FALSE
          <6>1. made[o] = 0
            BY <1>1, <5>2 DEF OwnOps
          <6>2. HeldOf(o) = held[Ticker][o] + 0
            BY <5>2 DEF HeldOf
          <6> QED BY <3>1, <4>2, <5>1, <6>1, <6>2
        <5> QED BY <5>2
      <4> QED BY <4>1, <4>2
    <3> QED BY <1>1, <3>2 DEF TypeOK
  <2> QED BY <1>2, <1>3, <2>1, <2>2
<1>9. ASSUME NEW r \in Runs, Complete(r) PROVE LogStep
  <2>1. Record("complete", r)
    BY <1>9 DEF Complete
  <2> QED BY <1>3, <1>9, <2>1, RecordAppends DEF LogStep
<1>10. ASSUME NEW r \in Runs,
             \/ Claim(r) \/ SamplerWake(r) \/ ExitLook(r)
             \/ ExitStop(r) \/ ExitFails(r) \/ ExitCopy(r) \/ ExitFlush(r)
             \/ CloseRun(r) \/ Clear(r)
      PROVE  LogStep
  <2>1. UNCHANGED log
    BY <1>10 DEF Claim, SamplerWake, ExitLook, ExitStop, ExitFails,
              ExitCopy, ExitFlush, CloseRun, Clear, TakeSampler
  <2> QED BY <2>1 DEF LogStep
<1>11. ASSUME NEW t \in Threads,
             \/ (\E r \in Runs : Use(t, r)) \/ SpanEnter(t)
             \/ (\E o \in Ops : CreateOp(t, o) \/ OpCall(t, o)) \/ StartSampling(t)
             \/ StopSampling(t) \/ Shutdown(t) \/ CloseSender(t)
      PROVE  LogStep
  <2>1. UNCHANGED log
    BY <1>11 DEF Use, SpanEnter, CreateOp, OpCall, StartSampling, StopSampling, Shutdown,
              CloseSender, TakeSampler
  <2> QED BY <2>1 DEF LogStep
<1>12. ASSUME NEW d \in Drainers, NEW o \in Ops,
             Swap(d, o)
      PROVE  LogStep
  <2>1. UNCHANGED log
    BY <1>12 DEF Swap
  <2> QED BY <2>1 DEF LogStep
<1>13. ASSUME \/ TickBegin \/ TickLook \/ TickCopy \/ TickOver
      PROVE  LogStep
  <2>1. UNCHANGED log
    BY <1>13 DEF TickBegin, TickLook, TickCopy, TickOver
  <2> QED BY <2>1 DEF LogStep
<1> QED
  <2>1. CASE \E r \in Runs : Claim(r) \/ Enter(r) \/ ExitLook(r) \/ Sampling(r)
    BY <2>1, <1>4, <1>6, <1>10 DEF Sampling
  <2>2. CASE \E r \in Runs : Exit(r)
    BY <2>2, <1>6, <1>8, <1>9, <1>10, <1>12 DEF Exit, Drain
  <2>3. CASE \E t \in Threads : Thread(t)
    BY <2>3, <1>5, <1>7, <1>11 DEF Thread
  <2>4. CASE Tick
    BY <2>4, <1>8, <1>12, <1>13 DEF Tick, Drain
  <2> QED BY <2>1, <2>2, <2>3, <2>4 DEF Next

-----------------------------------------------------------------------------
(* Runs and the log *)

\* A run is entered once and for all, and a stopped sender stays so.
LEMMA Forward ==
  ASSUME IInv, Next
  PROVE  (stopped => stopped') /\ \A r \in Runs : Entered(r) => Entered(r)'
<1> USE DEF runVars, samplerVars, threadVars, opVars, drainVars, tickVars, Threads, Drainers
<1>1. TypeOK
  BY DEF IInv
<1>2. ASSUME NEW q \in Runs,
             \/ Claim(q) \/ Enter(q) \/ ExitLook(q) \/ ExitStop(q) \/ ExitFails(q) \/ ExitJoin(q)
             \/ ExitCopy(q) \/ Complete(q) \/ ExitFlush(q) \/ CloseRun(q) \/ Clear(q)
      PROVE  (stopped => stopped') /\ \A r \in Runs : Entered(r) => Entered(r)'
  BY <1>1, <1>2 DEF Claim, Enter, ExitLook, ExitStop, ExitFails, ExitJoin, ExitCopy,
       Complete, Ready,
                    Drained, Draining, ExitFlush, CloseRun, Clear, Entered, TypeOK
<1>3. ASSUME NEW t \in Threads, CloseSender(t)
      PROVE  (stopped => stopped') /\ \A r \in Runs : Entered(r) => Entered(r)'
  BY <1>3 DEF CloseSender, Entered
<1>4. ASSUME NEW q \in Runs,
             \/ SamplerWake(q)
             \/ SamplerEmit(q)
      PROVE  (stopped => stopped') /\ \A r \in Runs : Entered(r) => Entered(r)'
  <2>1. UNCHANGED <<stage, stopped>>
    BY <1>4 DEF SamplerWake, SamplerEmit
  <2> QED BY <2>1 DEF Entered
<1>5. ASSUME NEW t \in Threads,
             \/ (\E q \in Runs : Use(t, q)) \/ SpanEnter(t) \/ StartSampling(t) \/ InitialSample(t)
             \/ SpanExit(t)
             \/ (\E p \in Ops : CreateOp(t, p))
             \/ (\E p \in Ops : OpCall(t, p)) \/ StopSampling(t) \/ JoinOver(t)
             \/ Shutdown(t)
      PROVE  (stopped => stopped') /\ \A r \in Runs : Entered(r) => Entered(r)'
  <2>1. UNCHANGED <<stage, stopped>>
    BY <1>5 DEF Use, SpanEnter, StartSampling, InitialSample, SpanExit, CreateOp, OpCall, StopSampling, JoinOver, Shutdown,
              TakeSampler
  <2> QED BY <2>1 DEF Entered
<1>6. ASSUME NEW d \in Drainers, NEW p \in Ops,
             \/ Swap(d, p) \/ EmitStats(d, p)
      PROVE  (stopped => stopped') /\ \A r \in Runs : Entered(r) => Entered(r)'
  <2>1. UNCHANGED <<stage, stopped>>
    BY <1>6 DEF Swap, EmitStats
  <2> QED BY <2>1 DEF Entered
<1>7. ASSUME \/ TickBegin \/ TickLook \/ TickCopy \/ TickOver
      PROVE  (stopped => stopped') /\ \A r \in Runs : Entered(r) => Entered(r)'
  <2>1. UNCHANGED <<stage, stopped>>
    BY <1>7 DEF TickBegin, TickLook, TickCopy, TickOver
  <2> QED BY <2>1 DEF Entered
<1> QED
  <2>1. CASE \E r \in Runs : Claim(r) \/ Enter(r) \/ ExitLook(r) \/ Sampling(r)
    BY <2>1, <1>2, <1>4 DEF Sampling
  <2>2. CASE \E r \in Runs : Exit(r)
    BY <2>2, <1>2, <1>6 DEF Exit, Drain
  <2>3. CASE \E t \in Threads : Thread(t)
    BY <2>3, <1>3, <1>5 DEF Thread
  <2>4. CASE Tick
    BY <2>4, <1>6, <1>7 DEF Tick, Drain
  <2> QED BY <2>1, <2>2, <2>3, <2>4 DEF Next

\* One run at a time.
LEMMA RunsKept ==
  ASSUME IInv, Next PROVE OneActiveRun'
<1> USE DEF runVars, samplerVars, threadVars, opVars, drainVars, tickVars, Threads, Drainers
<1>1. TypeOK /\ OneActiveRun
  BY DEF IInv
<1>2. ASSUME NEW q \in Runs, Claim(q) PROVE OneActiveRun'
  BY <1>1, <1>2, ClientAssumption DEF Claim, Free, OneActiveRun, TypeOK
<1>3. ASSUME NEW q \in Runs, Clear(q) PROVE OneActiveRun'
  BY <1>1, <1>3, ClientAssumption DEF Clear, OneActiveRun, TypeOK
<1>4. ASSUME NEW q \in Runs,
             \/ Enter(q) \/ ExitLook(q) \/ ExitStop(q) \/ ExitFails(q) \/ ExitJoin(q)
             \/ ExitCopy(q) \/ Complete(q) \/ ExitFlush(q) \/ CloseRun(q)
      PROVE  OneActiveRun'
  <2>1. \E s \in Stages \ {"new", "left"} : stage' = [stage EXCEPT ![q] = s]
    BY <1>4 DEF Enter, ExitLook, ExitStop, ExitFails, ExitJoin, ExitCopy, Complete,
         ExitFlush, CloseRun, Stages
  <2>2. stage[q] \notin {"new", "left"} /\ UNCHANGED active
    BY <1>4, ClientAssumption
       DEF Enter, ExitLook, ExitStop, ExitFails, ExitJoin, ExitCopy, Complete, Ready,
            Drained, Draining,
           ExitFlush, CloseRun
  <2> QED BY <1>1, <2>1, <2>2 DEF OneActiveRun, TypeOK
<1>5. ASSUME NEW r \in Runs,
             \/ SamplerWake(r)
             \/ SamplerEmit(r)
      PROVE  OneActiveRun'
  <2>1. UNCHANGED <<stage, active>>
    BY <1>5 DEF SamplerWake, SamplerEmit
  <2> QED BY <1>1, <2>1 DEF OneActiveRun
<1>6. ASSUME NEW t \in Threads,
             \/ (\E r \in Runs : Use(t, r)) \/ SpanEnter(t) \/ StartSampling(t) \/ InitialSample(t)
             \/ SpanExit(t)
             \/ (\E o \in Ops : CreateOp(t, o))
             \/ (\E o \in Ops : OpCall(t, o)) \/ StopSampling(t) \/ JoinOver(t)
             \/ Shutdown(t) \/ CloseSender(t)
      PROVE  OneActiveRun'
  <2>1. UNCHANGED <<stage, active>>
    BY <1>6 DEF Use, SpanEnter, StartSampling, InitialSample, SpanExit, CreateOp, OpCall, StopSampling, JoinOver, Shutdown,
              CloseSender, TakeSampler
  <2> QED BY <1>1, <2>1 DEF OneActiveRun
<1>7. ASSUME NEW d \in Drainers, NEW o \in Ops,
             \/ Swap(d, o) \/ EmitStats(d, o)
      PROVE  OneActiveRun'
  <2>1. UNCHANGED <<stage, active>>
    BY <1>7 DEF Swap, EmitStats
  <2> QED BY <1>1, <2>1 DEF OneActiveRun
<1>8. ASSUME \/ TickBegin \/ TickLook \/ TickCopy \/ TickOver
      PROVE  OneActiveRun'
  <2>1. UNCHANGED <<stage, active>>
    BY <1>8 DEF TickBegin, TickLook, TickCopy, TickOver
  <2> QED BY <1>1, <2>1 DEF OneActiveRun
<1> QED
  <2>1. CASE \E r \in Runs : Claim(r) \/ Enter(r) \/ ExitLook(r) \/ Sampling(r)
    BY <2>1, <1>2, <1>4, <1>5 DEF Sampling
  <2>2. CASE \E r \in Runs : Exit(r)
    BY <2>2, <1>3, <1>4, <1>7 DEF Exit, Drain
  <2>3. CASE \E t \in Threads : Thread(t)
    BY <2>3, <1>6 DEF Thread
  <2>4. CASE Tick
    BY <2>4, <1>7, <1>8 DEF Tick, Drain
  <2> QED BY <2>1, <2>2, <2>3, <2>4 DEF Next

\* Enter alone enters a run.
LEMMA EnteredByEnter ==
  ASSUME TypeOK, Next, NEW r \in Runs, Entered(r)', ~Entered(r)
  PROVE  Enter(r)
<1> USE DEF runVars, samplerVars, threadVars, opVars, drainVars, tickVars, Threads, Drainers
<1>1. ASSUME NEW q \in Runs, Claim(q) PROVE Enter(r)
  BY <1>1 DEF Claim, Entered, TypeOK
<1>2. ASSUME NEW q \in Runs, Enter(q) PROVE Enter(r)
  BY <1>2 DEF Enter, Entered, TypeOK
<1>3. ASSUME NEW q \in Runs,
             \/ ExitLook(q) \/ ExitStop(q) \/ ExitFails(q) \/ ExitJoin(q)
             \/ ExitCopy(q) \/ Complete(q) \/ ExitFlush(q) \/ CloseRun(q) \/ Clear(q)
      PROVE  Enter(r)
  BY <1>3, ClientAssumption
     DEF ExitLook, ExitStop, ExitFails, ExitJoin, ExitCopy, Complete, Ready, Drained,
          Draining, ExitFlush, CloseRun, Clear, Entered, TypeOK
<1>4. ASSUME NEW q \in Runs,
             \/ SamplerWake(q)
             \/ SamplerEmit(q)
      PROVE  Enter(r)
  <2>1. UNCHANGED stage
    BY <1>4 DEF SamplerWake, SamplerEmit
  <2> QED BY <2>1 DEF Entered
<1>5. ASSUME NEW t \in Threads,
             \/ (\E q \in Runs : Use(t, q)) \/ SpanEnter(t) \/ StartSampling(t) \/ InitialSample(t)
             \/ SpanExit(t)
             \/ (\E p \in Ops : CreateOp(t, p))
             \/ (\E p \in Ops : OpCall(t, p)) \/ StopSampling(t) \/ JoinOver(t)
             \/ Shutdown(t) \/ CloseSender(t)
      PROVE  Enter(r)
  <2>1. UNCHANGED stage
    BY <1>5 DEF Use, SpanEnter, StartSampling, InitialSample, SpanExit, CreateOp, OpCall, StopSampling, JoinOver, Shutdown,
              CloseSender, TakeSampler
  <2> QED BY <2>1 DEF Entered
<1>6. ASSUME NEW d \in Drainers, NEW p \in Ops,
             \/ Swap(d, p) \/ EmitStats(d, p)
      PROVE  Enter(r)
  <2>1. UNCHANGED stage
    BY <1>6 DEF Swap, EmitStats
  <2> QED BY <2>1 DEF Entered
<1>7. ASSUME \/ TickBegin \/ TickLook \/ TickCopy \/ TickOver
      PROVE  Enter(r)
  <2>1. UNCHANGED stage
    BY <1>7 DEF TickBegin, TickLook, TickCopy, TickOver
  <2> QED BY <2>1 DEF Entered
<1> QED
  <2>1. CASE \E q \in Runs : Claim(q) \/ Enter(q) \/ ExitLook(q) \/ Sampling(q)
    BY <2>1, <1>1, <1>2, <1>3, <1>4 DEF Sampling
  <2>2. CASE \E q \in Runs : Exit(q)
    BY <2>2, <1>3, <1>6 DEF Exit, Drain
  <2>3. CASE \E t \in Threads : Thread(t)
    BY <2>3, <1>5 DEF Thread
  <2>4. CASE Tick
    BY <2>4, <1>6, <1>7 DEF Tick, Drain
  <2> QED BY <2>1, <2>2, <2>3, <2>4 DEF Next

\* A creation is refused by a stopped sender only.
LEMMA EnterRecords ==
  ASSUME log \in Seq(Items), NEW r \in Runs, Enter(r), UNCHANGED log PROVE stopped
<1>1. CASE Accepts("run", r)
  <2>1. log' = Append(log, [kind |-> "run", run |-> r, id |-> Len(log) + 1]) /\ Len(log') = Len(log)
    BY <1>1 DEF Accepts
  <2>2. [kind |-> "run", run |-> r, id |-> Len(log) + 1] \in Items
    BY DEF Items, Kinds, ControlKinds
  <2> QED BY <2>1, <2>2, Appended
<1>2. CASE Refuses("run")
  BY <1>2 DEF Refuses, DataKinds
<1> QED BY <1>1, <1>2 DEF Enter, Record

\* The creation comes before the completion.
LEMMA LogKept ==
  ASSUME IInv, Next PROVE LogOK'
<1>1. TypeOK /\ LogOK /\ LogStep /\ log \in Seq(Items)
  BY LogSteps DEF IInv, TypeOK
<1>2. CASE UNCHANGED log
  <2>1. CreationBeforeCompletion' /\ \A r \in Runs : Created(r)' = Created(r)
    BY <1>1, <1>2 DEF LogOK, CreationBeforeCompletion, Created
  <2>2. ASSUME NEW r \in Runs, Entered(r)' PROVE stopped' \/ Created(r)'
    <3>1. CASE Entered(r)
      BY <1>1, <2>1, <3>1, Forward DEF LogOK
    <3>2. CASE ~Entered(r)
      <4>1. Enter(r)
        BY <1>1, <2>2, <3>2, EnteredByEnter
      <4>2. stopped
        BY <1>1, <1>2, <4>1, EnterRecords
      <4> QED BY <4>2, Forward
    <3> QED BY <3>1, <3>2
  <2> QED BY <2>1, <2>2 DEF LogOK
<1>3. CASE ~UNCHANGED log
  <2>1. PICK r \in Runs, kind \in Kinds :
          /\ ~stopped
          /\ log' = Append(log, [kind |-> kind, run |-> r, id |-> Len(log) + 1])
          /\ kind = "complete" => Complete(r)
    BY <1>1, <1>3 DEF LogStep
  <2> DEFINE x == [kind |-> kind, run |-> r, id |-> Len(log) + 1]
  <2>2. x \in Items /\ x.kind = kind /\ x.run = r
    BY <1>1 DEF Items
  <2>3. /\ Len(log') = Len(log) + 1 /\ log'[Len(log) + 1] = x /\ Len(log) \in Nat
        /\ \A i \in 1..Len(log) : log'[i] = log[i]
    BY <1>1, <2>1, <2>2, Appended
  <2>4. \A q \in Runs : Created(q) => Created(q)'
    BY <2>3 DEF Created
  <2>5. kind = "complete" => Created(r)
    <3>1. ASSUME kind = "complete" PROVE Entered(r)
      BY <2>1, <3>1, ClientAssumption DEF Complete, Ready, Drained, Draining, Entered
    <3> QED BY <1>1, <2>1, <3>1 DEF LogOK
  <2>6. CreationBeforeCompletion'
    <3> SUFFICES ASSUME NEW i \in 1..Len(log'), log'[i].kind = "complete"
                 PROVE  \E j \in 1..i : log'[j].run = log'[i].run /\ log'[j].kind = "run"
      BY DEF CreationBeforeCompletion
    <3>1. CASE i \in 1..Len(log)
      <4>1. PICK j \in 1..i : log[j].run = log[i].run /\ log[j].kind = "run"
        BY <1>1, <2>3, <3>1 DEF LogOK, CreationBeforeCompletion
      <4>2. j \in 1..Len(log)
        BY <2>3, <3>1
      <4> QED BY <2>3, <3>1, <4>1, <4>2
    <3>2. CASE i = Len(log) + 1
      <4>1. PICK j \in 1..Len(log') : log'[j].run = r /\ log'[j].kind = "run"
        BY <2>2, <2>3, <2>4, <2>5, <3>2 DEF Created
      <4> QED BY <2>2, <2>3, <3>2, <4>1
    <3> QED BY <2>3, <3>1, <3>2
  <2>7. ASSUME NEW q \in Runs, Entered(q)' PROVE stopped' \/ Created(q)'
    <3>1. CASE Entered(q)
      BY <1>1, <2>1, <2>4, <3>1 DEF LogOK
    <3>2. CASE ~Entered(q)
      <4>1. Enter(q)
        BY <1>1, <2>7, <3>2, EnteredByEnter
      <4>2. Record("run", q) /\ ~stopped
        BY <2>1, <4>1 DEF Enter
      <4>3. log' = Append(log, [kind |-> "run", run |-> q, id |-> Len(log) + 1])
        BY <4>2 DEF Record, Accepts, Refuses, DataKinds
      <4>4. [kind |-> "run", run |-> q, id |-> Len(log) + 1] \in Items
        BY <1>1 DEF Items, Kinds, ControlKinds
      <4>5. log'[Len(log) + 1] = [kind |-> "run", run |-> q, id |-> Len(log) + 1]
        BY <1>1, <4>3, <4>4, Appended
      <4> QED BY <2>3, <4>5 DEF Created
    <3> QED BY <3>1, <3>2
  <2> QED BY <2>6, <2>7 DEF LogOK
<1> QED BY <1>2, <1>3

-----------------------------------------------------------------------------
(* Who holds what *)

\* Whatever a thread begins, it begins for a run.
LEMMA HandsKept ==
  ASSUME IInv, Next PROVE HandsOK'
<1> USE DEF runVars, samplerVars, threadVars, opVars, drainVars, tickVars, Drainers
<1>1. TypeOK /\ HandsOK
  BY DEF IInv
<1>2. ASSUME NEW t \in Threads, NEW r \in Runs, Use(t, r) PROVE HandsOK'
  BY <1>1, <1>2 DEF Use, HandsOK, TypeOK
<1>3. ASSUME NEW t \in Threads, SpanEnter(t) PROVE HandsOK'
  BY <1>1, <1>3 DEF SpanEnter, HandsOK, TypeOK
<1>4. ASSUME NEW t \in Threads, SpanExit(t) PROVE HandsOK'
  BY <1>1, <1>4 DEF SpanExit, HandsOK, TypeOK
<1>5. ASSUME NEW t \in Threads, NEW o \in Ops, CreateOp(t, o) PROVE HandsOK'
  BY <1>1, <1>5 DEF CreateOp, HandsOK, TypeOK
<1>6. ASSUME NEW t \in Threads, NEW o \in Ops, OpCall(t, o) PROVE HandsOK'
  BY <1>1, <1>6 DEF OpCall, HandsOK, TypeOK
<1>7. ASSUME NEW t \in Threads, StartSampling(t) PROVE HandsOK'
  BY <1>1, <1>7 DEF StartSampling, HandsOK, TypeOK
<1>8. ASSUME NEW t \in Threads, InitialSample(t) PROVE HandsOK'
  BY <1>1, <1>8 DEF InitialSample, HandsOK, TypeOK
<1>9. ASSUME NEW t \in Threads, StopSampling(t) PROVE HandsOK'
  BY <1>1, <1>9 DEF StopSampling, TakeSampler, HandsOK, TypeOK
<1>10. ASSUME NEW t \in Threads, JoinOver(t) PROVE HandsOK'
  BY <1>1, <1>10 DEF JoinOver, HandsOK, TypeOK
<1>11. ASSUME NEW t \in Threads, Shutdown(t) PROVE HandsOK'
  BY <1>1, <1>11 DEF Shutdown, TakeSampler, HandsOK, TypeOK
<1>12. ASSUME NEW t \in Threads, CloseSender(t) PROVE HandsOK'
  BY <1>1, <1>12 DEF CloseSender, HandsOK, TypeOK
<1>13. ASSUME NEW r \in Runs,
             \/ Claim(r) \/ Enter(r) \/ SamplerWake(r) \/ SamplerEmit(r) \/ ExitLook(r)
             \/ ExitStop(r) \/ ExitFails(r) \/ ExitJoin(r) \/ ExitCopy(r) \/ Complete(r)
             \/ ExitFlush(r) \/ CloseRun(r) \/ Clear(r)
      PROVE  HandsOK'
  <2>1. UNCHANGED <<doing, target>>
    BY <1>13 DEF Claim, Enter, SamplerWake, SamplerEmit, ExitLook, ExitStop, ExitFails,
              ExitJoin, ExitCopy, Complete, ExitFlush, CloseRun, Clear
  <2> QED BY <1>1, <2>1 DEF HandsOK
<1>14. ASSUME NEW d \in Drainers, NEW o \in Ops, Swap(d, o) \/ EmitStats(d, o) PROVE HandsOK'
  <2>1. UNCHANGED <<doing, target>>
    BY <1>14 DEF Swap, EmitStats
  <2> QED BY <1>1, <2>1 DEF HandsOK
<1>15. ASSUME TickBegin \/ TickLook \/ TickCopy \/ TickOver PROVE HandsOK'
  <2>1. UNCHANGED <<doing, target>>
    BY <1>15 DEF TickBegin, TickLook, TickCopy, TickOver
  <2> QED BY <1>1, <2>1 DEF HandsOK
<1> QED
  <2>1. CASE \E r \in Runs : Claim(r) \/ Enter(r) \/ ExitLook(r) \/ Sampling(r)
    BY <2>1, <1>13 DEF Sampling
  <2>2. CASE \E r \in Runs : Exit(r)
    BY <2>2, <1>13, <1>14 DEF Exit, Drain
  <2>3. CASE \E t \in Threads : Thread(t)
    BY <2>3, <1>2, <1>3, <1>4, <1>5, <1>6, <1>7, <1>8, <1>9, <1>10, <1>11, <1>12 DEF Thread
  <2>4. CASE Tick
    BY <2>4, <1>14, <1>15 DEF Tick, Drain
  <2> QED BY <2>1, <2>2, <2>3, <2>4 DEF Next

-----------------------------------------------------------------------------
(* Open spans *)

\* A thread that neither opens nor closes a span leaves them alone.
LEMMA InsideSame ==
  ASSUME NEW t \in Threads, doing[t] # "span", doing'[t] # "span",
         \A u \in Threads \ {t} : doing'[u] = doing[u] /\ target'[u] = target[u]
  PROVE  \A r : Inside(r)' = Inside(r)
  BY DEF Inside

\* The counter of open spans is the number of threads inside one.
LEMMA SpansKept ==
  ASSUME IInv, Next PROVE SpansOK'
<1> USE DEF runVars, samplerVars, threadVars, opVars, drainVars, tickVars, Drainers
<1>1. TypeOK /\ SpansOK
  BY DEF IInv
<1>2. ASSUME NEW t \in Threads, SpanEnter(t) PROVE SpansOK'
  <2>0. PICK r \in Runs : r = target[t]
    BY <1>2 DEF IInv, HandsOK, SpanEnter
  <2>3. /\ openSpans' = [openSpans EXCEPT ![r] = @ + 1] /\ doing[t] = "using"
        /\ doing' = [doing EXCEPT ![t] = "span"] /\ target' = target
    BY <1>2, <2>0 DEF SpanEnter
  <2>1. Inside(r)' = Inside(r) \cup {t} /\ t \notin Inside(r)
    BY <1>1, <2>0, <2>3 DEF Inside, TypeOK
  <2>2. \A q \in Runs \ {r} : Inside(q)' = Inside(q)
    BY <1>1, <2>0, <2>3 DEF Inside, TypeOK
  <2>4. IsFiniteSet(Inside(r)') /\ Cardinality(Inside(r)') = Cardinality(Inside(r)) + 1
    BY <1>1, <2>1, FS_AddElement DEF SpansOK
  <2> QED BY <1>1, <2>2, <2>3, <2>4 DEF SpansOK, TypeOK
<1>3. ASSUME NEW t \in Threads, SpanExit(t) PROVE SpansOK'
  <2>1. CASE doing[t] = "slow"
    <3>1. /\ doing' = [doing EXCEPT ![t] = "idle"] /\ target' = [target EXCEPT ![t] = NoRun]
          /\ openSpans' = [openSpans EXCEPT ![target[t]] = @ - 0]
      BY <1>3, <2>1 DEF SpanExit, Open
    <3>2. \A r : Inside(r)' = Inside(r)
      BY <1>1, <2>1, <3>1, InsideSame DEF TypeOK
    <3>3. openSpans' = openSpans
      BY <1>1, <3>1 DEF TypeOK
    <3> QED BY <1>1, <3>2, <3>3 DEF SpansOK
  <2>2. CASE doing[t] = "span"
    <3>1. PICK r \in Runs : r = target[t]
      BY <2>2 DEF IInv, HandsOK
    <3>2. /\ doing' = [doing EXCEPT ![t] = "idle"] /\ target' = [target EXCEPT ![t] = NoRun]
          /\ openSpans' = [openSpans EXCEPT ![r] = @ - 1]
      BY <1>3, <2>2, <3>1 DEF SpanExit, Open
    <3>3. Inside(r)' = Inside(r) \ {t} /\ t \in Inside(r)
      BY <1>1, <2>2, <3>1, <3>2 DEF Inside, TypeOK
    <3>4. \A q \in Runs \ {r} : Inside(q)' = Inside(q)
      BY <1>1, <3>1, <3>2 DEF Inside, TypeOK
    <3>5. IsFiniteSet(Inside(r)') /\ Cardinality(Inside(r)') = Cardinality(Inside(r)) - 1
      BY <1>1, <3>3, FS_RemoveElement DEF SpansOK
    <3> QED BY <1>1, <3>2, <3>4, <3>5 DEF SpansOK, TypeOK
  <2> QED BY <1>3, <2>1, <2>2 DEF SpanExit
<1>4. ASSUME NEW t \in Threads,
             \/ \E r \in Runs : Use(t, r)
             \/ \E o \in Ops : CreateOp(t, o) \/ OpCall(t, o)
             \/ StopSampling(t) \/ JoinOver(t) \/ Shutdown(t) \/ CloseSender(t)
             \/ StartSampling(t) \/ InitialSample(t)
      PROVE  SpansOK'
  <2>1. /\ doing[t] # "span" /\ UNCHANGED openSpans
        /\ \E s \in {"idle", "using", "slow", "starting", "joining", "joinShutdown", "closing"} :
             doing' = doing \/ doing' = [doing EXCEPT ![t] = s]
        /\ \E q : target' = target \/ target' = [target EXCEPT ![t] = q]
    BY <1>4 DEF Use, CreateOp, OpCall, StopSampling, JoinOver, Shutdown, CloseSender,
         StartSampling, InitialSample, MayAct
  <2>2. \A r : Inside(r)' = Inside(r)
    BY <1>1, <2>1, InsideSame DEF TypeOK
  <2> QED BY <1>1, <2>1, <2>2 DEF SpansOK
<1>5. ASSUME NEW r \in Runs,
             \/ Claim(r) \/ Enter(r) \/ SamplerWake(r) \/ SamplerEmit(r)
             \/ ExitLook(r) \/ ExitStop(r) \/ ExitFails(r) \/ ExitJoin(r)
             \/ ExitCopy(r) \/ Complete(r) \/ ExitFlush(r) \/ CloseRun(r) \/ Clear(r)
      PROVE  SpansOK'
  <2>1. UNCHANGED <<doing, target, openSpans>>
    BY <1>5 DEF Claim, Enter, SamplerWake, SamplerEmit, ExitLook, ExitStop, ExitFails,
              ExitJoin, ExitCopy, Complete, ExitFlush, CloseRun, Clear, TakeSampler
  <2> QED BY <1>1, <2>1 DEF SpansOK, Inside
<1>6. ASSUME NEW d \in Drainers, NEW o \in Ops,
             \/ Swap(d, o) \/ EmitStats(d, o)
      PROVE  SpansOK'
  <2>1. UNCHANGED <<doing, target, openSpans>>
    BY <1>6 DEF Swap, EmitStats
  <2> QED BY <1>1, <2>1 DEF SpansOK, Inside
<1>7. ASSUME \/ TickBegin \/ TickLook \/ TickCopy \/ TickOver
      PROVE  SpansOK'
  <2>1. UNCHANGED <<doing, target, openSpans>>
    BY <1>7 DEF TickBegin, TickLook, TickCopy, TickOver
  <2> QED BY <1>1, <2>1 DEF SpansOK, Inside
<1> QED
  <2>1. CASE \E r \in Runs : Claim(r) \/ Enter(r) \/ ExitLook(r) \/ Sampling(r)
    BY <2>1, <1>5 DEF Sampling
  <2>2. CASE \E r \in Runs : Exit(r)
    BY <2>2, <1>5, <1>6 DEF Exit, Drain
  <2>3. CASE \E t \in Threads : Thread(t)
    BY <2>3, <1>2, <1>3, <1>4 DEF Thread
  <2>4. CASE Tick
    BY <2>4, <1>6, <1>7 DEF Tick, Drain
  <2> QED BY <2>1, <2>2, <2>3, <2>4 DEF Next

-----------------------------------------------------------------------------
(* Types *)

\* What is logged are items.
LEMMA LogTyped ==
  ASSUME IInv, Next PROVE log' \in Seq(Items)
<1>1. CASE UNCHANGED log
  BY <1>1 DEF IInv, TypeOK
<1>2. ASSUME NEW r \in Runs, NEW kind \in Kinds,
             log' = Append(log, [kind |-> kind, run |-> r, id |-> Len(log) + 1])
      PROVE  log' \in Seq(Items)
  <2>1. log \in Seq(Items) /\ Len(log) \in Nat
    BY DEF IInv, TypeOK
  <2>2. [kind |-> kind, run |-> r, id |-> Len(log) + 1] \in Items
    BY <2>1 DEF Items
  <2> QED BY <1>2, <2>1, <2>2
<1> QED BY <1>1, <1>2, LogSteps DEF LogStep

\* Every step keeps the types.
LEMMA TypesKept ==
  ASSUME IInv, Next PROVE TypeOK'
<1> USE ClientAssumption DEF Doings, runVars, samplerVars, threadVars, opVars, drainVars, tickVars, Threads, Drainers
<1>1. TypeOK /\ log' \in Seq(Items)
  BY LogTyped DEF IInv
<1>2. ASSUME NEW r \in Runs, Claim(r) PROVE TypeOK'
  BY <1>1, <1>2 DEF Claim, TypeOK, Stages
<1>3. ASSUME NEW r \in Runs, Enter(r) PROVE TypeOK'
  BY <1>1, <1>3 DEF Enter, TypeOK, Stages
<1>4. ASSUME NEW t \in Threads, StartSampling(t) PROVE TypeOK'
  BY <1>1, <1>4 DEF StartSampling, TypeOK
<1>5. ASSUME NEW t \in Threads, InitialSample(t) PROVE TypeOK'
  <2>1. /\ UNCHANGED <<sampler, stopFlag, samples, target, spans, openSpans, runVars, opVars,
                       drainVars, tickVars, stopped>>
        /\ doing' = [doing EXCEPT ![t] = "idle"]
        /\ \/ samplerThread' = samplerThread
           \/ \E s \in {"none", "waiting", "taking", "ended"} :
                samplerThread' = [samplerThread EXCEPT ![sampler] = s]
    BY <1>1, <1>5 DEF InitialSample, TypeOK
  <2>2. samplerThread' \in [Runs -> {"none", "waiting", "taking", "ended"}]
    BY <1>1, <2>1 DEF TypeOK
  <2> QED BY <1>1, <2>1, <2>2 DEF TypeOK
<1>6. ASSUME NEW r \in Runs, SamplerWake(r) PROVE TypeOK'
  <2>1. /\ UNCHANGED <<runVars, threadVars, opVars, drainVars, tickVars, stopped, sampler, stopFlag>>
        /\ \E s \in {"ended", "taking"} : samplerThread' = [samplerThread EXCEPT ![r] = s]
        /\ samples' = samples \/ samples' = [samples EXCEPT ![r] = @ + 1]
    BY <1>6 DEF SamplerWake
  <2>2. samplerThread' \in [Runs -> {"none", "waiting", "taking", "ended"}]
    BY <1>1, <2>1 DEF TypeOK
  <2>3. samples \in [Runs -> Nat]
    BY <1>1 DEF TypeOK
  <2>4. samples' \in [Runs -> Nat]
    <3>1. CASE samples' = samples
      BY <2>3, <3>1
    <3>2. CASE samples' = [samples EXCEPT ![r] = @ + 1]
      BY <2>3, <3>2
    <3> QED BY <2>1, <3>1, <3>2
  <2> QED BY <1>1, <2>1, <2>2, <2>4 DEF TypeOK
<1>7. ASSUME NEW r \in Runs, SamplerEmit(r) PROVE TypeOK'
  BY <1>1, <1>7 DEF SamplerEmit, TypeOK
<1>8. ASSUME NEW r \in Runs, ExitLook(r) PROVE TypeOK'
  BY <1>1, <1>8 DEF ExitLook, NoCalls, TypeOK, Stages
<1>9. ASSUME NEW r \in Runs, ExitStop(r) PROVE TypeOK'
  BY <1>1, <1>9 DEF ExitStop, TakeSampler, TypeOK, Stages
<1>10. ASSUME NEW r \in Runs, ExitFails(r) PROVE TypeOK'
  <2>1. /\ sampler' \in Runs \cup {NoRun} /\ stopFlag' \in [Runs -> BOOLEAN]
        /\ UNCHANGED <<samplerThread, samples>>
    BY <1>1, <1>10 DEF ExitFails, TakeSampler, TypeOK
  <2>2. /\ stage' \in [Runs -> Stages] /\ failedExit' \subseteq Runs
        /\ UNCHANGED <<active, closed, threadVars, opVars, drainVars, tickVars, stopped>>
    BY <1>1, <1>10 DEF ExitFails, TypeOK, Stages
  <2> QED BY <1>1, <2>1, <2>2 DEF TypeOK
<1>11. ASSUME NEW r \in Runs, ExitJoin(r) PROVE TypeOK'
  BY <1>1, <1>11 DEF ExitJoin, TypeOK, Stages
<1>12. ASSUME NEW r \in Runs, ExitCopy(r) PROVE TypeOK'
  BY <1>1, <1>12 DEF ExitCopy, OpsOf, TypeOK, Stages
<1>13. ASSUME NEW r \in Runs, Complete(r) PROVE TypeOK'
  BY <1>1, <1>13 DEF Complete, Ready, Drained, TypeOK, Stages
<1>14. ASSUME NEW r \in Runs, ExitFlush(r) PROVE TypeOK'
  BY <1>1, <1>14 DEF ExitFlush, TypeOK, Stages
<1>15. ASSUME NEW r \in Runs, CloseRun(r) PROVE TypeOK'
  BY <1>1, <1>15 DEF CloseRun, TypeOK, Stages
<1>16. ASSUME NEW r \in Runs, Clear(r) PROVE TypeOK'
  BY <1>1, <1>16 DEF Clear, TypeOK, Stages
<1>17. ASSUME NEW t \in Threads, (\E r \in Runs : Use(t, r)) \/ SpanEnter(t) PROVE TypeOK'
  <2>1. CASE \E r \in Runs : Use(t, r)
    BY <1>1, <2>1 DEF Use, TypeOK
  <2>2. CASE SpanEnter(t)
    <3>1. target[t] \in Runs
      BY <2>2 DEF SpanEnter, IInv, HandsOK
    <3>2. /\ openSpans' = [openSpans EXCEPT ![target[t]] = @ + 1] /\ spans' = spans + 1
          /\ doing' = [doing EXCEPT ![t] = "span"]
          /\ UNCHANGED <<target, runVars, samplerVars, opVars, drainVars, tickVars, stopped>>
      BY <2>2 DEF SpanEnter
    <3>3. openSpans' \in [Runs -> Nat]
      BY <1>1, <3>1, <3>2 DEF TypeOK
    <3>4. spans' \in Nat /\ doing' \in [Threads -> Doings]
      BY <1>1, <3>2 DEF TypeOK
    <3>5. UNCHANGED <<target, runVars, samplerVars, opVars, drainVars, tickVars, stopped>>
      BY <3>2
    <3> QED BY <1>1, <3>3, <3>4, <3>5 DEF TypeOK
  <2> QED BY <1>17, <2>1, <2>2
<1>18. ASSUME NEW t \in Threads, SpanExit(t) PROVE TypeOK'
  <2>1. openSpans' \in [Runs -> Nat]
    <3>1. \A r \in Runs : openSpans'[r] \in Nat
      BY SpansKept, FS_CardinalityType DEF SpansOK
    <3>2. PICK c : openSpans' = [openSpans EXCEPT ![target[t]] = c]
      BY <1>18 DEF SpanExit
    <3> QED BY <1>1, <3>1, <3>2 DEF TypeOK
  <2>2. /\ doing' = [doing EXCEPT ![t] = "idle"] /\ target' = [target EXCEPT ![t] = NoRun]
        /\ UNCHANGED <<spans, runVars, samplerVars, opVars, drainVars, tickVars, stopped>>
    BY <1>18 DEF SpanExit
  <2> QED BY <1>1, <2>1, <2>2 DEF TypeOK
<1>19. ASSUME NEW t \in Threads, NEW o \in Ops, CreateOp(t, o) PROVE TypeOK'
  BY <1>1, <1>19 DEF CreateOp, TypeOK
<1>20. ASSUME NEW t \in Threads, NEW o \in Ops, OpCall(t, o) PROVE TypeOK'
  <2>1. /\ hist' = [hist EXCEPT ![o] = @ + 1] /\ made' = [made EXCEPT ![o] = @ + 1]
        /\ UNCHANGED <<owner, atExit, runVars, samplerVars, drainVars, tickVars, openSpans, stopped>>
        /\ spans' = spans \/ spans' = spans + 1
        /\ doing' = doing \/ doing' = [doing EXCEPT ![t] = "slow"]
        /\ target' = target \/ target' = [target EXCEPT ![t] = owner[o]]
    BY <1>20 DEF OpCall
  <2>2. /\ hist \in [Ops -> Nat] /\ made \in [Ops -> Nat] /\ owner[o] \in Runs \cup {NoRun}
        /\ target \in [Threads -> Runs \cup {NoRun}] /\ spans \in Nat
    BY <1>1 DEF TypeOK
  <2>3. hist' \in [Ops -> Nat] /\ made' \in [Ops -> Nat] /\ spans' \in Nat
    BY <2>1, <2>2
  <2>4. doing' \in [Threads -> Doings]
    <3>1. CASE doing' = doing
      BY <1>1, <3>1 DEF TypeOK
    <3>2. CASE doing' = [doing EXCEPT ![t] = "slow"]
      BY <1>1, <3>2 DEF TypeOK
    <3> QED BY <2>1, <3>1, <3>2
  <2>5. target' \in [Threads -> Runs \cup {NoRun}]
    <3>1. CASE target' = target
      BY <2>2, <3>1
    <3>2. CASE target' = [target EXCEPT ![t] = owner[o]]
      BY <2>2, <3>2
    <3> QED BY <2>1, <3>1, <3>2
  <2>6. {hist', made', atExit', shipped', lost'} \subseteq [Ops -> Nat]
    <3>1. atExit \in [Ops -> Nat] /\ shipped \in [Ops -> Nat] /\ lost \in [Ops -> Nat]
      BY <1>1 DEF TypeOK
    <3>2. atExit' = atExit /\ shipped' = shipped /\ lost' = lost
      BY <2>1
    <3> QED BY <2>3, <3>1, <3>2
  <2>7. UNCHANGED <<owner, runVars, samplerVars, todo, held, tickVars, openSpans, stopped>>
    BY <2>1
  <2> QED BY <1>1, <2>3, <2>4, <2>5, <2>6, <2>7 DEF TypeOK
<1>21. ASSUME NEW t \in Threads, StopSampling(t) PROVE TypeOK'
  <2>1. doing' \in [Threads -> Doings]
    BY <1>1, <1>21 DEF StopSampling, TypeOK, TakeSampler
  <2>2. target' \in [Threads -> Runs \cup {NoRun}]
    BY <1>1, <1>21 DEF StopSampling, TypeOK, TakeSampler
  <2>3. sampler' \in Runs \cup {NoRun} /\ stopFlag' \in [Runs -> BOOLEAN]
    BY <1>1, <1>21 DEF StopSampling, TakeSampler, TypeOK
  <2>4. UNCHANGED <<samplerThread, samples, spans, openSpans, runVars, opVars, drainVars, tickVars, stopped>>
    BY <1>21 DEF StopSampling, TakeSampler
  <2> QED BY <1>1, <2>1, <2>2, <2>3, <2>4 DEF TypeOK
<1>22. ASSUME NEW t \in Threads, JoinOver(t) PROVE TypeOK'
  <2>1. doing' \in [Threads -> Doings]
    BY <1>1, <1>22 DEF JoinOver, TypeOK
  <2>2. target' \in [Threads -> Runs \cup {NoRun}]
    BY <1>1, <1>22 DEF JoinOver, TypeOK
  <2>3. sampler' \in Runs \cup {NoRun} /\ stopFlag' \in [Runs -> BOOLEAN]
    BY <1>1, <1>22 DEF JoinOver, TakeSampler, TypeOK
  <2>4. UNCHANGED <<samplerThread, samples, spans, openSpans, runVars, opVars, drainVars, tickVars, stopped>>
    BY <1>22 DEF JoinOver, TakeSampler
  <2> QED BY <1>1, <2>1, <2>2, <2>3, <2>4 DEF TypeOK
<1>23. ASSUME NEW t \in Threads, Shutdown(t) PROVE TypeOK'
  <2>1. doing' \in [Threads -> Doings]
    <3>1. PICK s \in {"joinShutdown", "closing"} : doing' = [doing EXCEPT ![t] = s]
      BY <1>23 DEF Shutdown
    <3> QED BY <1>1, <3>1 DEF TypeOK
  <2>2. target' \in [Threads -> Runs \cup {NoRun}]
    <3>1. target' = target \/ \E q \in {sampler, NoRun} : target' = [target EXCEPT ![t] = q]
      BY <1>23 DEF Shutdown
    <3>2. target \in [Threads -> Runs \cup {NoRun}] /\ sampler \in Runs \cup {NoRun}
      BY <1>1 DEF TypeOK
    <3>3. CASE target' = target
      BY <3>2, <3>3
    <3>4. ASSUME NEW q \in {sampler, NoRun}, target' = [target EXCEPT ![t] = q]
          PROVE  target' \in [Threads -> Runs \cup {NoRun}]
      BY <3>2, <3>4
    <3> QED BY <3>1, <3>3, <3>4
  <2>3. sampler' \in Runs \cup {NoRun} /\ stopFlag' \in [Runs -> BOOLEAN]
    BY <1>1, <1>23 DEF Shutdown, TakeSampler, TypeOK
  <2>4. UNCHANGED <<samplerThread, samples, spans, openSpans, runVars, opVars, drainVars, tickVars, stopped>>
    BY <1>23 DEF Shutdown, TakeSampler
  <2> QED BY <1>1, <2>1, <2>2, <2>3, <2>4 DEF TypeOK
<1>24. ASSUME NEW t \in Threads, CloseSender(t) PROVE TypeOK'
  BY <1>1, <1>24 DEF CloseSender, TypeOK
<1>25. ASSUME NEW d \in Drainers, NEW o \in Ops, Swap(d, o) PROVE TypeOK'
  <2>1. [held[d] EXCEPT ![o] = hist[o]] \in [Ops -> Nat]
    BY <1>1 DEF TypeOK
  <2>2. held' = [held EXCEPT ![d] = [held[d] EXCEPT ![o] = hist[o]]]
    BY <1>25 DEF Swap
  <2>3. held' \in [Drainers -> [Ops -> Nat]]
    BY <1>1, <2>1, <2>2 DEF TypeOK
  <2>4. hist' \in [Ops -> Nat] /\ todo' \in [Drainers -> SUBSET Ops]
    BY <1>1, <1>25 DEF Swap, Swapped, TypeOK
  <2>5. UNCHANGED <<shipped, lost, owner, made, atExit, runVars, samplerVars, threadVars, tickVars, stopped>>
    BY <1>25 DEF Swap
  <2> QED BY <1>1, <2>3, <2>4, <2>5 DEF TypeOK
<1>26. ASSUME NEW d \in Drainers, NEW o \in Ops, EmitStats(d, o) PROVE TypeOK'
  <2>1. [held[d] EXCEPT ![o] = 0] \in [Ops -> Nat]
    BY <1>1 DEF TypeOK
  <2>2. held' = [held EXCEPT ![d] = [held[d] EXCEPT ![o] = 0]]
    BY <1>26 DEF EmitStats
  <2>3. held' \in [Drainers -> [Ops -> Nat]]
    BY <1>1, <2>1, <2>2 DEF TypeOK
  <2>4. held[d][o] \in Nat
    BY <1>1 DEF TypeOK
  <2>5. /\ shipped' = shipped \/ shipped' = [shipped EXCEPT ![o] = @ + held[d][o]]
        /\ lost' = lost \/ lost' = [lost EXCEPT ![o] = @ + held[d][o]]
        /\ UNCHANGED <<todo, runVars, samplerVars, threadVars, opVars, tickVars, stopped>>
    BY <1>26 DEF EmitStats
  <2>6. shipped \in [Ops -> Nat] /\ lost \in [Ops -> Nat]
    BY <1>1 DEF TypeOK
  <2>7. shipped' \in [Ops -> Nat]
    <3>1. CASE shipped' = shipped
      BY <2>6, <3>1
    <3>2. CASE shipped' = [shipped EXCEPT ![o] = @ + held[d][o]]
      BY <2>4, <2>6, <3>2
    <3> QED BY <2>5, <3>1, <3>2
  <2>8. lost' \in [Ops -> Nat]
    <3>1. CASE lost' = lost
      BY <2>6, <3>1
    <3>2. CASE lost' = [lost EXCEPT ![o] = @ + held[d][o]]
      BY <2>4, <2>6, <3>2
    <3> QED BY <2>5, <3>1, <3>2
  <2> QED BY <1>1, <2>3, <2>5, <2>7, <2>8 DEF TypeOK
<1>27. ASSUME TickBegin PROVE TypeOK'
  BY <1>1, <1>27 DEF TickBegin, TypeOK
<1>28. ASSUME TickLook PROVE TypeOK'
  BY <1>1, <1>28 DEF TickLook, TypeOK
<1>29. ASSUME TickCopy PROVE TypeOK'
  BY <1>1, <1>29 DEF TickCopy, OpsOf, TypeOK
<1>30. ASSUME TickOver PROVE TypeOK'
  BY <1>1, <1>30 DEF TickOver, TypeOK
<1> QED
  <2>1. CASE \E r \in Runs : Claim(r) \/ Enter(r) \/ ExitLook(r) \/ Sampling(r)
    BY <2>1, <1>2, <1>3, <1>6, <1>7, <1>8 DEF Sampling
  <2>2. CASE \E r \in Runs : Exit(r)
    BY <2>2, <1>9, <1>10, <1>11, <1>12, <1>13, <1>14, <1>15, <1>16, <1>25, <1>26
       DEF Exit, Drain
  <2>3. CASE \E t \in Threads : Thread(t)
    BY <2>3, <1>4, <1>5, <1>17, <1>18, <1>19, <1>20, <1>21, <1>22, <1>23, <1>24 DEF Thread
  <2>4. CASE Tick
    BY <2>4, <1>25, <1>26, <1>27, <1>28, <1>29, <1>30 DEF Tick, Drain
  <2> QED BY <2>1, <2>2, <2>3, <2>4 DEF Next

-----------------------------------------------------------------------------
(* Calls *)

\* The part of the invariant that is about the histograms.
CallsOK == OwnOps /\ CallsConserved

\* A call is counted in one place: the drainers swap histograms of which they
\* hold nothing, and of a run's operations the owner drains no others.
LEMMA CallsKept ==
  ASSUME IInv, Next PROVE CallsOK'
<1> USE ClientAssumption DEF runVars, samplerVars, threadVars, opVars, drainVars, tickVars, Threads, Drainers
<1>1. TypeOK /\ OwnOps /\ CallsConserved
  BY DEF IInv
<1>2. ASSUME NEW p \in Ops
      PROVE  /\ made[p] \in Nat /\ hist[p] \in Nat /\ shipped[p] \in Nat /\ lost[p] \in Nat /\ atExit[p] \in Nat
             /\ \A d \in Drainers : held[d][p] \in Nat
             /\ owner[p] \in Runs => made[p] = hist[p] + (held[Ticker][p] + held[owner[p]][p]) + shipped[p] + lost[p]
             /\ owner[p] \notin Runs => made[p] = hist[p] + held[Ticker][p] + shipped[p] + lost[p]
  <2>1. /\ made[p] \in Nat /\ hist[p] \in Nat /\ shipped[p] \in Nat /\ lost[p] \in Nat /\ atExit[p] \in Nat
        /\ \A d \in Drainers : held[d][p] \in Nat
    BY <1>1 DEF TypeOK
  <2> QED BY <1>1, <2>1 DEF CallsConserved, HeldOf
<1>3. ASSUME NEW t \in Threads, NEW o \in Ops, CreateOp(t, o) PROVE CallsOK'
  <2>0. PICK r \in Runs : r = target[t]
    BY <1>3 DEF CreateOp, IInv, HandsOK
  <2>1. owner[o] = NoRun /\ owner' = [owner EXCEPT ![o] = r] /\ UNCHANGED <<hist, made, atExit, todo, held, shipped, lost>>
    BY <1>3, <2>0 DEF CreateOp
  <2>2. made[o] = 0 /\ held[r][o] = 0 /\ held[Ticker][o] = 0 /\ hist[o] = 0 /\ shipped[o] = 0 /\ lost[o] = 0
    <3>1. made[o] = 0 /\ owner[o] \notin Runs
      BY <1>1, <2>1 DEF OwnOps
    <3>2. held[r][o] = 0
      BY <1>1, <2>1, <3>1 DEF OwnOps
    <3>3. /\ hist[o] \in Nat /\ shipped[o] \in Nat /\ lost[o] \in Nat /\ held[Ticker][o] \in Nat
          /\ 0 = hist[o] + held[Ticker][o] + shipped[o] + lost[o]
      <4>1. made[o] = hist[o] + held[Ticker][o] + shipped[o] + lost[o]
        BY <1>2, <3>1
      <4> QED BY <1>2, <3>1, <4>1
    <3>4. \A a, b, c, d \in Nat : 0 = a + b + c + d => a = 0 /\ b = 0 /\ c = 0 /\ d = 0
      OBVIOUS
    <3>5. hist[o] = 0 /\ held[Ticker][o] = 0 /\ shipped[o] = 0 /\ lost[o] = 0
      BY <3>3, <3>4
    <3> QED BY <3>1, <3>2, <3>5
  <2>3. OwnOps'
    <3> SUFFICES ASSUME NEW p \in Ops
                 PROVE  /\ owner'[p] = NoRun => made[p] = 0 /\ atExit[p] = 0
                        /\ \A q \in Runs : held[q][p] # 0 \/ p \in todo[q] => owner'[p] = q
      BY <2>1 DEF OwnOps
    <3>1. CASE p = o
      BY <1>1, <2>1, <3>1 DEF OwnOps, TypeOK
    <3>2. CASE p # o
      BY <1>1, <2>1, <3>2 DEF OwnOps, TypeOK
    <3> QED BY <3>1, <3>2
  <2>4. CallsConserved'
    <3> SUFFICES ASSUME NEW p \in Ops
                 PROVE  made[p] = hist[p] + (held[Ticker][p] + IF owner'[p] \in Runs THEN held[owner'[p]][p] ELSE 0)
                                  + shipped[p] + lost[p]
      BY <2>1 DEF CallsConserved, HeldOf
    <3>1. CASE p = o
      <4>1. owner'[p] = r
        BY <1>1, <2>1, <3>1 DEF TypeOK
      <4> QED BY <1>2, <2>2, <3>1, <4>1
    <3>2. CASE p # o
      <4>1. owner'[p] = owner[p]
        BY <1>1, <2>1, <3>2 DEF TypeOK
      <4> QED BY <1>2, <4>1
    <3> QED BY <3>1, <3>2
  <2> QED BY <2>3, <2>4 DEF CallsOK
<1>4. ASSUME NEW t \in Threads, NEW o \in Ops, OpCall(t, o) PROVE CallsOK'
  <2>1. /\ owner[o] # NoRun /\ UNCHANGED <<owner, atExit, todo, held, shipped, lost>>
        /\ hist' = [hist EXCEPT ![o] = @ + 1] /\ made' = [made EXCEPT ![o] = @ + 1]
    BY <1>4 DEF OpCall
  <2>2. OwnOps'
    <3> SUFFICES ASSUME NEW p \in Ops
                 PROVE  /\ owner[p] = NoRun => made'[p] = 0 /\ atExit[p] = 0
                        /\ \A q \in Runs : held[q][p] # 0 \/ p \in todo[q] => owner[p] = q
      BY <2>1 DEF OwnOps
    <3>1. owner[p] = NoRun => made'[p] = made[p]
      BY <1>1, <2>1 DEF TypeOK
    <3> QED BY <1>1, <3>1 DEF OwnOps
  <2>3. CallsConserved'
    <3> SUFFICES ASSUME NEW p \in Ops PROVE made'[p] = hist'[p] + HeldOf(p)' + shipped[p] + lost[p]
      BY <2>1 DEF CallsConserved
    <3>1. HeldOf(p)' = HeldOf(p) /\ HeldOf(p) \in Nat
      BY <1>1, <1>2, <2>1 DEF HeldOf
    <3>2. made[p] = hist[p] + HeldOf(p) + shipped[p] + lost[p]
      BY <1>1 DEF CallsConserved
    <3>3. hist \in [Ops -> Nat] /\ made \in [Ops -> Nat]
      BY <1>1 DEF TypeOK
    <3>4. CASE p = o
      <4>1. made'[p] = made[p] + 1 /\ hist'[p] = hist[p] + 1
        BY <2>1, <3>3, <3>4
      <4> QED BY <1>2, <3>1, <3>2, <4>1
    <3>5. CASE p # o
      <4>1. made'[p] = made[p] /\ hist'[p] = hist[p]
        BY <2>1, <3>3, <3>5
      <4> QED BY <3>1, <3>2, <4>1
    <3> QED BY <3>4, <3>5
  <2> QED BY <2>2, <2>3 DEF CallsOK
<1>5. ASSUME NEW r \in Runs, ExitLook(r) PROVE CallsOK'
  <2>1. /\ UNCHANGED <<owner, hist, made, todo, held, shipped, lost>>
        /\ atExit' = [o \in Ops |-> IF owner[o] = r THEN made[o] ELSE atExit[o]]
    BY <1>5 DEF ExitLook
  <2>2. CallsConserved'
    BY <1>1, <2>1 DEF CallsConserved, HeldOf
  <2>3. OwnOps'
    BY <1>1, <2>1 DEF OwnOps, TypeOK
  <2> QED BY <2>2, <2>3 DEF CallsOK
<1>6. ASSUME NEW r \in Runs, ExitCopy(r) PROVE CallsOK'
  <2>1. UNCHANGED <<owner, hist, made, atExit, held, shipped, lost>> /\ todo' = [todo EXCEPT ![r] = OpsOf(r)]
    BY <1>6 DEF ExitCopy
  <2>2. CallsConserved'
    BY <1>1, <2>1 DEF CallsConserved, HeldOf
  <2>3. OwnOps'
    BY <1>1, <2>1 DEF OwnOps, OpsOf, TypeOK
  <2> QED BY <2>2, <2>3 DEF CallsOK
<1>7. ASSUME TickCopy PROVE CallsOK'
  <2>1. UNCHANGED <<owner, hist, made, atExit, held, shipped, lost>> /\ todo' = [todo EXCEPT ![Ticker] = OpsOf(tickRun)]
    BY <1>7 DEF TickCopy
  <2>2. CallsConserved'
    BY <1>1, <2>1 DEF CallsConserved, HeldOf
  <2>3. OwnOps'
    BY <1>1, <2>1 DEF OwnOps, TypeOK
  <2> QED BY <2>2, <2>3 DEF CallsOK
<1>8. ASSUME NEW d \in Drainers, NEW o \in Ops, Swap(d, o) PROVE CallsOK'
  <2>1. /\ o \in todo[d] /\ held[d] = NoCalls
        /\ UNCHANGED <<shipped, lost, owner, made, atExit>>
        /\ todo' = [todo EXCEPT ![d] = @ \ {o}] /\ held' = [held EXCEPT ![d][o] = hist[o]]
        /\ hist' = [hist EXCEPT ![o] = 0]
    BY <1>8 DEF Swap, Swapped
  <2>2. held[d][o] = 0 /\ (d \in Runs => owner[o] = d)
    BY <1>1, <2>1 DEF NoCalls, OwnOps
  <2>3. OwnOps'
    <3> SUFFICES ASSUME NEW p \in Ops
                 PROVE  /\ owner[p] = NoRun => made[p] = 0 /\ atExit[p] = 0
                        /\ \A q \in Runs : held'[q][p] # 0 \/ p \in todo'[q] => owner[p] = q
      BY <2>1 DEF OwnOps
    <3>1. \A q \in Runs : held'[q][p] # 0 => held[q][p] # 0 \/ (q = d /\ p = o)
      BY <1>1, <2>1 DEF TypeOK
    <3>2. \A q \in Runs : p \in todo'[q] => p \in todo[q]
      BY <1>1, <2>1 DEF TypeOK
    <3> QED BY <1>1, <2>2, <3>1, <3>2 DEF OwnOps
  <2>4. CallsConserved'
    <3> SUFFICES ASSUME NEW p \in Ops PROVE made[p] = hist'[p] + HeldOf(p)' + shipped[p] + lost[p]
      BY <2>1 DEF CallsConserved
    <3>1. CASE p # o
      <4>1. hist'[p] = hist[p] /\ \A q \in Drainers : held'[q][p] = held[q][p]
        BY <1>1, <2>1, <3>1 DEF TypeOK
      <4>2. HeldOf(p)' = HeldOf(p)
        BY <2>1, <4>1 DEF HeldOf
      <4> QED BY <1>1, <4>1, <4>2 DEF CallsConserved
    <3>2. CASE p = o
      <4>1. hist'[o] = 0 /\ held'[d][o] = hist[o] /\ \A q \in Drainers \ {d} : held'[q][o] = held[q][o]
        BY <1>1, <2>1 DEF TypeOK
      <4>2. CASE d = Ticker
        <5>1. held'[Ticker][o] = hist[o] /\ held[Ticker][o] = 0
          BY <2>2, <4>1, <4>2
        <5>2. CASE owner[o] \in Runs
          <6>1. held'[owner[o]][o] = held[owner[o]][o] /\ held[owner[o]][o] \in Nat
            BY <1>2, <4>1, <4>2, <5>2
          <6>2. HeldOf(o)' = hist[o] + held[owner[o]][o]
            BY <2>1, <5>1, <5>2, <6>1 DEF HeldOf
          <6> QED BY <1>2, <3>2, <4>1, <5>1, <5>2, <6>1, <6>2
        <5>3. CASE owner[o] \notin Runs
          <6>1. HeldOf(o)' = hist[o] + 0
            BY <2>1, <5>1, <5>3 DEF HeldOf
          <6> QED BY <1>2, <3>2, <4>1, <5>1, <5>3, <6>1
        <5> QED BY <5>2, <5>3
      <4>3. CASE d \in Runs
        <5>1. owner[o] = d /\ held'[Ticker][o] = held[Ticker][o] /\ held[Ticker][o] \in Nat
          BY <1>2, <2>2, <4>1, <4>3
        <5>2. HeldOf(o)' = held[Ticker][o] + hist[o]
          BY <2>1, <4>1, <4>3, <5>1 DEF HeldOf
        <5>3. made[o] = hist[o] + (held[Ticker][o] + 0) + shipped[o] + lost[o]
          BY <1>2, <2>2, <4>3, <5>1
        <5> QED BY <1>2, <3>2, <4>1, <5>1, <5>2, <5>3
      <4> QED BY <4>2, <4>3
    <3> QED BY <3>1, <3>2
  <2> QED BY <2>3, <2>4 DEF CallsOK
<1>9. ASSUME NEW d \in Drainers, NEW o \in Ops, EmitStats(d, o) PROVE CallsOK'
  <2>1. /\ held[d][o] # 0 /\ held' = [held EXCEPT ![d][o] = 0]
        /\ UNCHANGED <<todo, owner, hist, made, atExit>>
        /\ \/ shipped' = [shipped EXCEPT ![o] = @ + held[d][o]] /\ UNCHANGED lost
           \/ lost' = [lost EXCEPT ![o] = @ + held[d][o]] /\ UNCHANGED shipped
    BY <1>1, <1>9 DEF EmitStats, TypeOK
  <2>2. d \in Runs => owner[o] = d
    BY <1>1, <2>1 DEF OwnOps
  <2>3. OwnOps'
    <3> SUFFICES ASSUME NEW p \in Ops
                 PROVE  /\ owner[p] = NoRun => made[p] = 0 /\ atExit[p] = 0
                        /\ \A q \in Runs : held'[q][p] # 0 \/ p \in todo[q] => owner[p] = q
      BY <2>1 DEF OwnOps
    <3>1. \A q \in Runs : held'[q][p] # 0 => held[q][p] # 0
      BY <1>1, <2>1 DEF TypeOK
    <3> QED BY <1>1, <3>1 DEF OwnOps
  <2>4. CallsConserved'
    <3> SUFFICES ASSUME NEW p \in Ops PROVE made[p] = hist[p] + HeldOf(p)' + shipped'[p] + lost'[p]
      BY <2>1 DEF CallsConserved
    <3>1. CASE p # o
      <4>1. /\ shipped'[p] = shipped[p] /\ lost'[p] = lost[p]
            /\ \A q \in Drainers : held'[q][p] = held[q][p]
        BY <1>1, <2>1, <3>1 DEF TypeOK
      <4>2. HeldOf(p)' = HeldOf(p)
        BY <2>1, <4>1 DEF HeldOf
      <4> QED BY <1>1, <4>1, <4>2 DEF CallsConserved
    <3>2. CASE p = o
      <4>1. held'[d][o] = 0 /\ \A q \in Drainers \ {d} : held'[q][o] = held[q][o]
        BY <1>1, <2>1 DEF TypeOK
      <4>2. \/ shipped'[o] = shipped[o] + held[d][o] /\ lost'[o] = lost[o]
            \/ lost'[o] = lost[o] + held[d][o] /\ shipped'[o] = shipped[o]
        BY <1>1, <2>1 DEF TypeOK
      <4>3. CASE d = Ticker
        <5>1. CASE owner[o] \in Runs
          <6>1. held'[owner[o]][o] = held[owner[o]][o] /\ held[owner[o]][o] \in Nat
            BY <1>2, <4>1, <4>3, <5>1
          <6>2. HeldOf(o)' = 0 + held[owner[o]][o]
            BY <2>1, <4>1, <4>3, <5>1, <6>1 DEF HeldOf
          <6> QED BY <1>2, <3>2, <4>2, <4>3, <5>1, <6>1, <6>2
        <5>2. CASE owner[o] \notin Runs
          <6>1. HeldOf(o)' = 0 + 0
            BY <2>1, <4>1, <4>3, <5>2 DEF HeldOf
          <6> QED BY <1>2, <3>2, <4>2, <4>3, <5>2, <6>1
        <5> QED BY <5>1, <5>2
      <4>4. CASE d \in Runs
        <5>1. owner[o] = d /\ held'[Ticker][o] = held[Ticker][o] /\ held[Ticker][o] \in Nat
          BY <1>2, <2>2, <4>1, <4>4
        <5>2. HeldOf(o)' = held[Ticker][o] + 0
          BY <2>1, <4>1, <4>4, <5>1 DEF HeldOf
        <5> QED BY <1>2, <3>2, <4>2, <4>4, <5>1, <5>2
      <4> QED BY <4>3, <4>4
    <3> QED BY <3>1, <3>2
  <2> QED BY <2>3, <2>4 DEF CallsOK
<1>10. ASSUME NEW r \in Runs,
             \/ Claim(r) \/ Enter(r) \/ SamplerWake(r) \/ SamplerEmit(r) \/ ExitStop(r) \/ ExitFails(r)
             \/ ExitJoin(r) \/ Complete(r) \/ ExitFlush(r) \/ CloseRun(r) \/ Clear(r)
      PROVE  CallsOK'
  <2>1. UNCHANGED <<owner, made, atExit, hist, held, todo, shipped, lost>>
    BY <1>10 DEF Claim, Enter, SamplerWake, SamplerEmit,
              ExitStop, ExitFails, ExitJoin, Complete, ExitFlush, CloseRun, Clear,
              TakeSampler
  <2> QED BY <1>1, <2>1 DEF CallsOK, OwnOps, CallsConserved, HeldOf
<1>11. ASSUME NEW t \in Threads,
             \/ (\E r \in Runs : Use(t, r)) \/ SpanEnter(t) \/ StartSampling(t) \/ InitialSample(t)
             \/ SpanExit(t) \/ StopSampling(t)
             \/ JoinOver(t) \/ Shutdown(t) \/ CloseSender(t)
      PROVE  CallsOK'
  <2>1. UNCHANGED <<owner, made, atExit, hist, held, todo, shipped, lost>>
    BY <1>11 DEF Use, SpanEnter, StartSampling, InitialSample, SpanExit, StopSampling, JoinOver, Shutdown, CloseSender,
              TakeSampler
  <2> QED BY <1>1, <2>1 DEF CallsOK, OwnOps, CallsConserved, HeldOf
<1>12. ASSUME \/ TickBegin \/ TickLook \/ TickOver
      PROVE  CallsOK'
  <2>1. UNCHANGED <<owner, made, atExit, hist, held, todo, shipped, lost>>
    BY <1>12 DEF TickBegin, TickLook, TickOver
  <2> QED BY <1>1, <2>1 DEF CallsOK, OwnOps, CallsConserved, HeldOf
<1> QED
  <2>1. CASE \E r \in Runs : Claim(r) \/ Enter(r) \/ ExitLook(r) \/ Sampling(r)
    BY <2>1, <1>5, <1>10 DEF Sampling
  <2>2. CASE \E r \in Runs : Exit(r)
    BY <2>2, <1>6, <1>8, <1>9, <1>10 DEF Exit, Drain
  <2>3. CASE \E t \in Threads : Thread(t)
    BY <2>3, <1>3, <1>4, <1>11 DEF Thread
  <2>4. CASE Tick
    BY <2>4, <1>7, <1>8, <1>9, <1>12 DEF Tick, Drain
  <2> QED BY <2>1, <2>2, <2>3, <2>4 DEF Next

-----------------------------------------------------------------------------
(* The final drain *)

\* The stages after the completion was enqueued.
After == {"flush", "close", "clear", "left"}

\* How a run's stage moves: what was completed stays so, and the copy of its
\* operations is taken on the way to the drain.
StageStep(r) ==
  /\ stage[r] \in After => stage'[r] \in After
  /\ stage'[r] = "draining" /\ stage[r] # "draining" => ExitCopy(r)

\* Every step moves a run's stage that way.
LEMMA StageSteps ==
  ASSUME IInv, Next, NEW r \in Runs PROVE StageStep(r)
<1> USE DEF runVars, samplerVars, threadVars, opVars, drainVars, tickVars, Threads, Drainers, After
<1>1. TypeOK
  BY DEF IInv
<1>2. ASSUME NEW q \in Runs,
             \/ Claim(q) \/ Enter(q) \/ ExitLook(q) \/ ExitStop(q) \/ ExitFails(q) \/ ExitJoin(q)
             \/ Complete(q) \/ ExitFlush(q) \/ CloseRun(q) \/ Clear(q)
      PROVE  StageStep(r)
  <2>1. \E s \in Stages \ {"new", "draining"} : stage' = [stage EXCEPT ![q] = s]
    BY <1>2 DEF Claim, Enter, ExitLook, ExitStop, ExitFails, ExitJoin, Complete,
         ExitFlush, CloseRun, Clear, Stages
  <2>2. stage[q] \in After => stage'[q] \in After
    BY <1>1, <1>2, ClientAssumption
       DEF Claim, Enter, ExitLook, ExitStop, ExitFails, ExitJoin, Complete, Ready,
            Drained, Draining,
           ExitFlush, CloseRun, Clear, TypeOK
  <2>3. PICK s \in Stages \ {"new", "draining"} : stage' = [stage EXCEPT ![q] = s]
    BY <2>1
  <2> QED BY <1>1, <2>2, <2>3 DEF StageStep, TypeOK
<1>3. ASSUME NEW q \in Runs, ExitCopy(q) PROVE StageStep(r)
  <2>1. stage' = [stage EXCEPT ![q] = "draining"] /\ stage[q] = "drain"
    BY <1>3 DEF ExitCopy
  <2>2. CASE r = q
    BY <1>1, <1>3, <2>1, <2>2 DEF StageStep, TypeOK
  <2>3. CASE r # q
    BY <1>1, <2>1, <2>3 DEF StageStep, TypeOK
  <2> QED BY <2>2, <2>3
<1>4. ASSUME NEW q \in Runs,
             \/ SamplerWake(q)
             \/ SamplerEmit(q)
      PROVE  StageStep(r)
  <2>1. UNCHANGED stage
    BY <1>4 DEF SamplerWake, SamplerEmit
  <2> QED BY <2>1 DEF StageStep
<1>5. ASSUME NEW t \in Threads,
             \/ (\E q \in Runs : Use(t, q)) \/ SpanEnter(t) \/ StartSampling(t) \/ InitialSample(t)
             \/ SpanExit(t)
             \/ (\E p \in Ops : CreateOp(t, p))
             \/ (\E p \in Ops : OpCall(t, p)) \/ StopSampling(t) \/ JoinOver(t)
             \/ Shutdown(t) \/ CloseSender(t)
      PROVE  StageStep(r)
  <2>1. UNCHANGED stage
    BY <1>5 DEF Use, SpanEnter, StartSampling, InitialSample, SpanExit, CreateOp, OpCall, StopSampling, JoinOver, Shutdown,
              CloseSender, TakeSampler
  <2> QED BY <2>1 DEF StageStep
<1>6. ASSUME NEW d \in Drainers, NEW p \in Ops,
             \/ Swap(d, p) \/ EmitStats(d, p)
      PROVE  StageStep(r)
  <2>1. UNCHANGED stage
    BY <1>6 DEF Swap, EmitStats
  <2> QED BY <2>1 DEF StageStep
<1>7. ASSUME \/ TickBegin \/ TickLook \/ TickCopy \/ TickOver
      PROVE  StageStep(r)
  <2>1. UNCHANGED stage
    BY <1>7 DEF TickBegin, TickLook, TickCopy, TickOver
  <2> QED BY <2>1 DEF StageStep
<1> QED
  <2>1. CASE \E q \in Runs : Claim(q) \/ Enter(q) \/ ExitLook(q) \/ Sampling(q)
    BY <2>1, <1>2, <1>4 DEF Sampling
  <2>2. CASE \E q \in Runs : Exit(q)
    BY <2>2, <1>2, <1>3, <1>6 DEF Exit, Drain
  <2>3. CASE \E t \in Threads : Thread(t)
    BY <2>3, <1>5 DEF Thread
  <2>4. CASE Tick
    BY <2>4, <1>6, <1>7 DEF Tick, Drain
  <2> QED BY <2>1, <2>2, <2>3, <2>4 DEF Next

\* An operation leaves an exit's copy by being swapped out.
LEMMA TodoSteps ==
  ASSUME IInv, Next, NEW r \in Runs, NEW o \in todo[r], o \notin todo'[r], stage[r] = "draining"
  PROVE  Swap(r, o)
<1> USE ClientAssumption DEF runVars, samplerVars, threadVars, opVars, drainVars, tickVars, Threads, Drainers
<1>1. TypeOK
  BY DEF IInv
<1>2. ASSUME NEW d \in Drainers, NEW p \in Ops, Swap(d, p) PROVE Swap(r, o)
  <2>1. todo' = [todo EXCEPT ![d] = @ \ {p}]
    BY <1>2 DEF Swap
  <2>2. r = d /\ o = p
    BY <1>1, <2>1 DEF TypeOK
  <2> QED BY <1>2, <2>2
<1>3. ASSUME NEW q \in Runs, ExitCopy(q) PROVE Swap(r, o)
  BY <1>1, <1>3 DEF ExitCopy, TypeOK
<1>4. ASSUME TickCopy PROVE Swap(r, o)
  BY <1>1, <1>4 DEF TickCopy, TypeOK
<1>5. ASSUME NEW q \in Runs,
             \/ Claim(q) \/ Enter(q) \/ SamplerWake(q) \/ SamplerEmit(q) \/ ExitLook(q) \/ ExitStop(q)
             \/ ExitFails(q) \/ ExitJoin(q) \/ Complete(q) \/ ExitFlush(q)
             \/ CloseRun(q) \/ Clear(q)
      PROVE  Swap(r, o)
  <2>1. UNCHANGED todo
    BY <1>5 DEF Claim, Enter, SamplerWake, SamplerEmit,
              ExitLook, ExitStop, ExitFails, ExitJoin, Complete, ExitFlush, CloseRun,
              Clear, TakeSampler
  <2> QED BY <2>1
<1>6. ASSUME NEW t \in Threads,
             \/ (\E q \in Runs : Use(t, q)) \/ SpanEnter(t) \/ StartSampling(t) \/ InitialSample(t)
             \/ SpanExit(t)
             \/ (\E p \in Ops : CreateOp(t, p))
             \/ (\E p \in Ops : OpCall(t, p)) \/ StopSampling(t) \/ JoinOver(t)
             \/ Shutdown(t) \/ CloseSender(t)
      PROVE  Swap(r, o)
  <2>1. UNCHANGED todo
    BY <1>6 DEF Use, SpanEnter, StartSampling, InitialSample, SpanExit, CreateOp, OpCall, StopSampling, JoinOver, Shutdown,
              CloseSender, TakeSampler
  <2> QED BY <2>1
<1>7. ASSUME NEW d \in Drainers, NEW p \in Ops,
             EmitStats(d, p)
      PROVE  Swap(r, o)
  <2>1. UNCHANGED todo
    BY <1>7 DEF EmitStats
  <2> QED BY <2>1
<1>8. ASSUME \/ TickBegin \/ TickLook \/ TickOver
      PROVE  Swap(r, o)
  <2>1. UNCHANGED todo
    BY <1>8 DEF TickBegin, TickLook, TickOver
  <2> QED BY <2>1
<1> QED
  <2>1. CASE \E q \in Runs : Claim(q) \/ Enter(q) \/ ExitLook(q) \/ Sampling(q)
    BY <2>1, <1>5 DEF Sampling
  <2>2. CASE \E q \in Runs : Exit(q)
    BY <2>2, <1>2, <1>3, <1>5, <1>7 DEF Exit, Drain
  <2>3. CASE \E t \in Threads : Thread(t)
    BY <2>3, <1>6 DEF Thread
  <2>4. CASE Tick
    BY <2>4, <1>2, <1>4, <1>7, <1>8 DEF Tick, Drain
  <2> QED BY <2>1, <2>2, <2>3, <2>4 DEF Next

\* The calls that left the histogram of o stay out of it; the number of calls
\* at the exit is fixed when the exit begins, and an operation keeps its run.
OutStep(o) ==
  /\ made[o] <= made'[o]
  /\ Out(o) <= Out(o)'
  /\ owner[o] \in Runs =>
       owner'[o] = owner[o] /\ Out(o) + held[owner[o]][o] <= Out(o)' + held'[owner[o]][o]
  /\ owner'[o] # owner[o] => atExit'[o] = 0
  /\ \/ atExit'[o] = atExit[o]
     \/ owner[o] \in Runs /\ stage[owner[o]] = "entered" /\ atExit'[o] = made[o]

\* Every step moves the calls of o that way.
LEMMA OutSteps ==
  ASSUME IInv, Next, NEW o \in Ops PROVE OutStep(o)
<1> USE ClientAssumption DEF runVars, samplerVars, threadVars, opVars, drainVars, tickVars, Threads, Drainers
<1>1. TypeOK /\ OwnOps
  BY DEF IInv
<1>2. /\ made[o] \in Nat /\ hist[o] \in Nat /\ shipped[o] \in Nat /\ lost[o] \in Nat
      /\ \A d \in Drainers : held[d][o] \in Nat
      /\ owner[o] \in Runs \cup {NoRun}
  BY <1>1 DEF TypeOK
<1>3. Out(o) \in Nat
  BY <1>2 DEF Out
<1>4. ASSUME NEW t \in Threads, NEW p \in Ops, CreateOp(t, p) PROVE OutStep(o)
  <2>1. /\ owner[p] = NoRun /\ owner' = [owner EXCEPT ![p] = target[t]]
        /\ UNCHANGED <<made, atExit, held, shipped, lost>>
    BY <1>4 DEF CreateOp
  <2>2. owner[o] \in Runs => owner'[o] = owner[o]
    BY <1>1, <2>1 DEF TypeOK
  <2>3. owner'[o] # owner[o] => atExit[o] = 0
    BY <1>1, <2>1 DEF OwnOps, TypeOK
  <2>4. Out(o)' = Out(o)
    BY <2>1 DEF Out
  <2> QED BY <1>2, <1>3, <2>1, <2>2, <2>3, <2>4 DEF OutStep
<1>5. ASSUME NEW t \in Threads, NEW p \in Ops, OpCall(t, p) PROVE OutStep(o)
  <2>1. made' = [made EXCEPT ![p] = @ + 1] /\ UNCHANGED <<owner, atExit, held, shipped, lost>>
    BY <1>5 DEF OpCall
  <2>2. made[o] <= made'[o]
    <3>1. made'[o] = IF o = p THEN made[o] + 1 ELSE made[o]
      BY <1>1, <2>1 DEF TypeOK
    <3> QED BY <1>2, <3>1
  <2>3. Out(o)' = Out(o)
    BY <2>1 DEF Out
  <2> QED BY <1>2, <1>3, <2>1, <2>2, <2>3 DEF OutStep
<1>6. ASSUME NEW r \in Runs, ExitLook(r) PROVE OutStep(o)
  <2>1. /\ atExit' = [p \in Ops |-> IF owner[p] = r THEN made[p] ELSE atExit[p]]
        /\ UNCHANGED <<owner, made, held, shipped, lost>> /\ stage[r] = "entered"
    BY <1>6 DEF ExitLook
  <2>2. Out(o)' = Out(o)
    BY <2>1 DEF Out
  <2> QED BY <1>2, <1>3, <2>1, <2>2 DEF OutStep
<1>7. ASSUME NEW d \in Drainers, NEW p \in Ops, Swap(d, p) PROVE OutStep(o)
  <2>1. /\ p \in todo[d] /\ held[d] = NoCalls /\ held' = [held EXCEPT ![d][p] = hist[p]]
        /\ UNCHANGED <<owner, made, atExit, shipped, lost>>
    BY <1>7 DEF Swap
  <2>2. held[d][o] = 0
    BY <2>1 DEF NoCalls
  <2>3. \A e \in Drainers : held[e][o] <= held'[e][o] /\ held'[e][o] \in Nat
    <3> SUFFICES ASSUME NEW e \in Drainers PROVE held[e][o] <= held'[e][o] /\ held'[e][o] \in Nat
      OBVIOUS
    <3>1. CASE e = d /\ o = p
      <4>1. held'[e][o] = hist[o]
        BY <1>1, <2>1, <3>1 DEF TypeOK
      <4> QED BY <1>2, <2>2, <3>1, <4>1
    <3>2. CASE ~(e = d /\ o = p)
      <4>1. held'[e][o] = held[e][o]
        BY <1>1, <2>1, <3>2 DEF TypeOK
      <4> QED BY <1>2, <4>1
    <3> QED BY <3>1, <3>2
  <2>4. Out(o) <= Out(o)' /\ Out(o)' \in Nat
    BY <1>2, <2>1, <2>3 DEF Out
  <2>5. owner[o] \in Runs => Out(o) + held[owner[o]][o] <= Out(o)' + held'[owner[o]][o]
    BY <1>2, <1>3, <2>3, <2>4
  <2> QED BY <1>2, <2>1, <2>4, <2>5 DEF OutStep
<1>8. ASSUME NEW d \in Drainers, NEW p \in Ops, EmitStats(d, p) PROVE OutStep(o)
  <2>1. /\ held[d][p] # 0 /\ held' = [held EXCEPT ![d][p] = 0]
        /\ UNCHANGED <<owner, made, atExit>>
        /\ \/ shipped' = [shipped EXCEPT ![p] = @ + held[d][p]] /\ UNCHANGED lost
           \/ lost' = [lost EXCEPT ![p] = @ + held[d][p]] /\ UNCHANGED shipped
    <3>1. held[d][p] \in Nat
      <4>1. held \in [Drainers -> [Ops -> Nat]]
        BY <1>1 DEF TypeOK
      <4>2. held[d] \in [Ops -> Nat]
        BY <4>1
      <4> QED BY <4>2
    <3>2. held[d][p] > 0
      BY <1>8 DEF EmitStats
    <3>3. held[d][p] # 0
      BY <3>1, <3>2
    <3> QED BY <1>8, <3>3 DEF EmitStats
  <2>2. CASE o # p
    <3>1. shipped'[o] = shipped[o] /\ lost'[o] = lost[o] /\ \A e \in Drainers : held'[e][o] = held[e][o]
      BY <1>1, <2>1, <2>2 DEF TypeOK
    <3>2. Out(o)' = Out(o)
      BY <3>1 DEF Out
    <3> QED BY <1>2, <1>3, <2>1, <3>1, <3>2 DEF OutStep
  <2>3. CASE o = p
    <3>1. held'[d][o] = 0 /\ \A e \in Drainers \ {d} : held'[e][o] = held[e][o]
      BY <1>1, <2>1, <2>3 DEF TypeOK
    <3>2. \/ shipped'[o] = shipped[o] + held[d][o] /\ lost'[o] = lost[o]
          \/ lost'[o] = lost[o] + held[d][o] /\ shipped'[o] = shipped[o]
      BY <1>1, <2>1, <2>3 DEF TypeOK
    <3>3. CASE d = Ticker
      <4>1. Out(o)' = Out(o)
        BY <1>2, <3>1, <3>2, <3>3 DEF Out
      <4>2. owner[o] \in Runs => held'[owner[o]][o] = held[owner[o]][o]
        BY <3>1, <3>3
      <4> QED BY <1>2, <1>3, <2>1, <4>1, <4>2 DEF OutStep
    <3>4. CASE d \in Runs
      <4>1. owner[o] = d /\ held'[Ticker][o] = held[Ticker][o]
        BY <1>1, <2>1, <2>3, <3>1, <3>4 DEF OwnOps
      <4>2. Out(o)' = Out(o) + held[d][o]
        BY <1>2, <3>2, <4>1 DEF Out
      <4> QED BY <1>2, <1>3, <2>1, <3>1, <3>4, <4>1, <4>2 DEF OutStep
    <3> QED BY <3>3, <3>4
  <2> QED BY <2>2, <2>3
<1>9. ASSUME NEW q \in Runs,
             \/ Claim(q) \/ Enter(q) \/ SamplerWake(q) \/ SamplerEmit(q) \/ ExitStop(q) \/ ExitFails(q)
             \/ ExitJoin(q) \/ ExitCopy(q) \/ Complete(q) \/ ExitFlush(q)
             \/ CloseRun(q) \/ Clear(q)
      PROVE  OutStep(o)
  <2>1. UNCHANGED <<owner, made, atExit, held, shipped, lost>>
    BY <1>9 DEF Claim, Enter, SamplerWake, SamplerEmit,
              ExitStop, ExitFails, ExitJoin, ExitCopy, Complete, ExitFlush, CloseRun,
              Clear, TakeSampler
  <2> QED BY <1>2, <1>3, <2>1 DEF OutStep, Out
<1>10. ASSUME NEW t \in Threads,
             \/ (\E q \in Runs : Use(t, q)) \/ SpanEnter(t) \/ StartSampling(t) \/ InitialSample(t)
             \/ SpanExit(t) \/ StopSampling(t)
             \/ JoinOver(t) \/ Shutdown(t) \/ CloseSender(t)
      PROVE  OutStep(o)
  <2>1. UNCHANGED <<owner, made, atExit, held, shipped, lost>>
    BY <1>10 DEF Use, SpanEnter, StartSampling, InitialSample, SpanExit, StopSampling, JoinOver, Shutdown, CloseSender,
              TakeSampler
  <2> QED BY <1>2, <1>3, <2>1 DEF OutStep, Out
<1>11. ASSUME \/ TickBegin \/ TickLook \/ TickCopy \/ TickOver
      PROVE  OutStep(o)
  <2>1. UNCHANGED <<owner, made, atExit, held, shipped, lost>>
    BY <1>11 DEF TickBegin, TickLook, TickCopy, TickOver
  <2> QED BY <1>2, <1>3, <2>1 DEF OutStep, Out
<1> QED
  <2>1. CASE \E q \in Runs : Claim(q) \/ Enter(q) \/ ExitLook(q) \/ Sampling(q)
    BY <2>1, <1>6, <1>9 DEF Sampling
  <2>2. CASE \E q \in Runs : Exit(q)
    BY <2>2, <1>7, <1>8, <1>9 DEF Exit, Drain
  <2>3. CASE \E t \in Threads : Thread(t)
    BY <2>3, <1>4, <1>5, <1>10 DEF Thread
  <2>4. CASE Tick
    BY <2>4, <1>7, <1>8, <1>11 DEF Tick, Drain
  <2> QED BY <2>1, <2>2, <2>3, <2>4 DEF Next

\* What the exit drains: see DrainOK.
LEMMA DrainKept ==
  ASSUME IInv, Next PROVE DrainOK'
<1> USE ClientAssumption DEF Drainers
<1>1. TypeOK /\ OwnOps /\ DrainOK /\ CallsConserved /\ \A o \in Ops : OutStep(o)
  BY OutSteps DEF IInv
<1>2. TypeOK'
  BY TypesKept
<1>3. ASSUME NEW o \in Ops
      PROVE  /\ made[o] \in Nat /\ hist[o] \in Nat /\ atExit[o] \in Nat /\ Out(o) \in Nat
             /\ made'[o] \in Nat /\ atExit'[o] \in Nat /\ Out(o)' \in Nat
             /\ \A d \in Drainers : held[d][o] \in Nat /\ held'[d][o] \in Nat
  <2>1. /\ made[o] \in Nat /\ hist[o] \in Nat /\ atExit[o] \in Nat /\ shipped[o] \in Nat /\ lost[o] \in Nat
        /\ \A d \in Drainers : held[d][o] \in Nat
    BY <1>1 DEF TypeOK
  <2>2. /\ made'[o] \in Nat /\ atExit'[o] \in Nat /\ shipped'[o] \in Nat /\ lost'[o] \in Nat
        /\ \A d \in Drainers : held'[d][o] \in Nat
    BY <1>2 DEF TypeOK
  <2> QED BY <2>1, <2>2 DEF Out
<1>4. ASSUME NEW o \in Ops PROVE atExit'[o] <= made'[o]
  <2>1. atExit[o] <= made[o]
    BY <1>1 DEF DrainOK
  <2> QED BY <1>1, <1>3, <2>1 DEF OutStep
<1>5. ASSUME NEW r \in Runs, NEW o \in Ops, owner'[o] = r, stage'[r] = "draining", o \notin todo'[r]
      PROVE  atExit'[o] <= Out(o)' + held'[r][o]
  <2>1. CASE stage[r] # "draining"
    <3>1. ExitCopy(r)
      BY <1>5, <2>1, StageSteps DEF StageStep
    <3>2. todo'[r] = OpsOf(r) /\ owner' = owner
      BY <1>1, <3>1 DEF ExitCopy, TypeOK, opVars
    <3> QED BY <1>5, <3>2 DEF OpsOf
  <2>2. CASE stage[r] = "draining" /\ owner[o] # r
    <3>1. atExit'[o] = 0
      BY <1>1, <1>5, <2>2 DEF OutStep
    <3> QED BY <1>3, <3>1
  <2>3. CASE stage[r] = "draining" /\ owner[o] = r
    <3>1. atExit'[o] = atExit[o] /\ Out(o) + held[r][o] <= Out(o)' + held'[r][o]
      BY <1>1, <2>3 DEF OutStep
    <3>2. CASE o \notin todo[r]
      <4>1. atExit[o] <= Out(o) + held[r][o]
        BY <1>1, <2>3, <3>2 DEF DrainOK
      <4> QED BY <1>3, <3>1, <4>1
    <3>3. CASE o \in todo[r]
      <4>1. Swap(r, o)
        BY <1>5, <2>3, <3>3, TodoSteps
      <4>2. held[r][o] = 0 /\ held'[r][o] = hist[o] /\ UNCHANGED <<shipped, lost>> /\ held'[Ticker][o] = held[Ticker][o]
        BY <1>1, <4>1 DEF Swap, NoCalls, TypeOK
      <4>3. Out(o)' = Out(o)
        BY <4>2 DEF Out
      <4>4. shipped[o] \in Nat /\ lost[o] \in Nat /\ held[Ticker][o] \in Nat /\ held[r][o] \in Nat
        BY <1>1 DEF TypeOK
      <4>5. made[o] = hist[o] + (held[Ticker][o] + held[r][o]) + shipped[o] + lost[o]
        BY <1>1, <2>3 DEF CallsConserved, HeldOf
      <4>6. made[o] = hist[o] + Out(o)
        BY <1>3, <4>2, <4>4, <4>5 DEF Out
      <4>7. atExit[o] <= made[o]
        BY <1>1 DEF DrainOK
      <4> QED BY <1>3, <3>1, <4>2, <4>3, <4>6, <4>7
    <3> QED BY <3>2, <3>3
  <2> QED BY <2>1, <2>2, <2>3
<1>6. log \in Seq(Items) /\ Len(log) \in Nat /\ \A i \in 1..Len(log) : log[i] \in Items
  BY <1>1 DEF TypeOK
<1>7. ASSUME NEW i \in 1..Len(log'), log'[i].kind = "complete"
      PROVE  \/ i \in 1..Len(log) /\ log'[i] = log[i] /\ log[i].run \in Runs
             \/ log'[i].run \in Runs /\ Complete(log'[i].run)
  <2>1. CASE UNCHANGED log
    BY <1>6, <1>7, <2>1 DEF Items
  <2>2. ASSUME NEW r \in Runs, NEW kind \in Kinds,
               log' = Append(log, [kind |-> kind, run |-> r, id |-> Len(log) + 1]),
               kind = "complete" => Complete(r)
        PROVE  \/ i \in 1..Len(log) /\ log'[i] = log[i] /\ log[i].run \in Runs
               \/ log'[i].run \in Runs /\ Complete(log'[i].run)
    <3> DEFINE x == [kind |-> kind, run |-> r, id |-> Len(log) + 1]
    <3>1. x \in Items /\ x.kind = kind /\ x.run = r
      BY <1>6 DEF Items
    <3>2. /\ Len(log') = Len(log) + 1 /\ log'[Len(log) + 1] = x
          /\ \A j \in 1..Len(log) : log'[j] = log[j]
      BY <1>6, <2>2, <3>1, Appended
    <3>3. CASE i \in 1..Len(log)
      BY <1>6, <3>2, <3>3 DEF Items
    <3>4. CASE i = Len(log) + 1
      BY <1>7, <2>2, <3>1, <3>2, <3>4
    <3> QED BY <1>6, <3>2, <3>3, <3>4
  <2> QED BY <2>1, <2>2, LogSteps DEF LogStep
<1>8. ASSUME NEW i \in 1..Len(log'), log'[i].kind = "complete"
      PROVE  stage'[log'[i].run] \in After
  <2>1. CASE i \in 1..Len(log) /\ log'[i] = log[i] /\ log[i].run \in Runs
    <3>1. stage[log[i].run] \in After
      BY <1>1, <1>8, <2>1 DEF DrainOK, After
    <3> QED BY <2>1, <3>1, StageSteps DEF StageStep
  <2>2. CASE log'[i].run \in Runs /\ Complete(log'[i].run)
    BY <1>1, <2>2 DEF Complete, After, TypeOK
  <2> QED BY <1>7, <1>8, <2>1, <2>2
<1>9. ASSUME NEW o \in Ops, NEW i \in 1..Len(log'), log'[i].kind = "complete", log'[i].run = owner'[o]
      PROVE  atExit'[o] <= Out(o)'
  <2>1. CASE owner'[o] # owner[o]
    BY <1>1, <1>3, <2>1 DEF OutStep
  <2>2. CASE owner'[o] = owner[o] /\ i \in 1..Len(log) /\ log'[i] = log[i] /\ log[i].run \in Runs
    <3>1. stage[owner[o]] \in After /\ atExit[o] <= Out(o)
      BY <1>1, <1>9, <2>2 DEF DrainOK, FinalDrain, Out, After
    <3>2. atExit'[o] = atExit[o] /\ Out(o) <= Out(o)'
      BY <1>1, <3>1 DEF OutStep, After
    <3> QED BY <1>3, <3>1, <3>2
  <2>3. CASE owner'[o] = owner[o] /\ log'[i].run \in Runs /\ Complete(log'[i].run)
    <3>1. PICK r \in Runs : r = owner[o] /\ Complete(r)
      BY <1>9, <2>3
    <3>2. todo[r] = {} /\ held[r] = NoCalls /\ stage[r] = "draining"
      BY <3>1 DEF Complete, Ready, Drained, Draining
    <3>3. atExit[o] <= Out(o) + held[r][o] /\ held[r][o] = 0
      BY <1>1, <3>1, <3>2 DEF DrainOK, NoCalls
    <3>4. atExit'[o] = atExit[o] /\ Out(o) <= Out(o)'
      BY <1>1, <3>1, <3>2 DEF OutStep
    <3> QED BY <1>3, <3>3, <3>4
  <2> QED BY <1>7, <1>9, <2>1, <2>2, <2>3
<1> QED BY <1>4, <1>5, <1>8, <1>9 DEF DrainOK, FinalDrain, Out, After

-----------------------------------------------------------------------------
(* The theorems *)

\* The invariant holds at the start, and every step keeps it.
THEOREM Invariance ==
  Spec => []IInv
<1> USE ClientAssumption DEF runVars, samplerVars, threadVars, opVars, drainVars, tickVars
<1>1. Init => IInv
  <2> SUFFICES ASSUME Init PROVE IInv
    OBVIOUS
  <2>1. TypeOK
    <3>1. NoCalls \in [Ops -> Nat] /\ <<>> \in Seq(Items)
      BY DEF NoCalls
    <3>2. {hist, made, atExit, shipped, lost} \subseteq [Ops -> Nat] /\ held \in [Drainers -> [Ops -> Nat]]
      BY <3>1 DEF Init
    <3>3. log \in Seq(Items)
      BY <3>1 DEF Init
    <3> QED BY <3>2, <3>3 DEF Init, TypeOK, Stages, Doings
  <2>2. OneActiveRun /\ log = <<>>
    BY DEF Init, OneActiveRun
  <2>3. LogOK /\ HandsOK
    BY <2>2 DEF Init, LogOK, HandsOK, CreationBeforeCompletion, Entered, Threads
  <2>4. SpansOK
    <3>1. \A r \in Runs : Inside(r) = {} /\ openSpans[r] = 0
      BY DEF Init, Inside
    <3> QED BY <3>1, FS_EmptySet DEF SpansOK
  <2>5. OwnOps
    BY DEF Init, OwnOps, NoCalls, Drainers
  <2>6. CallsConserved
    BY DEF Init, CallsConserved, HeldOf, NoCalls, Drainers
  <2>7. DrainOK
    BY <2>2 DEF Init, DrainOK, FinalDrain, NoCalls
  <2> QED BY <2>1, <2>2, <2>3, <2>4, <2>5, <2>6, <2>7 DEF IInv
<1>2. IInv /\ [Next]_vars => IInv'
  <2> SUFFICES ASSUME IInv, [Next]_vars PROVE IInv'
    OBVIOUS
  <2>1. CASE Next
    BY <2>1, TypesKept, RunsKept, LogKept, HandsKept, SpansKept, CallsKept, DrainKept DEF
         IInv, CallsOK
  <2>2. CASE UNCHANGED vars
    <3> USE <2>2 DEF vars
    <3>1. TypeOK'
      BY DEF IInv, TypeOK
    <3>2. OneActiveRun' /\ LogOK' /\ HandsOK'
      BY DEF IInv, OneActiveRun, LogOK, CreationBeforeCompletion, Created, Entered, HandsOK
    <3>3. SpansOK'
      BY DEF IInv, SpansOK, Inside
    <3>4. OwnOps' /\ CallsConserved'
      BY DEF IInv, OwnOps, CallsConserved, HeldOf
    <3>5. DrainOK'
      BY DEF IInv, DrainOK, FinalDrain, Out
    <3> QED BY <3>1, <3>2, <3>3, <3>4, <3>5 DEF IInv
  <2> QED BY <2>1, <2>2
<1> QED BY <1>1, <1>2, PTL DEF Spec

\* Every variable keeps its type: the client's flags, the threads' positions
\* and the counters stay what the code declares.
THEOREM TypeCorrect ==
  Spec => []TypeOK
<1>1. IInv => TypeOK
  BY DEF IInv
<1> QED BY <1>1, Invariance, PTL

\* At most one run is entered and not yet left, and it is client._active_run:
\* the exit clears its own run.
THEOREM OneRunAtATime ==
  Spec => []OneActiveRun
<1>1. IInv => OneActiveRun
  BY DEF IInv
<1> QED BY <1>1, Invariance, PTL

\* A run's completion is never enqueued before its creation, whatever shuts the
\* sender down in between.  (Its data may be: see CreationFirst.)
THEOREM CompletionFollowsCreation ==
  Spec => []CreationBeforeCompletion
<1>1. IInv => CreationBeforeCompletion
  BY DEF IInv, LogOK
<1> QED BY <1>1, Invariance, PTL

\* Each timed call is counted in exactly one place, although the sender thread
\* and the exit drain the same histograms.
THEOREM CallsAreConserved ==
  Spec => []CallsConserved
<1>1. IInv => CallsConserved
  BY DEF IInv
<1> QED BY <1>1, Invariance, PTL

\* When a completion is enqueued, every call timed before the exit began was
\* handed to enqueue, or is in the hands of on_tick.
THEOREM FinalDrainComplete ==
  Spec => []FinalDrain
<1>1. IInv => FinalDrain
  BY DEF IInv, DrainOK
<1> QED BY <1>1, Invariance, PTL

-----------------------------------------------------------------------------
(* The signal that wakes the sampler *)

\* From the look at active() to the clearing of the event, a span the sampler
\* has not seen has set the event or is about to.
OpenedIsSeen ==
  loop \in {"note", "wait", "clear"} /\ ~event =>
    \A t \in open : seen \/ at[t] \in {"wake", "set"}

\* The event stop() has set is there until the sampler, having cleared it,
\* comes to its last look at _stop.
StopIsSeen == halt = "done" => event \/ loop \in {"take", "ended"}

AwakeInv == ActivityTypeOK /\ OpenedIsSeen /\ StopIsSeen

\* A thread opens or closes a span, ends an operation or wakes the sampler.
LEMMA ProgramsKeepAwake ==
  ASSUME AwakeInv, NEW t \in Programs,
         \/ SpanOpens(t) \/ SpanCloses(t) \/ OpDone(t)
         \/ LookIdle(t) \/ ClearIdle(t) \/ SetEvent(t)
  PROVE  AwakeInv'
<1> USE DEF AwakeInv
<1>1. ActivityTypeOK'
  BY DEF ActivityTypeOK, SpanOpens, SpanCloses, OpDone, LookIdle, ClearIdle, SetEvent, Step
<1>2. StopIsSeen'
  BY DEF StopIsSeen, SpanOpens, SpanCloses, OpDone, LookIdle, ClearIdle, SetEvent
<1>3. OpenedIsSeen'
  <2>1. CASE SpanOpens(t) \/ SpanCloses(t) \/ OpDone(t)
    BY <2>1 DEF OpenedIsSeen, ActivityTypeOK, SpanOpens, SpanCloses, OpDone, Step
  <2>2. CASE LookIdle(t) \/ ClearIdle(t)
    BY <2>2 DEF OpenedIsSeen, ActivityTypeOK, LookIdle, ClearIdle, Step
  <2>3. CASE SetEvent(t)
    BY <2>3 DEF OpenedIsSeen, SetEvent
  <2> QED BY <2>1, <2>2, <2>3
<1> QED BY <1>1, <1>2, <1>3

\* The sampler goes round its loop, or is told to stop.
LEMMA LoopKeepsAwake ==
  ASSUME AwakeInv,
         \/ WindowOver \/ LoopTop \/ LookActive \/ NoteIdle \/ WaitOver
         \/ ClearEvent \/ TakeSample \/ SetStop \/ StopWakes
  PROVE  AwakeInv'
<1> USE DEF AwakeInv, programVars
<1>1. ActivityTypeOK'
  BY DEF ActivityTypeOK, WindowOver, LoopTop, LookActive, NoteIdle, WaitOver, ClearEvent,
         TakeSample, SetStop, StopWakes
<1>2. StopIsSeen'
  BY DEF StopIsSeen, WindowOver, LoopTop, LookActive, NoteIdle, WaitOver, ClearEvent,
         TakeSample, SetStop, StopWakes
<1>3. OpenedIsSeen'
  <2>1. CASE LookActive
    <3>1. open' = open /\ (seen' \/ open = {})
      BY <2>1 DEF LookActive
    <3> QED BY <3>1 DEF OpenedIsSeen
  <2>2. CASE WindowOver \/ LoopTop \/ NoteIdle \/ WaitOver \/ ClearEvent \/ TakeSample
    BY <2>2 DEF OpenedIsSeen, WindowOver, LoopTop, NoteIdle, WaitOver, ClearEvent, TakeSample
  <2>3. CASE SetStop \/ StopWakes
    BY <2>3 DEF OpenedIsSeen, SetStop, StopWakes
  <2> QED BY <2>1, <2>2, <2>3
<1> QED BY <1>1, <1>2, <1>3

\* The sampler never sits out a slow interval while a span it has not seen is
\* open, nor after stop(), wherever the threads stand between the unlocked
\* accesses to the flags.
THEOREM SpansWakeTheSampler == ActivitySpec => []SamplerAwake
<1>1. ActivityInit => AwakeInv
  BY DEF ActivityInit, AwakeInv, ActivityTypeOK, OpenedIsSeen, StopIsSeen
<1>2. AwakeInv /\ [ActivityNext]_activityVars => AwakeInv'
  <2> SUFFICES ASSUME AwakeInv, [ActivityNext]_activityVars PROVE AwakeInv'
    OBVIOUS
  <2>1. CASE ActivityNext
    BY <2>1, ProgramsKeepAwake, LoopKeepsAwake DEF ActivityNext
  <2>2. CASE UNCHANGED activityVars
    BY <2>2 DEF AwakeInv, ActivityTypeOK, OpenedIsSeen, StopIsSeen, activityVars, programVars
  <2> QED BY <2>1, <2>2
<1>3. AwakeInv => SamplerAwake
  BY DEF AwakeInv, OpenedIsSeen, StopIsSeen, SamplerAwake, SpanWakesSampler, SittingOut
<1> QED BY <1>1, <1>2, <1>3, PTL DEF ActivitySpec
=============================================================================
