-------------------------- MODULE BackgroundSender --------------------------
(***************************************************************************)
(* vayunx_profiler_sdk/sender.py: the queue between the profiled program   *)
(* and the profiler service.  Host threads call enqueue, flush and         *)
(* shutdown; one daemon thread takes groups off the queue, posts them      *)
(* without holding the lock and settles the answer under it.               *)
(*                                                                         *)
(* One action is one critical section of the condition variable _cond, or  *)
(* the unlocked POST.  Time is not modelled: a wait with a timeout may end *)
(* at any moment, so every interval, deadline and backoff delay is covered.*)
(***************************************************************************)
EXTENDS Telemetry, FiniteSets

CONSTANTS Callers,      \* host threads that call flush() and shutdown()
          MaxQueue,     \* max_queue: data items the queue holds
          Offered,      \* the <<kind, run>> pairs the host enqueues
          MaxItems,     \* bound: items accepted in a behaviour
          MaxRefused    \* bound: data items of one kind refused or dropped

ASSUME SenderAssumption ==
  /\ MaxQueue \in Nat
  /\ MaxItems \in Nat
  /\ MaxRefused \in Nat
  /\ Offered \subseteq Kinds \X Runs

VARIABLES
  queue,         \* _queue
  dataCount,     \* _data_count
  inFlight,      \* _in_flight
  flushNow,      \* _flush_now
  stopped,       \* _stopped
  everReached,   \* _ever_reached
  lastFailed,    \* _last_failed
  flushTimedOut, \* _flush_timed_out
  recorded,      \* _counters["*_recorded"], per data kind
  sent,          \* _counters["*_sent"], per data kind
  delivered,     \* _per_run: items sent, per run and data kind
  dropped,       \* _counters["dropped_*"], per data kind
  errors,        \* _counters["send_errors"] and ["internal_errors"]
  pc,            \* where the sender thread is in _loop
  group,         \* the local "group" of _loop
  outcome,       \* the local "outcome" of _loop
  call,          \* what each caller is executing
  wait,          \* whether a caller is inside _cond.wait in flush
  log, fate      \* history: items accepted, and what became of each

queueVars   == <<queue, dataCount, log, fate>>
countVars   == <<recorded, sent, delivered, dropped>>
healthVars  == <<everReached, lastFailed, flushTimedOut>>
threadVars  == <<pc, group, outcome, inFlight>>
callVars    == <<call, wait>>
vars == <<queueVars, countVars, healthVars, threadVars, callVars,
          errors, flushNow, stopped>>

-----------------------------------------------------------------------------
(* Helpers *)

(* Entries of q whose kind is in K. *)
CountOf(q, K) == Cardinality({i \in 1..Len(q) : q[i].kind \in K})

ControlWaiting == \E i \in 1..Len(queue) : queue[i].kind \in ControlKinds

(* WrongXxx definitions are seeded faults: each stands for a plausible bug  *)
(* in the definition that follows it, and no specification uses them.       *)

(* Adding this entry must wake the sender: control, or a full batch. *)
WrongUrgent(kind, count) == count >= BatchSize
Urgent(kind, count) == kind \in ControlKinds \/ count >= BatchSize

(* What notify_all does to the waiting sender thread and callers. *)
WokenSender  == IF pc = "waiting" THEN "woken" ELSE IF pc = "backoff" THEN "top" ELSE pc
WokenCallers == [c \in Callers |-> IF wait[c] = "blocked" THEN "woken" ELSE wait[c]]

Add(f, kind, n) == IF kind \in DataKinds THEN [f EXCEPT ![kind] = @ + n] ELSE f

(* What n entries of this kind weigh in _data_count: control weighs nothing. *)
WrongWeight(kind, n) == n
Weight(kind, n) == IF kind \in DataKinds THEN n ELSE 0

(* _per_run after n entries of a group got the outcome. *)
WrongCredit(result, run, kind, n) == [delivered EXCEPT ![run] = Add(@, kind, n)]
Credit(result, run, kind, n) ==
  IF result = "ok" THEN [delivered EXCEPT ![run] = Add(@, kind, n)] ELSE delivered

-----------------------------------------------------------------------------

Init ==
  /\ queue = <<>> /\ dataCount = 0 /\ log = <<>> /\ fate = <<>>
  /\ inFlight = FALSE /\ flushNow = FALSE /\ stopped = FALSE
  /\ everReached = FALSE /\ lastFailed = FALSE /\ flushTimedOut = FALSE
  /\ recorded = [k \in DataKinds |-> 0]
  /\ dropped = [k \in DataKinds |-> 0]
  /\ sent = [k \in DataKinds |-> 0]
  /\ delivered = [r \in Runs |-> [k \in DataKinds |-> 0]]
  /\ errors = [send |-> 0, internal |-> 0]
  /\ pc = "none" /\ group = <<>> /\ outcome = "none"
  /\ call = [c \in Callers |-> "idle"]
  /\ wait = [c \in Callers |-> "no"]

-----------------------------------------------------------------------------
(* enqueue(kind, run_id, payload), from any thread: three ways out.         *)

RefuseStopped(kind) ==
  /\ stopped
  /\ kind \in DataKinds
  /\ dropped[kind] < MaxRefused
  /\ recorded' = Add(recorded, kind, 1)
  /\ dropped' = Add(dropped, kind, 1)
  /\ UNCHANGED <<queueVars, sent, delivered, healthVars, threadVars, callVars,
                 errors, flushNow, stopped>>

WrongRefuseFull(kind) ==    \* make room by evicting the oldest entry
  /\ ~stopped
  /\ kind \in DataKinds
  /\ dataCount >= MaxQueue
  /\ dropped[kind] < MaxRefused
  /\ queue # <<>>
  /\ recorded' = Add(recorded, kind, 1)
  /\ dropped' = Add(dropped, queue[1].kind, 1)
  /\ queue' = Append(Tail(queue), [kind |-> kind, run |-> queue[1].run, id |-> Len(log) + 1])
  /\ UNCHANGED <<dataCount, log, fate, sent, delivered, healthVars, threadVars,
                 callVars, errors, flushNow, stopped>>

RefuseFull(kind) ==
  /\ ~stopped
  /\ kind \in DataKinds
  /\ dataCount >= MaxQueue
  /\ dropped[kind] < MaxRefused
  /\ recorded' = Add(recorded, kind, 1)
  /\ dropped' = Add(dropped, kind, 1)
  /\ UNCHANGED <<queueVars, sent, delivered, healthVars, threadVars, callVars,
                 errors, flushNow, stopped>>

Accept(kind, run) ==
  LET item == [kind |-> kind, run |-> run, id |-> Len(log) + 1] IN
  /\ ~stopped
  /\ kind \in DataKinds => dataCount < MaxQueue
  /\ Len(log) < MaxItems
  /\ recorded' = Add(recorded, kind, 1)
  /\ dataCount' = dataCount + Weight(kind, 1)
  /\ queue' = Append(queue, item)
  /\ log' = Append(log, item)
  /\ pc' = IF pc = "none" THEN "top"                    \* _ensure_thread
           ELSE IF Urgent(kind, dataCount') THEN WokenSender ELSE pc
  /\ wait' = IF Urgent(kind, dataCount') THEN WokenCallers ELSE wait
  /\ UNCHANGED <<fate, sent, delivered, dropped, healthVars, group, outcome,
                 inFlight, call, errors, flushNow, stopped>>

Enqueue(kind, run) == RefuseStopped(kind) \/ RefuseFull(kind) \/ Accept(kind, run)

-----------------------------------------------------------------------------
(* flush(timeout): ask for a drain, then wait for it, but not for ever.     *)

Drained == queue = <<>> /\ ~inFlight

(* Leaving flush(): a plain caller is done, shutdown() goes on to stop.     *)
Return(c) ==
  /\ wait' = [wait EXCEPT ![c] = "no"]
  /\ call' = [call EXCEPT ![c] = IF call[c] = "shutdown" THEN "stop" ELSE "idle"]

(* The first critical section up to the first wait.  shutdown() comes here  *)
(* from its look at _stopped, another one may have stopped the sender since.*)
StartFlush(c, operation) ==
  /\ call[c] = IF operation = "shutdown" THEN "looked" ELSE "idle"
  /\ flushNow' = TRUE
  /\ pc' = WokenSender
  /\ wait' = [WokenCallers EXCEPT ![c] = IF Drained THEN "no" ELSE "blocked"]
  /\ call' = [call EXCEPT ![c] = IF ~Drained THEN operation
                               ELSE IF operation = "shutdown" THEN "stop" ELSE "idle"]
  /\ UNCHANGED <<queueVars, countVars, healthVars, group, outcome, inFlight,
                 errors, stopped>>

(* Notified: look again, leave or wait for the rest of the timeout.         *)
Recheck(c) ==
  /\ wait[c] = "woken"
  /\ IF Drained THEN Return(c)
                ELSE wait' = [wait EXCEPT ![c] = "blocked"] /\ UNCHANGED call
  /\ UNCHANGED <<queueVars, countVars, healthVars, threadVars, errors, flushNow, stopped>>

(* The deadline passes: leave, with or without success.                     *)
WrongDeadline(c) ==         \* wait() without a timeout
  /\ wait[c] # "no" /\ Drained
  /\ Return(c)
  /\ UNCHANGED <<queueVars, countVars, healthVars, threadVars, errors, flushNow, stopped>>
Deadline(c) ==
  /\ wait[c] # "no"
  /\ flushTimedOut' = (flushTimedOut \/ ~Drained)
  /\ Return(c)
  /\ UNCHANGED <<queueVars, countVars, everReached, lastFailed, threadVars,
                 errors, flushNow, stopped>>

(* shutdown() of a stopped sender skips the flush; it looks without lock.   *)
LookStopped(c) ==
  /\ call[c] = "idle"
  /\ call' = [call EXCEPT ![c] = IF stopped THEN "stop" ELSE "looked"]
  /\ UNCHANGED <<queueVars, countVars, healthVars, threadVars, wait, errors,
                 flushNow, stopped>>

(* Data entries of kind k the stop throws away.                             *)
Discarded(k) == CountOf(queue, {k})

Stop(c) ==
  /\ call[c] = "stop"
  /\ stopped' = TRUE
  /\ dropped' = [k \in DataKinds |-> dropped[k] + Discarded(k)]
  /\ queue' = <<>>
  /\ dataCount' = 0
  /\ fate' = fate \o [i \in 1..Len(queue) |-> "abandoned"]
  /\ pc' = WokenSender
  /\ wait' = WokenCallers
  /\ call' = [call EXCEPT ![c] = "idle"]
  /\ UNCHANGED <<log, recorded, sent, delivered, healthVars, group, outcome,
                 inFlight, errors, flushNow>>

Flush(c)    == StartFlush(c, "flush")
Shutdown(c) == LookStopped(c) \/ StartFlush(c, "shutdown")

-----------------------------------------------------------------------------
(* _loop, on the sender thread.                                             *)

(* Top of the loop: stop, sleep until the next interval, or go on.          *)
MaySleep == ~flushNow /\ dataCount < BatchSize /\ ~ControlWaiting

WrongMustExit == FALSE
MustExit == stopped

Sleep ==
  /\ pc = "top" /\ ~MustExit
  /\ MaySleep
  /\ pc' = "waiting"
  /\ UNCHANGED <<queueVars, countVars, healthVars, group, outcome, inFlight,
                 callVars, errors, flushNow, stopped>>

(* flush_interval_s is over.                                                *)
Interval ==
  /\ pc = "waiting"
  /\ pc' = "woken"
  /\ UNCHANGED <<queueVars, countVars, healthVars, group, outcome, inFlight,
                 callVars, errors, flushNow, stopped>>

(* Not sleeping, or no longer: consume the flush request and go to work.    *)
Start ==
  /\ \/ pc = "woken"
     \/ pc = "top" /\ ~MustExit /\ ~MaySleep
  /\ flushNow' = FALSE
  /\ pc' = IF MustExit THEN "exited" ELSE "tick"
  /\ UNCHANGED <<queueVars, countVars, healthVars, group, outcome, inFlight,
                 callVars, errors, stopped>>

Exit ==
  /\ pc = "top" /\ MustExit
  /\ pc' = "exited"
  /\ UNCHANGED <<queueVars, countVars, healthVars, group, outcome, inFlight,
                 callVars, errors, flushNow, stopped>>

(* on_tick runs without the lock; what it enqueues is an Enqueue like any.  *)
Tick ==
  /\ pc = "tick"
  /\ pc' = "take"
  /\ UNCHANGED <<queueVars, countVars, healthVars, group, outcome, inFlight,
                 callVars, errors, flushNow, stopped>>

TakeGroup ==
  /\ pc = "take"
  /\ \E n \in 1..Len(queue) :
       /\ IsGroup(queue, n)
       /\ group' = SubSeq(queue, 1, n)
  /\ inFlight' = TRUE
  /\ pc' = "post"
  /\ UNCHANGED <<queueVars, countVars, healthVars, outcome, callVars, errors,
                 flushNow, stopped>>

NothingToTake ==
  /\ pc = "take" /\ queue = <<>>
  /\ pc' = "top"
  /\ wait' = WokenCallers
  /\ UNCHANGED <<queueVars, countVars, healthVars, group, outcome, inFlight,
                 call, errors, flushNow, stopped>>

(* The POST, without the lock: any answer the transport can give.           *)
Post(answer) ==
  /\ pc = "post"
  /\ pc' = "settle"
  /\ outcome' = Verdict(group[1].kind, answer)
  /\ errors' = IF outcome' # "dropped" THEN errors
               ELSE IF answer = "exception" THEN [errors EXCEPT !.internal = @ + 1]
               ELSE [errors EXCEPT !.send = @ + 1]
  /\ UNCHANGED <<queueVars, countVars, healthVars, group, inFlight, callVars,
                 flushNow, stopped>>

(* The answer is in, under the lock again.  In all cases the waiting        *)
(* callers are notified and the group is forgotten.                         *)
Settled ==
  /\ pc = "settle"
  /\ inFlight' = FALSE
  /\ wait' = WokenCallers
  /\ group' = <<>>
  /\ outcome' = "none"
  /\ UNCHANGED <<recorded, log, call, errors, flushNow, stopped>>

(* shutdown() already accounted for the queue: the answer is not counted.   *)
WrongAccountedFor == FALSE
AccountedFor == stopped

SettleStopped ==
  /\ Settled
  /\ AccountedFor
  /\ pc' = "exited"
  /\ UNCHANGED <<queue, dataCount, fate, sent, delivered, dropped, healthVars>>

SettleRetry ==
  /\ Settled
  /\ ~AccountedFor /\ outcome = "retry"
  /\ lastFailed' = TRUE
  /\ pc' = "retry"
  /\ UNCHANGED <<queue, dataCount, fate, sent, delivered, dropped, everReached,
                 flushTimedOut>>

SettleDecided ==
  LET kind == group[1].kind
      n    == Len(group)
      ok   == outcome = "ok"
  IN
  /\ Settled
  /\ ~AccountedFor /\ outcome # "retry"
  /\ queue' = SubSeq(queue, n + 1, Len(queue))
  /\ dataCount' = dataCount - Weight(kind, n)
  /\ sent' = IF ok THEN Add(sent, kind, n) ELSE sent
  /\ delivered' = Credit(outcome, group[1].run, kind, n)
  /\ dropped' = IF ok THEN dropped ELSE Add(dropped, kind, n)
  /\ fate' = fate \o [i \in 1..n |-> IF ok THEN "sent" ELSE "rejected"]
  /\ everReached' = TRUE /\ lastFailed' = FALSE /\ flushTimedOut' = FALSE
  /\ pc' = "take"

(* After a retryable failure: a wait that shutdown() must cut short.        *)
BackOff ==
  /\ pc = "retry"
  /\ pc' = IF stopped THEN "top" ELSE "backoff"
  /\ UNCHANGED <<queueVars, countVars, healthVars, group, outcome, inFlight,
                 callVars, errors, flushNow, stopped>>

BackOffOver ==
  /\ pc = "backoff"
  /\ pc' = "top"
  /\ UNCHANGED <<queueVars, countVars, healthVars, group, outcome, inFlight,
                 callVars, errors, flushNow, stopped>>

Settle == SettleStopped \/ SettleRetry \/ SettleDecided

SenderThread ==
  \/ Sleep \/ Start \/ Exit \/ Tick \/ TakeGroup \/ NothingToTake
  \/ Settle \/ BackOff \/ BackOffOver

Next ==
  \/ \E offer \in Offered : Enqueue(offer[1], offer[2])
  \/ \E c \in Callers : Flush(c) \/ Shutdown(c) \/ Recheck(c) \/ Deadline(c) \/ Stop(c)
  \/ SenderThread
  \/ Interval
  \/ \E answer \in Answers : Post(answer)

Spec == Init /\ [][Next]_vars

(* The thread runs, its timers fire, the transport has a timeout of its own,*)
(* and a caller inside flush() or shutdown() keeps running.                 *)
Fairness ==
  /\ WF_vars(SenderThread)
  /\ WF_vars(Interval)
  /\ WF_vars(\E answer \in Answers : Post(answer))
  /\ \A c \in Callers :
       WF_vars(Deadline(c)) /\ WF_vars(Stop(c)) /\ WF_vars(StartFlush(c, "shutdown"))

FairSpec == Spec /\ Fairness

-----------------------------------------------------------------------------
(* Properties *)

(* Every variable of the sender keeps its type: in particular no counter,   *)
(* nor the shadow count of queued data items, ever goes below zero.         *)
TypeOK ==
  /\ queue \in Seq(Items) /\ log \in Seq(Items) /\ group \in Seq(Items)
  /\ fate \in Seq({"sent", "rejected", "abandoned"})
  /\ dataCount \in Nat
  /\ inFlight \in BOOLEAN /\ flushNow \in BOOLEAN /\ stopped \in BOOLEAN
  /\ everReached \in BOOLEAN /\ lastFailed \in BOOLEAN /\ flushTimedOut \in BOOLEAN
  /\ recorded \in [DataKinds -> Nat]
  /\ sent \in [DataKinds -> Nat]
  /\ dropped \in [DataKinds -> Nat]
  /\ delivered \in [Runs -> [DataKinds -> Nat]]
  /\ errors \in [send : Nat, internal : Nat]
  /\ pc \in {"none", "top", "waiting", "woken", "tick", "take", "post", "settle",
             "retry", "backoff", "exited"}
  /\ outcome \in {"none", "ok", "retry", "dropped"}
  /\ call \in [Callers -> {"idle", "flush", "looked", "shutdown", "stop"}]
  /\ wait \in [Callers -> {"no", "blocked", "woken"}]

(* stats() adds up at every moment, also across overflow, rejection and a   *)
(* shutdown with a POST in flight: each recorded item is sent, dropped or   *)
(* still queued, and counted once.                                          *)
Accounting ==
  \A k \in DataKinds : recorded[k] = sent[k] + dropped[k] + CountOf(queue, {k})

(* The shadow counter that decides on overflow and on full batches is the   *)
(* number of data items in the queue, and the queue respects max_queue.     *)
DataCountExact ==
  /\ dataCount = CountOf(queue, DataKinds)
  /\ dataCount <= MaxQueue

(* Both together: an answer that is settled lowers the shadow counter and   *)
(* raises a counter of stats() for the same items, or neither stays exact.  *)
CountsAreExact == Accounting /\ DataCountExact

(* While a POST is out, the posted items are still the head of the queue    *)
(* unless shutdown emptied it, so the popleft calls that follow the answer  *)
(* remove the items that were posted and no others.                         *)
PostedIsHead ==
  pc \in {"post", "settle"} =>
    /\ inFlight
    /\ OneRequest(group, Len(group))
    /\ ~stopped => /\ Len(group) <= Len(queue)
                   /\ group = SubSeq(queue, 1, Len(group))

(* What is queued is exactly what was accepted and has no fate yet, in the  *)
(* order of acceptance: nothing is lost, duplicated or overtaken.           *)
QueueIsUndecided ==
  /\ Len(fate) <= Len(log)
  /\ queue = SubSeq(log, Len(fate) + 1, Len(log))

(* spans_sent and its sisters: the per-run counters count the items of that *)
(* run and kind whose fate is "sent".                                       *)
DeliveredMatchesFate ==
  \A r \in Runs, k \in DataKinds :
    delivered[r][k] = Cardinality({i \in 1..Len(fate) :
      fate[i] = "sent" /\ log[i].run = r /\ log[i].kind = k})

(* No wake-up is lost between the unlocked POST, the producers, flush() and *)
(* shutdown(): the thread sleeps only when nothing calls for it, backs off  *)
(* only while not stopped, and a flush() waits only for something pending.  *)
NoLostWakeup ==
  /\ pc = "waiting" => ~stopped /\ MaySleep
  /\ pc = "backoff" => ~stopped
  /\ \A c \in Callers : wait[c] = "blocked" => ~Drained

(* The sender keeps the promise of the delivery log.                        *)
Promise == INSTANCE DeliveryLog WITH open <- ~stopped
DeliversInOrder == Promise!LogSpec

(* The docstring's "control items are never dropped".                       *)
ControlNeverDropped ==
  \A i \in 1..Len(fate) : log[i].kind \in ControlKinds => fate[i] = "sent"

(* With a service that does not stay unreachable, whatever was accepted is  *)
(* sent or given up; nothing waits in the queue for ever.                   *)
ServiceRecovers ==
  SF_vars(\E answer \in Answers \ {"unavailable"} : Post(answer))
EventuallyDecided ==
  ServiceRecovers => \A n \in 1..MaxItems : Len(log) >= n ~> Len(fate) >= n

(* flush() and shutdown() come back even while the service is down.         *)
CallsReturn == \A c \in Callers : call[c] # "idle" ~> call[c] = "idle"

(* After shutdown() the sender thread ends, if it was ever started.         *)
ThreadEnds == stopped ~> pc \in {"none", "exited"}
=============================================================================
