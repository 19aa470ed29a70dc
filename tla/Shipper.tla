------------------------------- MODULE Shipper -------------------------------
(***************************************************************************)
(* The latency histograms of the Python agent on their way to the service: *)
(* OpHistograms and Shipper of vayunx/_ship.py, the recording end of the   *)
(* hook wrappers, and shutdown() of vayunx/_core.py.  A histogram is the   *)
(* set of the calls that were folded into it, an export request the set of *)
(* the calls in its histograms.                                            *)
(*                                                                         *)
(* Two threads run _tick: the shipper thread on every interval, and the    *)
(* thread that calls shutdown(), once.  Draining happens before _lock is   *)
(* taken, posting while it is held.                                        *)
(***************************************************************************)
EXTENDS Naturals, Sequences, FiniteSets

CONSTANTS Workers,     \* threads of the program
          QueueMax,    \* QUEUE_MAX
          MaxPending,  \* max_pending_exports
          MaxCalls     \* bound on the hooked calls made

ASSUME ShipperAssumption ==
  /\ IsFiniteSet(Workers)
  /\ QueueMax \in Nat \ {0} /\ MaxPending \in Nat \ {0} /\ MaxCalls \in Nat

VARIABLES live,      \* the hook wrappers still see this state in their cell
          step,      \* step[t]: where thread t is in a hook wrapper
          call,      \* call[t]: the call it makes, or made last
          made,      \* how many calls were made so far
          queue,     \* OpHistograms.queue
          hists,     \* OpHistograms.hists
          pc,        \* pc[k]: where ticker k is in _tick
          drained,   \* drained[k]: the histograms it swapped out
          lock,      \* the holder of Shipper._lock
          pending,   \* Shipper._pending
          stopping,  \* Shipper._stop is set
          answer,    \* what shutdown() has returned
          recorded,  \* history: the calls handed to the histograms
          early,     \* history: those handed over before shutdown() shipped
          gone       \* history: calls accepted, refused, dropped or lost

callVars == <<step, call, made, recorded>>
tickVars == <<pc, drained, lock, pending, gone>>
stopVars == <<live, stopping, answer, early>>
shipVars == <<callVars, queue, hists, tickVars, stopVars>>

Calls    == 1..MaxCalls
Tickers  == {"shipper", "shutdown"}
Nobody   == "nobody"
Exported == UNION {pending[i] : i \in 1..Len(pending)}

ShipInit ==
  /\ live = TRUE /\ stopping = FALSE /\ answer = "none" /\ early = {}
  /\ step = [t \in Workers |-> "idle"]
  /\ call = [t \in Workers |-> 0]
  /\ made = 0 /\ recorded = {} /\ queue = {} /\ hists = {}
  /\ pc = [k \in Tickers |-> IF k = "shipper" THEN "wait" ELSE "off"]
  /\ drained = [k \in Tickers |-> {}]
  /\ lock = Nobody /\ pending = <<>> /\ gone = {}

-----------------------------------------------------------------------------
(* A hooked call *)

\* The wrapper finds the state in its cell and runs the wrapped function.  A
\* "slow" hook reports through on_call, past the queue.
EnterCall(t) ==
  /\ live /\ step[t] = "idle" /\ made < MaxCalls
  /\ \E kind \in {"fast", "slow"} : step' = [step EXCEPT ![t] = kind]
  /\ made' = made + 1
  /\ call' = [call EXCEPT ![t] = made']
  /\ UNCHANGED <<recorded, queue, hists, tickVars, stopVars>>

\* It returns.  The length of the queue is read now and used a step later;
\* a call that raised is counted as an error and not timed.
LeaveCall(t) ==
  /\ step[t] \in {"fast", "slow"}
  /\ \/ step' = [step EXCEPT ![t] =
                   IF @ = "fast" /\ Cardinality(queue) < QueueMax THEN "append" ELSE "inline"]
     \/ step' = [step EXCEPT ![t] = "idle"]
  /\ UNCHANGED <<call, made, recorded, queue, hists, tickVars, stopVars>>

Recorded(t) ==
  /\ step' = [step EXCEPT ![t] = "idle"]
  /\ recorded' = recorded \cup {call[t]}
  /\ UNCHANGED <<call, made, tickVars, stopVars>>

AppendCall(t) ==
  /\ step[t] = "append"
  /\ queue' = queue \cup {call[t]}
  /\ Recorded(t) /\ UNCHANGED hists

RecordInline(t) ==
  /\ step[t] = "inline"
  /\ hists' = hists \cup {call[t]}
  /\ Recorded(t) /\ UNCHANGED queue

-----------------------------------------------------------------------------
(* Folding and draining *)

\* OpHistograms.aggregate
Fold == hists' = hists \cup queue /\ queue' = {}

Go(k, there) == pc' = [pc EXCEPT ![k] = there]

\* The shipper thread wakes up; after an export interval it ships.
Aggregate ==
  /\ pc["shipper"] = "wait" /\ ~stopping
  /\ Fold
  /\ UNCHANGED <<callVars, tickVars, stopVars>>

IntervalOver ==
  /\ pc["shipper"] = "wait" /\ ~stopping
  /\ Fold /\ Go("shipper", "drain")
  /\ UNCHANGED <<callVars, drained, lock, pending, gone, stopVars>>

ThreadEnd ==
  /\ pc["shipper"] = "wait" /\ stopping
  /\ Go("shipper", "ended")
  /\ UNCHANGED <<callVars, queue, hists, drained, lock, pending, gone, stopVars>>

\* drain() folds once more, then swaps the histograms out.
Drain(k) ==
  /\ pc[k] = "drain"
  /\ Fold /\ Go(k, "swap")
  /\ UNCHANGED <<callVars, drained, lock, pending, gone, stopVars>>

WrongSwap(k) ==   \* the histograms are copied, not swapped
  /\ pc[k] = "swap"
  /\ drained' = [drained EXCEPT ![k] = hists] /\ hists' = hists
  /\ Go(k, "lock")
  /\ UNCHANGED <<callVars, queue, lock, pending, gone, stopVars>>

Swap(k) ==
  /\ pc[k] = "swap"
  /\ drained' = [drained EXCEPT ![k] = hists] /\ hists' = {}
  /\ Go(k, "lock")
  /\ UNCHANGED <<callVars, queue, lock, pending, gone, stopVars>>

-----------------------------------------------------------------------------
(* Shipping *)

\* _tick returns: the shipper goes back to its loop, shutdown() to its caller.
Ticked(k, sent) ==
  /\ Go(k, IF k = "shipper" THEN "wait" ELSE "ended")
  /\ answer' = IF k = "shipper" THEN answer ELSE IF sent THEN "all sent" ELSE "not all sent"
  /\ UNCHANGED <<live, stopping, early>>

\* How many exports there are beyond max_pending_exports; the oldest go.
Surplus(q) == IF Len(q) > MaxPending THEN Len(q) - MaxPending ELSE 0
Kept(q)    == SubSeq(q, Surplus(q) + 1, Len(q))
Dropped(q) == UNION {q[i] : i \in 1..Surplus(q)}

\* Takes _lock; what was drained becomes an export request.
Build(k) ==
  /\ pc[k] = "lock" /\ lock = Nobody
  /\ LET all == IF drained[k] = {} THEN pending ELSE Append(pending, drained[k])
     IN pending' = Kept(all) /\ gone' = gone \cup Dropped(all)
  /\ drained' = [drained EXCEPT ![k] = {}]
  /\ lock' = k /\ Go(k, "post")
  /\ UNCHANGED <<callVars, queue, hists, stopVars>>

\* An exception while the request is built: what was drained is gone.
BuildFails(k) ==
  /\ pc[k] = "lock" /\ lock = Nobody /\ drained[k] # {}
  /\ gone' = gone \cup drained[k]
  /\ drained' = [drained EXCEPT ![k] = {}]
  /\ Ticked(k, FALSE)
  /\ UNCHANGED <<callVars, queue, hists, lock, pending>>

\* The oldest export is answered for good: 2xx, or a 4xx but 408 and 429.
PostDecided(k) ==
  /\ pc[k] = "post" /\ pending # <<>>
  /\ pending' = Tail(pending)
  /\ gone' = gone \cup Head(pending)
  /\ UNCHANGED <<callVars, queue, hists, pc, drained, lock, stopVars>>

WrongPostFails(k) ==   \* the lock is kept
  /\ pc[k] = "post" /\ pending # <<>>
  /\ lock' = lock /\ Ticked(k, FALSE)
  /\ UNCHANGED <<callVars, queue, hists, drained, pending, gone>>

PostFails(k) ==
  /\ pc[k] = "post" /\ pending # <<>>
  /\ lock' = Nobody /\ Ticked(k, FALSE)
  /\ UNCHANGED <<callVars, queue, hists, drained, pending, gone>>

\* Nothing is left, or the deadline is over.
TickDone(k) ==
  /\ pc[k] = "post"
  /\ lock' = Nobody /\ Ticked(k, pending = <<>>)
  /\ UNCHANGED <<callVars, queue, hists, drained, pending, gone>>

-----------------------------------------------------------------------------
(* shutdown(): the wrappers turn into pass-throughs; after uninstall(), stop() *)

CellCleared ==
  /\ live /\ live' = FALSE
  /\ UNCHANGED <<callVars, queue, hists, tickVars, stopping, answer, early>>

StopShipper ==
  /\ ~live /\ ~stopping
  /\ stopping' = TRUE /\ early' = recorded
  /\ Go("shutdown", "drain")
  /\ UNCHANGED <<callVars, queue, hists, drained, lock, pending, gone, live, answer>>

-----------------------------------------------------------------------------
Tick(k) == \/ Drain(k) \/ Swap(k) \/ Build(k) \/ BuildFails(k)
           \/ PostDecided(k) \/ PostFails(k) \/ TickDone(k)

ShipNext ==
  \/ \E t \in Workers : \/ EnterCall(t) \/ LeaveCall(t) \/ AppendCall(t) \/ RecordInline(t)
  \/ Aggregate \/ IntervalOver \/ ThreadEnd
  \/ \E k \in Tickers : Tick(k)
  \/ CellCleared \/ StopShipper

\* Both tickers run on their own threads and every POST has a timeout.
ShipFairness ==
  /\ WF_shipVars(IntervalOver) /\ WF_shipVars(ThreadEnd) /\ WF_shipVars(StopShipper)
  /\ \A k \in Tickers : WF_shipVars(Tick(k))

ShipSpec == ShipInit /\ [][ShipNext]_shipVars /\ ShipFairness

-----------------------------------------------------------------------------
(* Properties *)

\* Types, and the bound on pending exports that _tick keeps.
ShipTypeOK ==
  /\ live \in BOOLEAN /\ stopping \in BOOLEAN
  /\ answer \in {"none", "all sent", "not all sent"}
  /\ step \in [Workers -> {"idle", "fast", "slow", "append", "inline"}]
  /\ call \in [Workers -> Calls \cup {0}] /\ made \in Calls \cup {0}
  /\ recorded \subseteq Calls /\ early \subseteq Calls
  /\ queue \subseteq Calls /\ hists \subseteq Calls /\ gone \subseteq Calls
  /\ pc \in [Tickers -> {"off", "wait", "drain", "swap", "lock", "post", "ended"}]
  /\ drained \in [Tickers -> SUBSET Calls]
  /\ lock \in Tickers \cup {Nobody}
  /\ pending \in Seq(SUBSET Calls) /\ Len(pending) <= MaxPending

\* Whatever two ticks and the program's threads do, a recorded call is in one
\* place and only there: no call is counted in two exports, and none
\* disappears without having been answered for, dropped or lost in _tick.
ShippedOnce ==
  LET mine == drained["shipper"]
      its  == drained["shutdown"]
  IN /\ recorded = queue \cup hists \cup mine \cup its \cup Exported \cup gone
     /\ queue \cap (hists \cup mine \cup its \cup Exported \cup gone) = {}
     /\ hists \cap (mine \cup its \cup Exported \cup gone) = {}
     /\ mine \cap (its \cup Exported \cup gone) = {}
     /\ its \cap (Exported \cup gone) = {}
     /\ Exported \cap gone = {}
     /\ \A i, j \in 1..Len(pending) : i # j => pending[i] \cap pending[j] = {}

\* The length check and the append of the wrappers are separate, so the queue
\* can exceed QUEUE_MAX, but by no more than one call for every other thread.
QueueBounded == Cardinality(queue) < QueueMax + Cardinality(Workers)

\* Histograms leave the process once, and memory is bounded.
CallsShippedOnce == ShipTypeOK /\ ShippedOnce /\ QueueBounded

\* While the agent runs, no call stays behind in the queue or the histograms.
LeavesTheProcess ==
  \A c \in Calls : c \in queue \cup hists ~> c \notin queue \cup hists \/ ~live

\* shutdown() comes back and the shipper thread ends, although the one may have
\* to wait for a POST of the other.
ShutdownReturns == ~live ~> answer # "none" /\ pc["shipper"] = "ended" /\ lock = Nobody

\* vayunx/_core.py:143 "True = everything sent", of what was recorded before
\* and neither refused by the service nor dropped as too old (both are counted).
TrueMeansSent == answer = "all sent" => early \subseteq gone
=============================================================================
