------------------------------ MODULE NodeAgent ------------------------------
(***************************************************************************)
(* The Node.js agent: State, init() and shutdown() of sdk-node/src/core.ts,*)
(* the wrapper kinds of hooks.ts and the Shipper of ship.ts.  Everything   *)
(* runs on one event loop: an action is what runs between two points at    *)
(* which the loop may turn to something else, or at which a synchronous    *)
(* hooked call runs the program's code.                                    *)
(*                                                                         *)
(* Each init() makes a numbered state of its own with its own shipper.  A  *)
(* call is recorded in the state its wrapper saw when it began, however    *)
(* late an asynchronous one ends; a hash object in the state that is there *)
(* when digest() is called.                                                *)
(***************************************************************************)
EXTENDS Naturals, Sequences, FiniteSets

CONSTANTS MaxNodeInits,       \* bound on init() calls that make a state
          MaxNodeCalls,   \* bound on the hooked calls and hash objects
          MaxNodePending  \* maxPendingExports

ASSUME NodeAssumption == MaxNodeInits \in Nat /\ MaxNodeCalls \in Nat /\ MaxNodePending \in Nat \ {0}

VARIABLES cur,       \* the current state, 0 if there is none
          born,      \* how many states were made
          started,   \* how many calls were started
          frames,    \* timed synchronous frames on the JavaScript stack
          flying,    \* asynchronous calls whose result is not there yet
          tagged,    \* hash objects that are timed
          depth,     \* depth[s]: State.depth
          inflight,  \* inflight[s]: State.inflightThreadpool
          series,    \* series[s]: OpHistograms.hists, as a set of calls
          exports,   \* exports[s]: Shipper.pending
          timer,     \* timer[s]: the interval timer is on
          busy,      \* busy[s]: who started the run under way, or "no"
          chained,   \* chained[s]: the ticks that wait for it
          result,    \* result[s]: what the shutdown() of s resolved to
          noted,     \* history: noted[s]: the calls recorded in s
          before,    \* history: those recorded when its shutdown() was called
          left,      \* history: left[s]: calls accepted, refused, dropped or lost
          sent,      \* history: sent[s]: those of them that were accepted
          hasty      \* history: a shutdown() without a state said true too early

nodeCallVars  == <<started, frames, flying, tagged, depth, inflight>>
shipperVars == <<exports, busy, chained, result, left, sent>>
nodeVars  == <<cur, born, nodeCallVars, series, noted, timer, before, hasty, shipperVars>>

States == 1..MaxNodeInits

NodeInit ==
  /\ cur = 0 /\ born = 0 /\ started = 0
  /\ frames = <<>> /\ flying = {} /\ tagged = {}
  /\ depth = [s \in States |-> 0] /\ inflight = [s \in States |-> 0]
  /\ series = [s \in States |-> {}] /\ exports = [s \in States |-> <<>>]
  /\ timer = [s \in States |-> FALSE]
  /\ busy = [s \in States |-> "no"] /\ chained = [s \in States |-> {}]
  /\ result = [s \in States |-> "none"]
  /\ noted = [s \in States |-> {}] /\ before = [s \in States |-> {}]
  /\ left = [s \in States |-> {}] /\ sent = [s \in States |-> {}] /\ hasty = FALSE

-----------------------------------------------------------------------------
(* Calls *)

Record(s, c) ==
  /\ series' = [series EXCEPT ![s] = @ \cup {c}]
  /\ noted' = [noted EXCEPT ![s] = @ \cup {c}]

\* A call inside another one of the same state belongs to that one.
Timed == cur # 0 /\ depth[cur] = 0 /\ started < MaxNodeCalls

\* A wrapped function is entered: a synchronous one, or the synchronous part
\* of an asynchronous one, which may occupy a thread of the pool.
EnterFrame ==
  /\ Timed
  /\ started' = started + 1
  /\ depth' = [depth EXCEPT ![cur] = @ + 1]
  /\ \E kind \in {"sync", "pool", "async"} :
       /\ frames' = Append(frames, [call |-> started', state |-> cur, kind |-> kind])
       /\ inflight' = IF kind = "pool" THEN [inflight EXCEPT ![cur] = @ + 1] ELSE inflight
  /\ UNCHANGED <<cur, born, flying, tagged, series, noted, timer, before, hasty, shipperVars>>

Top    == frames[Len(frames)]
Callers == SubSeq(frames, 1, Len(frames) - 1)

\* finish(): a call that failed is counted as an error and not timed.
WrongFinish(f) ==   \* the state of now, not that of the call's beginning
  /\ inflight' = IF f.kind = "pool" /\ cur # 0 THEN [inflight EXCEPT ![cur] = @ - 1] ELSE inflight
  /\ (cur # 0 /\ Record(cur, f.call)) \/ UNCHANGED <<series, noted>>

Finish(f) ==
  /\ inflight' = IF f.kind = "pool" THEN [inflight EXCEPT ![f.state] = @ - 1] ELSE inflight
  /\ Record(f.state, f.call) \/ UNCHANGED <<series, noted>>

\* The original calls the callback before it returns: the call is finished,
\* what the callback does still belongs to it.
CalledBack ==
  /\ frames # <<>> /\ Top.kind \in {"pool", "async"}
  /\ frames' = Append(Callers, [Top EXCEPT !.kind = "done"])
  /\ Finish(Top)
  /\ UNCHANGED <<cur, born, started, flying, tagged, depth, timer, before, hasty, shipperVars>>

\* It returns.  If it is asynchronous it has been finished, or is now because
\* it threw or returned a plain value, or goes on.
LeaveFrame ==
  /\ frames # <<>>
  /\ frames' = Callers
  /\ depth' = [depth EXCEPT ![Top.state] = @ - 1]
  /\ \/ Top.kind # "done" /\ Finish(Top) /\ UNCHANGED flying
     \/ /\ Top.kind \in {"pool", "async"}
        /\ flying' = flying \cup {Top}
        /\ UNCHANGED <<inflight, series, noted>>
     \/ Top.kind = "done" /\ UNCHANGED <<flying, inflight, series, noted>>
  /\ UNCHANGED <<cur, born, started, tagged, timer, before, hasty, shipperVars>>

\* The promise settles or the callback is called.
Settled(f) ==
  /\ frames = <<>> /\ f \in flying
  /\ flying' = flying \ {f}
  /\ Finish(f)
  /\ UNCHANGED <<cur, born, started, frames, tagged, depth, timer, before, hasty, shipperVars>>

\* createHash() or createHmac() tags the object; digest() records it.
CreateHash ==
  /\ Timed
  /\ started' = started + 1
  /\ tagged' = tagged \cup {started'}
  /\ UNCHANGED <<cur, born, frames, flying, depth, inflight, series, noted, timer, before,
                 hasty, shipperVars>>

Digest(c) ==
  /\ c \in tagged
  /\ tagged' = tagged \ {c}
  /\ IF cur = 0 THEN UNCHANGED <<series, noted>>
     ELSE Record(cur, c) \/ UNCHANGED <<series, noted>>
  /\ UNCHANGED <<cur, born, started, frames, flying, depth, inflight, timer, before, hasty,
                 shipperVars>>

-----------------------------------------------------------------------------
(* Shipper *)

Overflow(q) == {i \in 1..Len(q) : i + MaxNodePending <= Len(q)}

\* A run ends; what that of shutdown() returns counts unless the deadline
\* was over before.
Resolved(s, who, answer) ==
  result' = IF who = "stop" /\ result[s] = "none" THEN [result EXCEPT ![s] = answer] ELSE result

\* The synchronous beginning of run(): drain, queue the export, drop the
\* oldest; with nothing to send the run is over.
StartRun(s, who) ==
  LET all == IF series[s] = {} THEN exports[s] ELSE Append(exports[s], series[s])
      kept == SubSeq(all, Cardinality(Overflow(all)) + 1, Len(all))
  IN /\ series' = [series EXCEPT ![s] = {}]
     /\ exports' = [exports EXCEPT ![s] = kept]
     /\ left' = [left EXCEPT ![s] = @ \cup UNION {all[i] : i \in Overflow(all)}]
     /\ busy' = [busy EXCEPT ![s] = IF kept = <<>> THEN "no" ELSE who]
     /\ IF kept = <<>> THEN Resolved(s, who, "true") ELSE UNCHANGED result

\* buildRequest() throws after the drain: the interval is lost, the run over.
BuildThrows(s, who) ==
  /\ series[s] # {}
  /\ series' = [series EXCEPT ![s] = {}]
  /\ left' = [left EXCEPT ![s] = @ \cup series[s]]
  /\ Resolved(s, who, "false")
  /\ UNCHANGED <<exports, busy>>

BeginRun(s, who) == busy[s] = "no" /\ (StartRun(s, who) \/ BuildThrows(s, who))

\* tick(): while a run is under way, another try is chained to its end.
NodeTick(s, who) ==
  \/ BeginRun(s, who) /\ UNCHANGED chained
  \/ /\ busy[s] # "no"
     /\ chained' = [chained EXCEPT ![s] = @ \cup {who}]
     /\ UNCHANGED <<series, exports, left, busy, result>>

\* One interval tick waits at a time (a bound: any number may).
IntervalTick(s) ==
  /\ frames = <<>> /\ timer[s] /\ "interval" \notin chained[s]
  /\ NodeTick(s, "interval")
  /\ UNCHANGED <<cur, born, nodeCallVars, noted, timer, before, hasty, sent>>

\* A chained tick tries again, some turns of the loop after the run it waited
\* for; one that finds another run under way goes on waiting.
NextTick(s, who) ==
  /\ frames = <<>> /\ who \in chained[s]
  /\ BeginRun(s, who)
  /\ chained' = [chained EXCEPT ![s] = @ \ {who}]
  /\ UNCHANGED <<cur, born, nodeCallVars, noted, timer, before, hasty, sent>>

EndRun(s, answer) ==
  /\ busy' = [busy EXCEPT ![s] = "no"]
  /\ Resolved(s, busy[s], answer)

\* The oldest export is answered, "ok" or "rejected", and settled; the next
\* one is posted unless the deadline is over.
Answered(s) ==
  /\ frames = <<>> /\ busy[s] # "no"
  /\ exports' = [exports EXCEPT ![s] = Tail(@)]
  /\ left' = [left EXCEPT ![s] = @ \cup Head(exports[s])]
  /\ sent' = [sent EXCEPT ![s] = @ \cup Head(exports[s])] \/ UNCHANGED sent
  /\ \/ Len(exports[s]) > 1 /\ UNCHANGED <<busy, result>>
     \/ EndRun(s, IF Len(exports[s]) = 1 THEN "true" ELSE "false")
  /\ UNCHANGED <<cur, born, nodeCallVars, series, noted, timer, before, hasty, chained>>

\* The post has "failed", or the deadline was over before it.
Failed(s) ==
  /\ frames = <<>> /\ busy[s] # "no"
  /\ EndRun(s, "false")
  /\ UNCHANGED <<cur, born, nodeCallVars, series, noted, timer, before, hasty, exports, chained,
                 left, sent>>

-----------------------------------------------------------------------------
(* init() and shutdown(); both run to their first await in one piece *)

NodeStart ==
  /\ cur = 0 /\ born < MaxNodeInits
  /\ born' = born + 1 /\ cur' = born'
  /\ timer' = [timer EXCEPT ![born'] = TRUE]
  /\ UNCHANGED <<nodeCallVars, series, noted, before, hasty, shipperVars>>

NodeShutdown ==
  /\ cur # 0
  /\ cur' = 0
  /\ timer' = [timer EXCEPT ![cur] = FALSE]
  /\ before' = [before EXCEPT ![cur] = noted[cur]]
  /\ NodeTick(cur, "stop")
  /\ UNCHANGED <<born, nodeCallVars, noted, hasty, sent>>

\* A shutdown() that finds no state resolves true at once, whatever the one
\* before it is still waiting for.
ShutdownAgain ==
  /\ cur = 0
  /\ hasty' = (hasty \/ \E s \in States : ~(before[s] \subseteq left[s]))
  /\ UNCHANGED <<cur, born, nodeCallVars, series, noted, timer, before, shipperVars>>

Stopping(s) == s <= born /\ cur # s

\* Promise.race with the deadline; or the spans could not be flushed.
DeadlineOver(s) ==
  /\ frames = <<>> /\ Stopping(s) /\ result[s] = "none"
  /\ result' = [result EXCEPT ![s] = "false"]
  /\ UNCHANGED <<cur, born, nodeCallVars, series, noted, timer, before, hasty, exports, busy, chained,
                 left, sent>>

NodeNext ==
  \/ EnterFrame \/ CalledBack \/ LeaveFrame \/ CreateHash
  \/ \E f \in flying : Settled(f)
  \/ \E c \in tagged : Digest(c)
  \/ \E s \in States : \/ IntervalTick(s) \/ Answered(s) \/ Failed(s) \/ DeadlineOver(s)
                       \/ \E who \in chained[s] : NextTick(s, who)
  \/ NodeStart \/ NodeShutdown \/ ShutdownAgain

NodeSpec == NodeInit /\ [][NodeNext]_nodeVars

-----------------------------------------------------------------------------
(* Properties *)

Waiting(s) == UNION {exports[s][i] : i \in 1..Len(exports[s])}

NodeCalls  == 1..MaxNodeCalls
NodeFrames == [call : NodeCalls, state : States, kind : {"sync", "pool", "async", "done"}]

NodeTypeOK ==
  /\ cur \in 0..MaxNodeInits /\ born \in 0..MaxNodeInits /\ started \in 0..MaxNodeCalls
  /\ frames \in Seq(NodeFrames) /\ flying \subseteq NodeFrames /\ tagged \subseteq NodeCalls
  /\ depth \in [States -> 0..1] /\ inflight \in [States -> 0..MaxNodeCalls]
  /\ series \in [States -> SUBSET NodeCalls] /\ exports \in [States -> Seq(SUBSET NodeCalls)]
  /\ timer \in [States -> BOOLEAN]
  /\ busy \in [States -> {"no", "interval", "stop"}]
  /\ chained \in [States -> SUBSET {"interval", "stop"}]
  /\ result \in [States -> {"none", "true", "false"}]
  /\ noted \in [States -> SUBSET NodeCalls] /\ before \in [States -> SUBSET NodeCalls]
  /\ left \in [States -> SUBSET NodeCalls] /\ sent \in [States -> SUBSET NodeCalls]
  /\ hasty \in BOOLEAN
  /\ \A s \in States : Len(exports[s]) <= MaxNodePending

\* A call is recorded once in one state, whatever became of that state since;
\* it is in the histograms, in one export, or gone for good.
NodeRecordedOnce ==
  /\ \A s \in States :
       /\ noted[s] = series[s] \cup Waiting(s) \cup left[s]
       /\ series[s] \cap Waiting(s) = {} /\ (series[s] \cup Waiting(s)) \cap left[s] = {}
       /\ \A i, j \in 1..Len(exports[s]) : i # j => exports[s][i] \cap exports[s][j] = {}
  /\ \A s1, s2 \in States : s1 # s2 => noted[s1] \cap noted[s2] = {}

\* The two counters that decide on nesting and on "threadpool_queue" stay
\* exact although calls end in another order, or in another state, than they
\* began.
CountersBalanced ==
  \A s \in States :
    /\ depth[s] = Cardinality({i \in 1..Len(frames) : frames[i].state = s})
    /\ inflight[s] =
         Cardinality({i \in 1..Len(frames) : frames[i].state = s /\ frames[i].kind = "pool"})
         + Cardinality({f \in flying : f.state = s /\ f.kind = "pool"})

\* When the shutdown() that stopped a state resolves true, nothing recorded
\* before it waits any more: it was answered, accepted or refused for good, or
\* dropped as too old or lost while an export was built, in this run or an
\* earlier one.  One run at a time, chained, is what gives Node this and the
\* Python agent not.
TrueMeansAnswered == \A s \in States : result[s] = "true" => before[s] \subseteq left[s]

\* Not so: "Resolves true when everything was sent" (core.ts:168).  Exports
\* that were refused or dropped count as done, and a shutdown() that finds no
\* state says true while that of the state is still posting.
NodeTrueMeansSent ==
  ~hasty /\ \A s \in States : result[s] = "true" => before[s] \subseteq sent[s]

\* Calls are recorded in one state, the counters are exact, and true means
\* that nothing is waiting.
NodeExact == NodeTypeOK /\ NodeRecordedOnce /\ CountersBalanced /\ TrueMeansAnswered
=============================================================================
