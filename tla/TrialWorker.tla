----------------------------- MODULE TrialWorker -----------------------------
(***************************************************************************)
(* The measurement of one Lab trial: _measure() and exact_percentiles() of *)
(* vayunx_lab/worker.py.  With a concurrency of one the operations run in  *)
(* a loop that keeps the raw durations; with more, threads claim one       *)
(* operation after another under a lock and time it into histograms of     *)
(* their own, merged when all have ended.                                  *)
(***************************************************************************)
EXTENDS Integers, FiniteSets

CONSTANTS Measurers,   \* the threads of a trial with concurrency
          MinOps,      \* operations a trial has at least
          ExactLimit,  \* EXACT_LIMIT: raw durations are kept up to this many
          MaxOps       \* bound on the operations before the deadline

ASSUME TrialAssumption == /\ IsFiniteSet(Measurers) /\ Measurers # {}
                          /\ MinOps \in Nat /\ ExactLimit \in Nat /\ MaxOps \in Nat

VARIABLES crew,       \* the threads that measure, one or all
          late,       \* perf() has passed the deadline
          claimed,    \* operations claimed (done[0], or hist.count in the loop)
          doing,      \* doing[m]: what a thread is at
          hand,       \* hand[m]: the operation it has claimed and not timed, or 0
          timed,      \* timed[m]: the operations in its histogram
          raw,        \* the operations whose duration is kept
          outcome     \* what the trial reports: its percentiles are exact or of the histogram

trialVars == <<crew, late, claimed, doing, hand, timed, raw, outcome>>

\* An operation goes by the number of its claim.

TrialInit ==
  /\ crew \in {{m} : m \in Measurers} \cup {Measurers}
  /\ late = FALSE /\ claimed = 0
  /\ doing = [m \in Measurers |-> IF m \in crew THEN "look" ELSE "ended"]
  /\ hand = [m \in Measurers |-> 0] /\ timed = [m \in Measurers |-> {}] /\ raw = {}
  /\ outcome = "none"

Alone == Cardinality(crew) = 1

\* One of the two would do.
WrongEnough == late \/ claimed >= MinOps
Enough == late /\ claimed >= MinOps

\* The look at the clock and at the count, and the claim, in one step.
Claim(m) ==
  /\ doing[m] = "look" /\ ~Enough
  /\ late \/ claimed < MaxOps
  /\ claimed' = claimed + 1
  /\ doing' = [doing EXCEPT ![m] = "op"] /\ hand' = [hand EXCEPT ![m] = claimed']
  /\ UNCHANGED <<crew, late, timed, raw, outcome>>

TimeOp(m) ==
  /\ doing[m] = "op"
  /\ doing' = [doing EXCEPT ![m] = "look"] /\ hand' = [hand EXCEPT ![m] = 0]
  /\ timed' = [timed EXCEPT ![m] = @ \cup {hand[m]}]
  /\ raw' = IF Alone /\ Cardinality(timed'[m]) <= ExactLimit THEN raw \cup {hand[m]} ELSE raw
  /\ UNCHANGED <<crew, late, claimed, outcome>>

\* An operation raises: it ends the loop, and the process with it, but of a
\* crew only the thread it ran on.
OpRaises(m) ==
  /\ doing[m] = "op"
  /\ doing' = [doing EXCEPT ![m] = "ended"]
  /\ outcome' = IF Alone THEN "failed" ELSE outcome
  /\ UNCHANGED <<crew, late, claimed, hand, timed, raw>>

SeesEnough(m) ==
  /\ doing[m] = "look" /\ Enough
  /\ doing' = [doing EXCEPT ![m] = "ended"]
  /\ UNCHANGED <<crew, late, claimed, hand, timed, raw, outcome>>

DeadlinePasses ==
  /\ ~late /\ late' = TRUE
  /\ UNCHANGED <<crew, claimed, doing, hand, timed, raw, outcome>>

\* All threads have ended and the histograms are merged.
Measured ==
  /\ outcome = "none" /\ \A m \in Measurers : doing[m] = "ended"
  /\ outcome' = IF Alone /\ raw # {} /\ \A m \in crew : Cardinality(timed[m]) <= ExactLimit
                THEN "exact" ELSE "histogram"
  /\ UNCHANGED <<crew, late, claimed, doing, hand, timed, raw>>

TrialNext ==
  \/ \E m \in Measurers : Claim(m) \/ TimeOp(m) \/ OpRaises(m) \/ SeesEnough(m)
  \/ DeadlinePasses \/ Measured

TrialSpec == TrialInit /\ [][TrialNext]_trialVars

-----------------------------------------------------------------------------
(* Properties *)

OpsTimed == UNION {timed[m] : m \in Measurers}

\* The threads an operation has raised in.
Raised == {m \in Measurers : doing[m] = "ended" /\ hand[m] # 0}

Claims == 1..claimed

TrialTypeOK ==
  /\ crew \in SUBSET Measurers /\ crew # {} /\ late \in BOOLEAN /\ claimed \in Nat
  /\ doing \in [Measurers -> {"look", "op", "ended"}] /\ hand \in [Measurers -> {0} \cup Claims]
  /\ timed \in [Measurers -> SUBSET Claims] /\ raw \in SUBSET Claims
  /\ outcome \in {"none", "failed", "exact", "histogram"}

\* Every operation claimed is timed once, by the thread that claimed it, is
\* under way in one thread or has raised in one.
OpsConserved ==
  \A o \in Claims :
    LET timers == {m \in Measurers : o \in timed[m]}
        holders == {m \in Measurers : o = hand[m]}
    IN /\ timers \cap holders = {}
       /\ \E m \in Measurers : timers \cup holders = {m}

HasResult == outcome \in {"exact", "histogram"}

\* A trial with a result has MinOps operations less those that raised, unless
\* all its threads ended so, and calls its percentiles exact only if it kept
\* every duration and nothing raised.
ResultIsHonest ==
  HasResult =>
    /\ Raised # crew => late /\ Cardinality(OpsTimed) + Cardinality(Raised) >= MinOps
    /\ outcome = "exact" => raw = OpsTimed /\ Raised = {}

\* A trial times what it claims and reports what it timed.
TrialHonest == TrialTypeOK /\ OpsConserved /\ ResultIsHonest

\* "at least min_ops operations are done" (src/vayunx_lab/worker.py:4).
MinOpsDone == HasResult => Cardinality(OpsTimed) >= MinOps
=============================================================================
