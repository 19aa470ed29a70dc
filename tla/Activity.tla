------------------------------- MODULE Activity -------------------------------
(***************************************************************************)
(* The signal by which cryptographic activity wakes the adaptive sampler:  *)
(* Activity and Sampler._loop of vayunx_profiler_sdk/sampling.py, for a    *)
(* sampler without a fixed interval.  The threads of the program and the   *)
(* sampler thread interleave between any two accesses to the flags, since  *)
(* idle is read and written without the lock.                              *)
(***************************************************************************)
EXTENDS Naturals, FiniteSets

CONSTANT Programs   \* threads of the program

VARIABLES at,       \* at[t]: where thread t is in span_enter, op_done or wake
          open,     \* the threads inside a cryptographic span
          recent,   \* an operation finished within ACTIVE_WINDOW_NS
          idle,     \* Activity.idle
          event,    \* Activity.event is set
          loop,     \* where the sampler thread is in _loop
          seen,     \* what it has found active() to be
          halt      \* Sampler.stop(): "no", "flag" (_stop is set), "done"

programVars  == <<at, open, recent>>
activityVars == <<programVars, idle, event, loop, seen, halt>>

ActivityInit ==
  /\ at = [t \in Programs |-> "out"] /\ open = {} /\ recent = FALSE
  /\ idle = FALSE /\ event = FALSE /\ loop = "top" /\ seen = FALSE /\ halt = "no"

-----------------------------------------------------------------------------
(* The program *)

Step(t, there) == at' = [at EXCEPT ![t] = there]

\* span_enter counts the span under the lock; wake() comes after it.
WrongSpanOpens(t) ==   \* like op_done, wakes only a sampler seen idle
  /\ at[t] = "out" /\ t \notin open
  /\ open' = open \cup {t}
  /\ Step(t, "op") /\ UNCHANGED <<recent, idle, event, loop, seen, halt>>

SpanOpens(t) ==
  /\ at[t] = "out" /\ t \notin open
  /\ open' = open \cup {t}
  /\ Step(t, "wake") /\ UNCHANGED <<recent, idle, event, loop, seen, halt>>

SpanCloses(t) ==
  /\ at[t] = "out" /\ t \in open
  /\ open' = open \ {t}
  /\ UNCHANGED <<at, recent, idle, event, loop, seen, halt>>

\* op_done: the time is stored, then idle is looked at.
OpDone(t) ==
  /\ at[t] = "out"
  /\ recent' = TRUE
  /\ Step(t, "op") /\ UNCHANGED <<open, idle, event, loop, seen, halt>>

LookIdle(t) ==
  /\ at[t] = "op"
  /\ Step(t, IF idle THEN "wake" ELSE "out")
  /\ UNCHANGED <<open, recent, idle, event, loop, seen, halt>>

\* wake(): two stores.
ClearIdle(t) ==
  /\ at[t] = "wake" /\ idle' = FALSE
  /\ Step(t, "set") /\ UNCHANGED <<open, recent, event, loop, seen, halt>>

SetEvent(t) ==
  /\ at[t] = "set" /\ event' = TRUE
  /\ Step(t, "out") /\ UNCHANGED <<open, recent, idle, loop, seen, halt>>

WindowOver ==
  /\ recent /\ recent' = FALSE
  /\ UNCHANGED <<at, open, idle, event, loop, seen, halt>>

-----------------------------------------------------------------------------
(* Sampler._loop and stop() *)

LoopTop ==
  /\ loop = "top"
  /\ loop' = IF halt # "no" THEN "ended" ELSE "look"
  /\ UNCHANGED <<programVars, idle, event, seen, halt>>

LookActive ==
  /\ loop = "look" /\ loop' = "note"
  /\ seen' = (open # {} \/ recent)
  /\ UNCHANGED <<programVars, idle, event, halt>>

NoteIdle ==
  /\ loop = "note" /\ loop' = "wait"
  /\ idle' = ~seen
  /\ UNCHANGED <<programVars, event, seen, halt>>

\* The event, or the end of the interval: 10 ms if active, else a second.
WaitOver ==
  /\ loop = "wait" /\ loop' = "clear"
  /\ UNCHANGED <<programVars, idle, event, seen, halt>>

ClearEvent ==
  /\ loop = "clear" /\ loop' = "take"
  /\ event' = FALSE
  /\ UNCHANGED <<programVars, idle, seen, halt>>

TakeSample ==
  /\ loop = "take"
  /\ loop' = IF halt # "no" THEN "ended" ELSE "top"
  /\ UNCHANGED <<programVars, idle, event, seen, halt>>

SetStop ==
  /\ halt = "no" /\ halt' = "flag"
  /\ UNCHANGED <<programVars, idle, event, loop, seen>>

StopWakes ==
  /\ halt = "flag" /\ halt' = "done"
  /\ event' = TRUE
  /\ UNCHANGED <<programVars, idle, loop, seen>>

ActivityNext ==
  \/ \E t \in Programs : \/ SpanOpens(t) \/ SpanCloses(t) \/ OpDone(t)
                         \/ LookIdle(t) \/ ClearIdle(t) \/ SetEvent(t)
  \/ WindowOver
  \/ LoopTop \/ LookActive \/ NoteIdle \/ WaitOver \/ ClearEvent \/ TakeSample
  \/ SetStop \/ StopWakes

ActivitySpec == ActivityInit /\ [][ActivityNext]_activityVars

-----------------------------------------------------------------------------
(* Properties *)

ActivityTypeOK ==
  /\ at \in [Programs -> {"out", "op", "wake", "set"}] /\ open \subseteq Programs
  /\ {recent, idle, event, seen} \subseteq BOOLEAN
  /\ loop \in {"top", "look", "note", "wait", "clear", "take", "ended"}
  /\ halt \in {"no", "flag", "done"}

\* The sampler waits, and nothing has told it to stop waiting.
SittingOut == loop = "wait" /\ ~event

\* "Crypto activity wakes the sampler immediately" (sampling.py:12): it never
\* sits out a slow interval while a span is open, although event.clear() may
\* wipe out a wake-up and idle be set after it was cleared; nor one after
\* stop(), which has to join it.
SpanWakesSampler ==
  SittingOut => /\ \A t \in open : seen \/ at[t] \in {"wake", "set"}
                /\ halt # "done"

\* The sampler is awake while a cryptographic span is open, whatever the order
\* of the unlocked accesses to idle and the event.
SamplerAwake == ActivityTypeOK /\ SpanWakesSampler

\* The same of an operation: it does not hold, since one that finishes between
\* LookActive and NoteIdle finds idle not set yet.
OpWakesSampler ==
  SittingOut /\ ~seen /\ recent => \E t \in Programs : at[t] # "out"
=============================================================================
