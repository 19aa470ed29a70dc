------------------------------ MODULE Summaries ------------------------------
(***************************************************************************)
(* When the sender thread comes to on_tick, which sends the operations'    *)
(* summaries: the loop of vayunx_profiler_sdk/sender.py once more, around  *)
(* the length of the queue.  BackgroundSender keeps the history of every   *)
(* item and so bounds their number; here the program may record for ever.  *)
(***************************************************************************)
EXTENDS Integers

CONSTANTS BatchLimit,    \* batch_size
          BacklogLimit   \* max_queue

ASSUME SummariesAssumption == BatchLimit \in Nat \ {0} /\ BacklogLimit \in Nat \ {0}

VARIABLES
  spot,      \* where the sender thread is in _loop
  backlog,   \* len(_queue)
  taken,     \* len(group)
  due,       \* flush_interval_s is over since last_tick
  unsent,    \* an operation's histogram holds calls
  shut       \* _stopped

summaryVars == <<spot, backlog, taken, due, unsent, shut>>

SummariesInit ==
  /\ spot = "top" /\ backlog = 0 /\ taken = 0
  /\ due = FALSE /\ unsent = FALSE /\ shut = FALSE

-----------------------------------------------------------------------------
(* The program's threads, and the clock.                                    *)

\* enqueue of spans and samples; a full queue refuses them.
EnqueueItem ==
  /\ ~shut /\ backlog < BacklogLimit
  /\ backlog' = backlog + 1
  /\ UNCHANGED <<spot, taken, due, unsent, shut>>

\* Op.__exit__ counts a call.
CallTimed ==
  /\ unsent' = TRUE
  /\ UNCHANGED <<spot, backlog, taken, due, shut>>

SenderStops ==
  /\ shut' = TRUE /\ backlog' = 0
  /\ UNCHANGED <<spot, taken, due, unsent>>

SummaryDue ==
  /\ due' = TRUE
  /\ UNCHANGED <<spot, backlog, taken, unsent, shut>>

-----------------------------------------------------------------------------
(* _loop.  Every wait in it has a timeout.                                  *)

RoundBegins ==
  /\ spot = "top"
  /\ spot' = IF shut THEN "ended" ELSE "tick"
  /\ UNCHANGED <<backlog, taken, due, unsent, shut>>

\* on_tick, at most once per interval: swap the histograms out, enqueue their
\* summaries, where the queue has room.
OnTick ==
  /\ spot = "tick"
  /\ spot' = "take"
  /\ IF due
     THEN /\ due' = FALSE /\ unsent' = FALSE
          /\ backlog' = IF unsent /\ ~shut /\ backlog < BacklogLimit THEN backlog + 1 ELSE backlog
     ELSE UNCHANGED <<due, unsent, backlog>>
  /\ UNCHANGED <<taken, shut>>

TakeItems ==
  /\ spot = "take" /\ backlog > 0
  /\ taken' \in {n \in 1..BatchLimit : n <= backlog}
  /\ spot' = "post"
  /\ UNCHANGED <<backlog, due, unsent, shut>>

\* Only an empty queue leads back to the top.
NothingTaken ==
  /\ spot = "take" /\ backlog = 0
  /\ spot' = "top"
  /\ UNCHANGED <<backlog, taken, due, unsent, shut>>

AnswerDecides ==
  /\ spot = "post"
  /\ spot' = IF shut THEN "ended" ELSE "take"
  /\ backlog' = IF shut THEN backlog ELSE backlog - taken
  /\ taken' = 0
  /\ UNCHANGED <<due, unsent, shut>>

AnswerRetries ==
  /\ spot = "post"
  /\ spot' = IF shut THEN "ended" ELSE "backoff"
  /\ taken' = 0
  /\ UNCHANGED <<backlog, due, unsent, shut>>

\* The wait is over; the outer loop goes on, not the inner one.

WrongAfterBackOff == "take"
AfterBackOff == "top"

BackOffEnds ==
  /\ spot = "backoff"
  /\ spot' = AfterBackOff
  /\ UNCHANGED <<backlog, taken, due, unsent, shut>>

LoopStep ==
  \/ RoundBegins \/ OnTick \/ TakeItems \/ NothingTaken
  \/ AnswerDecides \/ AnswerRetries \/ BackOffEnds

SummariesNext == EnqueueItem \/ CallTimed \/ SenderStops \/ SummaryDue \/ LoopStep

\* The sender thread runs and the clock goes on.  Nothing makes the program
\* record, and nothing makes it stop recording.
SummariesFairness == WF_summaryVars(LoopStep) /\ WF_summaryVars(SummaryDue)

SummariesSpec == SummariesInit /\ [][SummariesNext]_summaryVars /\ SummariesFairness

-----------------------------------------------------------------------------
(* Properties *)

\* The program pauses for good, or the service fails again and again.
Slack == <>[][~EnqueueItem]_summaryVars \/ []<>(spot = "backoff")

\* Timed calls leave their histogram, also while the service is down, if the
\* queue is given the chance to run empty: on_tick always comes again.
CallsLeave == Slack => (unsent ~> ~unsent \/ shut)

\* README: an op "sends one summary per second".
SummaryEverySecond == unsent ~> ~unsent \/ shut
=============================================================================
