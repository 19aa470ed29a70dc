\* A queue of more than one batch, and a program that never stops recording.
SPECIFICATION SummariesSpec
CONSTANTS
  BatchLimit = 2
  BacklogLimit = 3
\* shutdown() ends the sender thread.
CHECK_DEADLOCK FALSE
PROPERTIES SummaryEverySecond
