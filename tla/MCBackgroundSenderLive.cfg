\* Two callers that race flush() against shutdown(), under fairness.
CONSTANTS
  r1 = r1
  r2 = r2
  Runs = {r1}
  Callers = {c1, c2}
  BatchSize = 2
  MaxQueue = 2
  MaxItems = 2
  MaxRefused = 1
  Offered <- MCFewOffered
SPECIFICATION FairSpec
INVARIANTS NoLostWakeup
PROPERTIES EventuallyDecided CallsReturn ThreadEnds
CHECK_DEADLOCK FALSE
