\* One caller of flush() and shutdown(), every kind of batch boundary.
CONSTANTS
  r1 = r1
  r2 = r2
  Runs = {r1, r2}
  Callers = {c1}
  BatchSize = 2
  MaxQueue = 2
  MaxItems = 3
  MaxRefused = 1
  Offered <- MCOffered
SPECIFICATION Spec
INVARIANTS TypeOK CountsAreExact PostedIsHead QueueIsUndecided DeliveredMatchesFate
PROPERTIES DeliversInOrder
\* shutdown() ends the sender thread: the system really stops.
CHECK_DEADLOCK FALSE
