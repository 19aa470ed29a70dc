SPECIFICATION Spec
CONSTANTS
  Runs = {r1}
  Workers = {w1}
  Closers = {w1}
  Ops = {o1}
  NoRun = NoRun
  Ticker = Ticker
  BatchSize = 1
  MaxSpans = 1
  MaxCalls = 2
  MaxSamples = 0
CHECK_DEADLOCK FALSE
INVARIANTS LeftRunIsCompleted
