SPECIFICATION Spec
CONSTANTS
  Runs = {r1}
  Workers = {w1}
  Closers = {}
  Ops = {o1}
  NoRun = NoRun
  Ticker = Ticker
  BatchSize = 1
  MaxSpans = 1
  MaxCalls = 1
  MaxSamples = 0
CHECK_DEADLOCK FALSE
INVARIANTS CreationFirst
