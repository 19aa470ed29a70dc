SPECIFICATION Spec
CONSTANTS
  Runs = {r1}
  Workers = {}
  Closers = {}
  Ops = {o1}
  NoRun = NoRun
  Ticker = Ticker
  BatchSize = 1
  MaxSpans = 0
  MaxCalls = 2
  MaxSamples = 0
CHECK_DEADLOCK FALSE
INVARIANTS CompletionLast
