\* Two runs, a worker that may also shut the client down, one operation.
SPECIFICATION ClientSpec
CONSTANTS
  r1 = r1
  r2 = r2
  Runs = {r1, r2}
  Workers = {w1}
  Closers = {w1}
  Ops = {o1}
  NoRun = NoRun
  Ticker = Ticker
  BatchSize = 1
  MaxSpans = 1
  MaxCalls = 2
  MaxSamples = 1
\* Every run is left, and every count is bounded.
CHECK_DEADLOCK FALSE
INVARIANTS TypeOK OneActiveRun CallsConserved FinalDrain
PROPERTIES ExitReturns
