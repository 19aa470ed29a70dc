\* Two threads of the program; a queue, a pending list and a thread pool that
\* run full; two generations of hooks and of Node states; a trial of one or
\* three threads; a sender whose queue holds more than one batch.
SPECIFICATION AgentsSpec
CONSTANTS
  Workers = {t1, t2}
  QueueMax = 1
  MaxPending = 1
  MaxCalls = 3
  Threads = {t1}
  Hooks = {outer, inner}
  Outer = {outer}
  Early = {inner}
  MaxInits = 2
  MaxNodeInits = 2
  MaxNodeCalls = 3
  MaxNodePending = 1
  Durations = {1, 9, 15, 17, 35}
  MaxRecords = 3
  MaxRows = 2
  MinCalls = 2
  Programs = {t1, t2}
  Measurers = {m1, m2, m3}
  MinOps = 3
  ExactLimit = 2
  MaxOps = 4
  BatchLimit = 2
  BacklogLimit = 3
INVARIANTS CallsShippedOnce HooksExact NodeExact LatencyExact SamplerAwake TrialHonest
PROPERTIES ShippingEnds CallsLeave
\* Programs end, and every count is bounded.
CHECK_DEADLOCK FALSE
