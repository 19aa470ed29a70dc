\* One run; its host may enqueue spans, samples and one completion, and may
\* shut down at any moment.  Two request threads, so that an attempt that was
\* given up is served next to its retry.
SPECIFICATION Spec
CONSTANTS
  r1 = r1
  h1 = h1
  h2 = h2
  Nobody = Nobody
  Runs = {r1}
  Handlers = {h1, h2}
  BatchSize = 2
  MaxItems = 4
  MaxRows = 5
  Offered <- MCOffered
INVARIANTS SentIsStored SpanOnce KnownRun
PROPERTY LateRowsAreSettled
SYMMETRY MCSymmetry
\* the sender stops for good after a shutdown
CHECK_DEADLOCK FALSE
