SPECIFICATION FairSpec
CONSTANTS
  Exps = {e1, e2}
  NoExp = NoExp
  Handlers = {h1}
  Total = 2
  MaxStops = 2
CHECK_DEADLOCK FALSE
INVARIANTS TypeOK OneAtATime CompleteHasAllTrials CancelStops ActiveIsRun
PROPERTIES EventuallySettled
