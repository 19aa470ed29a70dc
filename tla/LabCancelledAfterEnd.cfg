SPECIFICATION Spec
CONSTANTS
  Exps = {e1}
  NoExp = NoExp
  Handlers = {h1}
  Total = 1
  MaxStops = 0
CHECK_DEADLOCK FALSE
PROPERTIES OnlyActiveCancelled
