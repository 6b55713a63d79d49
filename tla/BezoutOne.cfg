CONSTANTS
  W = 3
  len = 2
  q = 3
  Resultants <- SmallResultants
SPECIFICATION Spec
INVARIANT BezoutContract
CHECK_DEADLOCK FALSE
