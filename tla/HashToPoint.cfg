CONSTANTS
  q = 3
  N = 4
  Over = 4
  Samples <- EdgeSamples
  Invalid = Invalid
SPECIFICATION Spec
INVARIANT TypeOK
INVARIANT Agreement
INVARIANT OrderKept
PROPERTY FreeDestination
CHECK_DEADLOCK FALSE
