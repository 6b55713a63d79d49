CONSTANTS
  Prefix = 2
  PaddedSize = 4
  CTSize = 5
  Lengths <- SomeLengths
  Wide = Wide
  Capacities <- SomeCapacities
  m1 = m1
  Msgs <- OneMsg
  MaxRng = 7
SPECIFICATION Spec
INVARIANT TypeOK
INVARIANT ReleasedVerifies
INVARIANT OneFormPerType
INVARIANT SeedsFresh
INVARIANT InsideBuffer
CHECK_DEADLOCK FALSE
