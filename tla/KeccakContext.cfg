CONSTANTS
  Output = 3
  Capacity = 5
  MaxCall = 7
  MaxOutput = 8
SPECIFICATION Spec
INVARIANT TypeOK
PROPERTY ImplementsStream
PROPERTY CallsReturn
