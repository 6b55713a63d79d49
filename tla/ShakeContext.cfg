CONSTANTS
  Rate = 3
  MaxCall = 7
  MaxInput = 8
  MaxOutput = 8
SPECIFICATION FairSpec
INVARIANT InsideRate
PROPERTY ImplementsStream
PROPERTY CallsReturn
