CONSTANTS
  q = 17
  W = 15
  MaxLogn = 3
  NumPrimes = 2
  Prime <- CPrime
  MAX_BL_SMALL <- CSmall
  MAX_BL_LARGE <- CLarge
  MinBl <- CMin
  MaxBl <- CMax
  Step = 5
  Slack = 3
  KBits = 4
  RintBits = 14
  DEPTH_INT_FG = 1
  RBits = 10
  GMax = 7
  NormMax <- CNorm
  SmallMax = 2
  max_fg_bits <- CfgBits
  max_FG_bits <- CFGBits
  KeyNormMax = 9
  BNormMax = 400
  Targets <- CTargets
  Offsets <- COffsets
  Draws <- CDraws
SPECIFICATION Spec
INVARIANT LevelEquation KeyEquation KeyRestored SignatureVerifies
CHECK_DEADLOCK FALSE
