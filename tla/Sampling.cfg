CONSTANTS
  q = 17
  MaxLogn = 4
  p = 8191
  w <- CRoot
  Keys <- CKeys
  Messages <- CMessages
  Tapes <- CTapes
  fpr_inv_sigma2 <- CSigma
  l2bound <- CBound
SPECIFICATION Spec
INVARIANT SameSignature NearestPlane LeavesOfTheKey
CHECK_DEADLOCK FALSE
