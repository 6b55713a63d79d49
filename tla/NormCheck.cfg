CONSTANTS
  Half = 8
  Bound = 6
  N = 4
  Coeffs <- SmallCoeffs
SPECIFICATION Spec
INVARIANT TypeOK
INVARIANT NothingForgotten
INVARIANT SignerVerifierAgree
PROPERTY ExactDecisions
CHECK_DEADLOCK FALSE
