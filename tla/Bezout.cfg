CONSTANTS
  W = 3
  len = 3
  q = 5
  Resultants <- SomeResultants
SPECIFICATION Spec
INVARIANT TypeOK
INVARIANT Cofactors
INVARIANT HelpersApply
INVARIANT Solved
INVARIANT GivesUpOnlyWhenItMust
CHECK_DEADLOCK FALSE
