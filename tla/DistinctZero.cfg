CONSTANTS
  Universe = {0, 1, 15, 16, 31}
  Sizes = {1, 2, 3}
SPECIFICATION Spec
INVARIANT AgreesWithLinearSpace
