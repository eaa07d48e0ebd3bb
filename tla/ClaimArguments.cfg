SPECIFICATION Spec
CONSTANTS
  Built  <- MCBuilt
  Inputs <- MCTestInputs
INVARIANT ArgumentsFitTheirArray
