SPECIFICATION Spec
CONSTANTS
  Built  <- MCBuilt
  Inputs <- MCDamagedInputs
INVARIANT OkMeansEverythingWasRead
