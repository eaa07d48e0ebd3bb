SPECIFICATION FairSpec
CONSTANTS
  Built  <- MCBuilt
  Inputs <- MCInputs
INVARIANTS
  ParsesWhatWasBuilt
  ParserTypeOK
  OffsetsInside
  OutputFits
  FieldsAreBounded
  RoundTrips
PROPERTIES
  AlwaysForward
  Terminates
