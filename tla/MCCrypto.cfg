SPECIFICATION Spec
CONSTANTS
  p1 = p1
  p2 = p2
  Paths <- MCPaths
  MenuPath = menu
  Zero = zero
  MayReturn <- MCMayReturn
INVARIANTS
  CryptoTypeOK
  SecretsAreErased
  AnswerIsOfRequestedKey
  MenuShowsNoOtherKey
  ContextIsLostForGood
