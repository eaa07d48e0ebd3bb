SPECIFICATION Spec
CONSTANTS
  Paths <- MCPaths
  LongPaths <- MCLongPaths
  BadPaths <- MCBadPaths
  MenuPath = "menu_path"
  NoPath = "no_path"
  Chunks <- MCChunks
  ChunkSize <- MCChunkSize
  NoData = "none"
  MaxTransactionLen = 4
  MaxResponseLen = 3
  Deserialize <- MCDeserialize
  Commands <- MCRetryCommands
  HostWaits = FALSE
  Nbgl = TRUE
INVARIANTS
  PendingReview
  SignedWhatWasReviewed
PROPERTIES
  ImplementsWallet
