SPECIFICATION FairSpec
CONSTANTS
  Paths <- MCPaths
  LongPaths <- MCLongPaths
  BadPaths <- MCBadPaths
  MenuPath = "menu_path"
  NoPath = "no_path"
  Chunks <- MCChunks
  ChunkSize <- MCChunkSize
  NoData = "none"
  MaxTransactionLen = 4
  MaxResponseLen = 3
  Deserialize <- MCDeserialize
  Commands <- MCCommands
  HostWaits = TRUE
  Nbgl = TRUE
INVARIANTS
  PendingReview
  SignedWhatWasReviewed
  UploadIntegrity
PROPERTIES
  SignatureNeedsApproval
  ImplementsWallet
  CommandAnswered
