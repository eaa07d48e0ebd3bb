SPECIFICATION FairSpec
CONSTANTS
  Paths <- MCPaths
  LongPaths <- MCLongPaths
  BadPaths <- MCBadPaths
  MenuPath = "menu_path"
  NoPath = "no_path"
  Chunks <- MCChunks
  ChunkSize <- MCChunkSize
  NoData = "none"
  MaxTransactionLen = 3
  MaxResponseLen = 2
  Deserialize <- MCDeserialize
  Commands <- MCAllCommands
  HostWaits = TRUE
  Nbgl = FALSE
INVARIANTS
  TypeOK
  PendingReview
  SignedWhatWasReviewed
  UploadIntegrity
  KeyIsOfRequestedPath
  NoOrphanReview
  NeverReturns
PROPERTIES
  SignatureNeedsApproval
  ImplementsWallet
  CommandAnswered
