SPECIFICATION FairHostSpec
CONSTANTS
  Paths <- MCPaths
  LongPaths = {"long"}
  BadPaths = {"short"}
  MenuPath = "menu_path"
  NoPath = "no_path"
  Chunks = {"head", "more", "end", "custom"}
  ChunkSize <- MCChunkSize
  NoData = "none"
  MaxTransactionLen = 8
  MaxResponseLen = 2
  Deserialize <- MCDeserialize
  Commands <- MCCommands
  HostWaits = TRUE
  Nbgl = FALSE
  Transactions <- MCTransactions
  CallKinds <- MCCallKinds
INVARIANTS
  HostTypeOK
  CallGetsItsAnswer
  OnlyEchoedTransactionsSign
PROPERTIES
  CallsEnd
