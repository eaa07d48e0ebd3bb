SPECIFICATION FairSpec
CONSTANTS
  Paths <- MCPaths
  LongPaths <- MCLongPaths
  BadPaths <- MCBadPaths
  MenuPath = "menu_path"
  NoPath = "no_path"
  Chunks <- MCChunks
  ChunkSize <- MCChunkSize
  NoData = "none"
  MaxTransactionLen = 4
  MaxResponseLen = 4
  Deserialize <- MCDeserialize
  Commands <- MCCommands
  HostWaits = TRUE
  Nbgl = FALSE
INVARIANT
  RefusedPathNeverSigns
