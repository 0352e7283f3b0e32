SPECIFICATION FairSpec
CONSTANTS
  a = a
  u = u
  Ids <- MCIds
  Turn = u
  NCtx = 6
  Compress = 7
  NSlots = 2
  ParkCap = 0
  AnchorOn = FALSE
  AnchorMin = 1
  Chunk = 2
  MaxPrompt = 3
  MaxTokens = 2
  Drafts = 2
  FilesOn = TRUE
INVARIANTS
  LiveIntact
  FileIntact
PROPERTIES
  ServesAsCold
