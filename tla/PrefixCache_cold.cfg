SPECIFICATION FairSpec
CONSTANTS
  a = a
  u = u
  Ids <- MCIds
  Turn = u
  NCtx = 5
  Compress = 3
  NSlots = 2
  ParkCap = 2
  AnchorOn = TRUE
  AnchorMin = 1
  Chunk = 2
  MaxPrompt = 3
  MaxTokens = 3
  Drafts = 0
  FilesOn = FALSE
INVARIANTS
  TypeOK
  LiveIntact
  ParkedIntact
  SlotsSound
  PrefillFromExact
PROPERTIES
  ParkSound
  ServesAsCold
  HeadOutlivesTurns
