SPECIFICATION Spec
CONSTANTS
  a = a
  u = u
  Ids <- MCIds
  Turn = u
  NCtx = 6
  Compress = 7
  NSlots = 2
  ParkCap = 2
  AnchorOn = FALSE
  AnchorMin = 1
  Chunk = 2
  MaxPrompt = 3
  MaxTokens = 2
  Drafts = 1
  FilesOn = FALSE
SYMMETRY IdSymmetry
INVARIANTS
  ParkedIntact
